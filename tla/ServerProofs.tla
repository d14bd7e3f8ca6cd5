----------------------------- MODULE ServerProofs -----------------------------
(***************************************************************************)
(* Mutual exclusion of the inference lock and of the worker, for every set *)
(* of requests, calls and runtimes, every pool and every failure.          *)
(*                                                                         *)
(* The lock is handed from thread to thread and released by whichever ends *)
(* a stream, so that its exclusiveness rests on where the requests, the    *)
(* worker's job and the timer threads are; and the worker's queue stays    *)
(* short only because the lock is exclusive.  The two are proved together. *)
(***************************************************************************)
EXTENDS Server, TLAPS

(* The part of the type invariant that the argument needs. *)
ThreadRecord == [pc : LC!ThreadPc, left : Nat]

LockType ==
  /\ lockHeld \in BOOLEAN
  /\ pc \in [Requests -> RequestPc]
  /\ call \in [Requests -> Calls \cup {None}]
  /\ queue \in [Requests -> {None, "empty", "value", "done", "error"}]
  /\ thread \in [Runtimes -> [LC!Generations -> ThreadRecord]]
  /\ \A r \in Requests : pc[r] # "idle" => call[r] \in Calls

(* Exactly one holder when the lock is held, none when it is free. *)
Exclusive ==
  /\ lockHeld <=> Holders # {}
  /\ \A a, b \in Holders : a = b

(* The caller of a job waits for it: in run(), in the unload of a timer or  *)
(* of a finish_request, or anywhere in its stream before the last item.     *)
Waits(j) ==
  \/ /\ j.kind = "infer" /\ j.caller \in Requests
     /\ pc[j.caller] = "running"
  \/ /\ j.kind = "stream" /\ j.caller \in Requests
     /\ pc[j.caller] \in {"suspended", "ready", "pulling", "closing"}
     /\ queue[j.caller] \in {"empty", "value"}
  \/ /\ j.kind = "unload" /\ j.caller \in Requests
     /\ pc[j.caller] = "unloading"
  \/ /\ j.kind = "unload" /\ j.caller \in TimerThreads
     /\ thread[j.caller[1]][j.caller[2]].pc = "unloading"

AtMostOneJob == jobs = <<>> \/ \E j : jobs = <<j>> /\ Waits(j)

(* A generation to come has no timer thread yet, so that the thread a       *)
(* finishing request starts cannot be one that holds the lock.              *)
FreshGeneration(n) ==
  \A g \in LC!Generations : g > generation[n] => thread[n][g].pc = "none"

Fresh ==
  /\ generation \in [Runtimes -> LC!Generations]
  /\ \A n \in Runtimes : FreshGeneration(n)

LockInv == LockType /\ Fresh /\ Exclusive /\ AtMostOneJob
-----------------------------------------------------------------------------
LEMMA LifecycleConstants ==
  /\ Delays \subseteq Nat /\ RetryDelay \in Nat /\ MaxGeneration \in Nat
  /\ None \notin Nat
BY ServerAssumption DEF ServerAssumption, LC!LifecycleAssumption

(* A call that a request has made names a runtime and a keep-alive.         *)
LEMMA CallType ==
  ASSUME LockType, NEW r \in Requests, pc[r] # "idle"
  PROVE  /\ Of(r) \in Runtimes
         /\ call[r].keepAlive \in Delays \cup {0, None}
<1>1. call[r] \in Calls /\ call[r] \in Call
  BY ServerAssumption DEF LockType, ServerAssumption
<1> QED
  BY <1>1, ServerAssumption
  DEF Of, RuntimeOf, Call, ServerAssumption, LC!KeepAlives

(* Where a lifecycle's critical sections leave the timer threads: well      *)
(* typed, and holding the inference lock exactly if they held it before.    *)
HoldersKept ==
  /\ thread' \in [Runtimes -> [LC!Generations -> ThreadRecord]]
  /\ \A t \in TimerThreads : TimerHolds(t)' <=> TimerHolds(t)
  /\ \A t \in TimerThreads :
       thread[t[1]][t[2]].pc = "unloading" =>
         thread'[t[1]][t[2]].pc = "unloading"

LEMMA CancelKeeps ==
  ASSUME LockType, NEW n \in Runtimes
  PROVE  /\ LC!CancelTimer(n) \in [LC!Generations -> ThreadRecord]
         /\ \A g \in LC!Generations :
              LC!CancelTimer(n)[g] = thread[n][g] \/
              (thread[n][g].pc = "waiting" /\ LC!CancelTimer(n)[g].pc = "none")
BY DEF LockType, LC!CancelTimer, LC!NoThread, LC!At, LC!ThreadPc, ThreadRecord

LEMMA BeginKeeps ==
  ASSUME LockType, Fresh, NEW n \in Runtimes, LC!BeginRequest(n)
  PROVE  HoldersKept /\ Fresh'
<1>1. thread' = [thread EXCEPT ![n] = LC!CancelTimer(n)]
  BY DEF LC!BeginRequest
<1>2. thread' \in [Runtimes -> [LC!Generations -> ThreadRecord]]
  BY <1>1, CancelKeeps DEF LockType
<1>3. ASSUME NEW m \in Runtimes, NEW g \in LC!Generations
      PROVE  \/ thread'[m][g] = thread[m][g]
             \/ thread[m][g].pc = "waiting" /\ thread'[m][g].pc = "none"
  BY <1>1, CancelKeeps DEF LockType
<1>4. Fresh'
  <2>1. generation \in [Runtimes -> LC!Generations]
    BY DEF Fresh
  <2>2. generation' \in [Runtimes -> LC!Generations]
    BY <2>1, LifecycleConstants DEF LC!BeginRequest, LC!Generations
  <2>3. ASSUME NEW m \in Runtimes, NEW g \in LC!Generations,
               g > generation'[m]
        PROVE  thread'[m][g].pc = "none"
    <3>1. g > generation[m]
      BY <2>1, <2>3, LifecycleConstants DEF LC!BeginRequest, LC!Generations
    <3> QED BY <1>3, <3>1 DEF Fresh, FreshGeneration
  <2> QED BY <2>2, <2>3 DEF Fresh, FreshGeneration
<1> QED BY <1>2, <1>3, <1>4 DEF HoldersKept, TimerHolds, TimerThreads

LEMMA ScheduleKeeps ==
  ASSUME LockType, NEW n \in Runtimes, NEW g \in LC!Generations,
         NEW delay \in Nat, NEW threads \in [LC!Generations -> ThreadRecord],
         LC!ScheduleUnload(n, delay, g, threads),
         \A k \in LC!Generations :
           \/ threads[k] = thread[n][k]
           \/ thread[n][k].pc = "waiting" /\ threads[k].pc = "none",
         thread[n][g].pc \notin {"locked", "unload", "unloading", "release"}
  PROVE  /\ HoldersKept
         /\ \A m \in Runtimes, k \in LC!Generations :
              m # n \/ k # g =>
                \/ thread'[m][k] = thread[m][k]
                \/ thread[m][k].pc = "waiting" /\ thread'[m][k].pc = "none"
<1>1. /\ thread' = [thread EXCEPT ![n] = [threads EXCEPT ![g] = LC!Waiting(delay)]]
      /\ LC!Waiting(delay) \in ThreadRecord
      /\ LC!Waiting(delay).pc = "waiting"
  BY DEF LC!ScheduleUnload, LC!Waiting, ThreadRecord, LC!ThreadPc
<1>2. thread' \in [Runtimes -> [LC!Generations -> ThreadRecord]]
  BY <1>1 DEF LockType
<1>3. ASSUME NEW m \in Runtimes, NEW k \in LC!Generations, m # n \/ k # g
      PROVE  \/ thread'[m][k] = thread[m][k]
             \/ thread[m][k].pc = "waiting" /\ thread'[m][k].pc = "none"
  BY <1>1, <1>3 DEF LockType
<1>4. thread'[n][g] = LC!Waiting(delay)
  BY <1>1 DEF LockType
<1>5. ASSUME NEW m \in Runtimes, NEW k \in LC!Generations
      PROVE  /\ TimerHolds(<<m, k>>)' <=> TimerHolds(<<m, k>>)
             /\ thread[m][k].pc = "unloading" => thread'[m][k].pc = "unloading"
  BY <1>1, <1>3, <1>4 DEF TimerHolds
<1> QED BY <1>2, <1>3, <1>5 DEF HoldersKept, TimerThreads

LEMMA FinishKeeps ==
  ASSUME LockType, Fresh, NEW n \in Runtimes, NEW ka \in Delays \cup {0, None},
         NEW isLoaded \in BOOLEAN, LC!FinishRequest(n, ka, isLoaded)
  PROVE  HoldersKept /\ Fresh'
<1>1. /\ generation[n] \in Nat /\ generation[n] + 1 \in LC!Generations
      /\ generation' = [generation EXCEPT ![n] = @ + 1]
      /\ generation' \in [Runtimes -> LC!Generations]
      /\ \A m \in Runtimes, g \in LC!Generations :
           g > generation'[m] => g > generation[m] /\ (m # n \/ g # generation[n] + 1)
  BY LifecycleConstants DEF LC!FinishRequest, Fresh, LC!Generations
<1>2. ASSUME isLoaded, ka \in Delays PROVE HoldersKept /\ Fresh'
  <2>1. LC!ScheduleUnload(n, ka, generation[n] + 1, LC!CancelTimer(n))
    BY <1>2 DEF LC!FinishRequest
  <2>2. thread[n][generation[n] + 1].pc = "none"
    BY <1>1 DEF Fresh, FreshGeneration
  <2>3. /\ HoldersKept
        /\ \A m \in Runtimes, k \in LC!Generations :
             m # n \/ k # generation[n] + 1 =>
               \/ thread'[m][k] = thread[m][k]
               \/ thread[m][k].pc = "waiting" /\ thread'[m][k].pc = "none"
    BY <1>1, <1>2, <2>1, <2>2, CancelKeeps, ScheduleKeeps, LifecycleConstants
  <2> QED BY <1>1, <2>3 DEF Fresh, FreshGeneration
<1>3. ASSUME ~(isLoaded /\ ka \in Delays) PROVE HoldersKept /\ Fresh'
  <2>1. thread' = [thread EXCEPT ![n] = LC!CancelTimer(n)]
    BY <1>3 DEF LC!FinishRequest
  <2>2. thread' \in [Runtimes -> [LC!Generations -> ThreadRecord]]
    BY <2>1, CancelKeeps DEF LockType
  <2>3. ASSUME NEW m \in Runtimes, NEW g \in LC!Generations
        PROVE  \/ thread'[m][g] = thread[m][g]
               \/ thread[m][g].pc = "waiting" /\ thread'[m][g].pc = "none"
    BY <2>1, CancelKeeps DEF LockType
  <2>4. HoldersKept
    BY <2>2, <2>3 DEF HoldersKept, TimerHolds, TimerThreads
  <2> QED BY <1>1, <2>3, <2>4 DEF Fresh, FreshGeneration
<1> QED BY <1>2, <1>3

(* A step of a timer thread to another place, which no other thread sees.   *)
LEMMA GotoKeeps ==
  ASSUME LockType, Fresh, NEW n \in Runtimes, NEW g \in LC!Generations,
         NEW where \in LC!ThreadPc, thread[n][g].pc # "none",
         LC!Goto(n, g, where), UNCHANGED generation
  PROVE  /\ thread' \in [Runtimes -> [LC!Generations -> ThreadRecord]]
         /\ Fresh'
         /\ thread'[n][g].pc = where
         /\ \A m \in Runtimes, k \in LC!Generations :
              m # n \/ k # g => thread'[m][k] = thread[m][k]
<1>1. /\ thread' \in [Runtimes -> [LC!Generations -> ThreadRecord]]
      /\ thread'[n][g].pc = where
      /\ \A m \in Runtimes, k \in LC!Generations :
           m # n \/ k # g => thread'[m][k] = thread[m][k]
  BY DEF LC!Goto, LockType, ThreadRecord
<1> QED BY <1>1 DEF Fresh, FreshGeneration

(* The steps of a timer thread that neither take nor release the lock.      *)
LEMMA TimerKeeps ==
  ASSUME LockType, Fresh, NEW n \in Runtimes, NEW g \in LC!Generations,
         \/ LC!Fire(n, g) \/ LC!LockBusy(n, g)
         \/ LC!RescheduleIfCurrent(n, g) \/ LC!CheckGeneration(n, g)
         \/ \E isLoaded \in BOOLEAN : LC!StartUnload(n, g, isLoaded)
  PROVE  HoldersKept /\ Fresh'
<1> DEFINE Free == {"none", "waiting", "fired", "retry"}
           Held == {"locked", "unload", "unloading", "release"}
<1>1. ASSUME NEW where \in LC!ThreadPc, LC!Goto(n, g, where),
             UNCHANGED generation,
             thread[n][g].pc \notin {"none", "unloading"},
             thread[n][g].pc \in Held <=> where \in Held
      PROVE  HoldersKept /\ Fresh'
  <2>1. /\ thread' \in [Runtimes -> [LC!Generations -> ThreadRecord]]
        /\ Fresh'
        /\ thread'[n][g].pc = where
        /\ \A m \in Runtimes, k \in LC!Generations :
             m # n \/ k # g => thread'[m][k] = thread[m][k]
    BY <1>1, GotoKeeps
  <2>2. ASSUME NEW m \in Runtimes, NEW k \in LC!Generations
        PROVE  /\ TimerHolds(<<m, k>>)' <=> TimerHolds(<<m, k>>)
               /\ thread[m][k].pc = "unloading" => thread'[m][k].pc = "unloading"
    BY <1>1, <2>1 DEF TimerHolds
  <2> QED BY <2>1, <2>2 DEF HoldersKept, TimerThreads
<1> USE DEF LC!ThreadPc, LC!At
<1>2. CASE LC!Fire(n, g)
  BY <1>1, <1>2 DEF LC!Fire
<1>3. CASE LC!LockBusy(n, g)
  BY <1>1, <1>3 DEF LC!LockBusy
<1>4. CASE LC!CheckGeneration(n, g)
  BY <1>1, <1>4 DEF LC!CheckGeneration
<1>5. ASSUME NEW isLoaded \in BOOLEAN, LC!StartUnload(n, g, isLoaded)
      PROVE  HoldersKept /\ Fresh'
  BY <1>1, <1>5 DEF LC!StartUnload
<1>6. CASE LC!RescheduleIfCurrent(n, g)
  <2>1. CASE g # generation[n]
    BY <1>1, <1>6, <2>1 DEF LC!RescheduleIfCurrent
  <2>2. CASE g = generation[n]
    <3>1. /\ LC!ScheduleUnload(n, RetryDelay, g, thread[n])
          /\ thread[n][g].pc = "retry"
          /\ UNCHANGED generation
      BY <1>6, <2>2 DEF LC!RescheduleIfCurrent
    <3>2. thread[n] \in [LC!Generations -> ThreadRecord]
      BY DEF LockType
    <3>3. /\ HoldersKept
          /\ \A m \in Runtimes, k \in LC!Generations :
               m # n \/ k # g =>
                 \/ thread'[m][k] = thread[m][k]
                 \/ thread[m][k].pc = "waiting" /\ thread'[m][k].pc = "none"
      BY <3>1, <3>2, ScheduleKeeps, LifecycleConstants
    <3>4. Fresh'
      BY <2>2, <3>1, <3>3, LifecycleConstants
      DEF Fresh, FreshGeneration, LC!Generations
    <3> QED BY <3>3, <3>4
  <2> QED BY <2>1, <2>2
<1> QED BY <1>2, <1>3, <1>4, <1>5, <1>6

LEMMA TickKeeps ==
  ASSUME LockType, Fresh, LC!Tick
  PROVE  HoldersKept /\ Fresh'
<1>1. \A s \in Nat : LC!Less(s) \in Nat
  BY DEF LC!Less
<1>2. ASSUME NEW m \in Runtimes, NEW k \in LC!Generations
      PROVE  /\ thread'[m][k] \in ThreadRecord
             /\ thread'[m][k].pc = thread[m][k].pc
  BY <1>1 DEF LC!Tick, LockType, ThreadRecord
<1>3. thread' \in [Runtimes -> [LC!Generations -> ThreadRecord]]
  BY <1>2 DEF LC!Tick
<1>4. UNCHANGED generation
  BY DEF LC!Tick
<1> QED BY <1>2, <1>3, <1>4
        DEF HoldersKept, TimerHolds, TimerThreads, Fresh, FreshGeneration
-----------------------------------------------------------------------------
LEMMA NamesDiffer ==
  \A r \in Requests, t \in TimerThreads : r # t
BY ServerAssumption DEF ServerAssumption, TimerThreads

(* A request that holds the lock and waits for no job is alone: there is no *)
(* job at all.                                                              *)
LEMMA NoJob ==
  ASSUME LockInv, NEW r \in Requests, RequestHolds(r),
         \/ pc[r] \notin {"running", "unloading", "suspended", "ready",
                          "pulling", "closing"}
         \/ /\ pc[r] \notin {"running", "unloading"}
            /\ queue[r] \notin {"empty", "value"}
         \/ pc[r] \notin {"running", "unloading"} /\ ~HasJob(r)
  PROVE  jobs = <<>>
<1> SUFFICES ASSUME NEW j, jobs = <<j>>, Waits(j)
             PROVE  FALSE
  BY DEF LockInv, AtMostOneJob
<1>1. j.caller \in Holders
  BY DEF Waits, Holders, RequestHolds, TimerHolds
<1>2. r \in Holders
  BY DEF Holders
<1>3. j.caller = r
  BY <1>1, <1>2 DEF LockInv, Exclusive
<1>4. HasJob(r)
  BY <1>3 DEF HasJob
<1> QED BY <1>3, <1>4, NamesDiffer DEF Waits

(* Nor is there a job while the lock is free, or held by a timer thread     *)
(* that is not in the unload.                                               *)
LEMMA NoJobWhenFree ==
  ASSUME LockInv, ~lockHeld
  PROVE  jobs = <<>>
<1> SUFFICES ASSUME NEW j, jobs = <<j>>, Waits(j)
             PROVE  FALSE
  BY DEF LockInv, AtMostOneJob
<1>1. j.caller \in Holders
  BY DEF Waits, Holders, RequestHolds, TimerHolds
<1> QED BY <1>1 DEF LockInv, Exclusive

LEMMA NoJobForTimer ==
  ASSUME LockInv, NEW t \in TimerThreads, TimerHolds(t),
         thread[t[1]][t[2]].pc # "unloading"
  PROVE  jobs = <<>>
<1> SUFFICES ASSUME NEW j, jobs = <<j>>, Waits(j)
             PROVE  FALSE
  BY DEF LockInv, AtMostOneJob
<1>1. j.caller \in Holders /\ t \in Holders
  BY DEF Waits, Holders, RequestHolds, TimerHolds
<1>2. j.caller = t
  BY <1>1 DEF LockInv, Exclusive
<1> QED BY <1>2, NamesDiffer DEF Waits

(* Steps that leave the holders as they are leave the lock exclusive.       *)
LEMMA SameHolders ==
  ASSUME Exclusive, lockHeld' = lockHeld,
         \A r \in Requests : RequestHolds(r)' <=> RequestHolds(r),
         \A t \in TimerThreads : TimerHolds(t)' <=> TimerHolds(t)
  PROVE  Exclusive'
<1>1. Holders' = Holders
  BY DEF Holders
<1> QED BY <1>1 DEF Exclusive

(* A thread that enters while the lock is free is the only holder.          *)
LEMMA Enter ==
  ASSUME Exclusive, ~lockHeld, lockHeld', NEW h, Holders' = Holders \cup {h}
  PROVE  Exclusive'
BY DEF Exclusive

(* The only holder leaves, and the lock is free.                            *)
LEMMA Leave ==
  ASSUME Exclusive, ~lockHeld', NEW h \in Holders, Holders' = Holders \ {h}
  PROVE  Exclusive'
BY DEF Exclusive

(* A job that nobody touches is waited for as before.                       *)
LEMMA SameJob ==
  ASSUME AtMostOneJob, jobs' = jobs,
         \A r \in Requests : pc'[r] = pc[r] /\ queue'[r] = queue[r],
         \A t \in TimerThreads :
           thread[t[1]][t[2]].pc = "unloading" =>
             thread'[t[1]][t[2]].pc = "unloading"
  PROVE  AtMostOneJob'
<1>1. CASE jobs = <<>>
  BY <1>1 DEF AtMostOneJob
<1>2. ASSUME NEW j, jobs = <<j>>, Waits(j)
      PROVE  AtMostOneJob'
  <2>1. Waits(j)'
    BY <1>2 DEF Waits
  <2> QED BY <1>2, <2>1 DEF AtMostOneJob
<1> QED BY <1>1, <1>2 DEF AtMostOneJob

(* The head job is the only one, and its caller waits for it.               *)
LEMMA HeadJob ==
  ASSUME LockInv, jobs # <<>>
  PROVE  jobs = <<Head1>> /\ Waits(Head1) /\ Tail(jobs) = <<>>
<1> PICK j : jobs = <<j>> /\ Waits(j)
  BY DEF LockInv, AtMostOneJob
<1>1. Head1 = j /\ Tail(jobs) = <<>>
  BY DEF Head1
<1> QED BY <1>1
-----------------------------------------------------------------------------
Outside == {"idle", "queued", "waiting", "answered"}
Stream  == {"suspended", "ready", "pulling", "closing"}
Slots   == {None, "empty", "value", "done", "error"}

Moves(r, where) == pc' = [pc EXCEPT ![r] = where]

(* A request moves on inside, or outside, its critical section.             *)
LEMMA Move ==
  ASSUME LockInv, NEW r \in Requests, NEW where \in RequestPc, Moves(r, where),
         RequestHolds(r) <=> where \notin Outside, call[r] \in Calls,
         UNCHANGED <<lockHeld, call>>, queue' \in [Requests -> Slots],
         HoldersKept, Fresh', AtMostOneJob'
  PROVE  LockInv'
<1>1. LockType'
  BY DEF LockInv, LockType, HoldersKept, Moves, Slots
<1>2. \A q \in Requests : RequestHolds(q)' <=> RequestHolds(q)
  BY DEF LockInv, LockType, RequestHolds, Outside, Moves
<1>3. Exclusive'
  BY <1>2, SameHolders DEF LockInv, HoldersKept
<1> QED BY <1>1, <1>3 DEF LockInv

LEMMA NothingMoves ==
  ASSUME LockInv, UNCHANGED thread, UNCHANGED generation
  PROVE  HoldersKept /\ Fresh'
BY DEF LockInv, LockType, HoldersKept, Fresh, FreshGeneration, TimerHolds,
       TimerThreads

(* Who does not hold the lock has no job.                                   *)
LEMMA OutsideJob ==
  ASSUME LockInv, NEW r \in Requests, ~RequestHolds(r), NEW where,
         Moves(r, where), UNCHANGED <<jobs, queue, thread>>
  PROVE  AtMostOneJob'
<1>1. CASE jobs = <<>>
  BY <1>1 DEF AtMostOneJob
<1>2. ASSUME NEW j, jobs = <<j>>, Waits(j)
      PROVE  AtMostOneJob'
  <2>1. Waits(j)'
    BY <1>2 DEF Waits, RequestHolds, Moves, LockInv, LockType
  <2> QED BY <1>2, <2>1 DEF AtMostOneJob
<1> QED BY <1>1, <1>2 DEF LockInv, AtMostOneJob

(* A stream that moves on before its last item keeps its job.               *)
LEMMA StreamJob ==
  ASSUME LockInv, NEW r \in Requests, pc[r] \in Stream,
         NEW where \in Stream, Moves(r, where), UNCHANGED <<jobs, thread>>,
         queue' \in [Requests -> Slots],
         queue[r] \in {"empty", "value"} => queue'[r] \in {"empty", "value"},
         \A q \in Requests \ {r} : queue'[q] = queue[q]
  PROVE  AtMostOneJob'
<1>1. CASE jobs = <<>>
  BY <1>1 DEF AtMostOneJob
<1>2. ASSUME NEW j, jobs = <<j>>, Waits(j)
      PROVE  AtMostOneJob'
  <2>1. Waits(j)'
    BY <1>2 DEF Waits, Stream, Moves, LockInv, LockType
  <2> QED BY <1>2, <2>1 DEF AtMostOneJob
<1> QED BY <1>1, <1>2 DEF LockInv, AtMostOneJob

(* A job handed over while there is none.                                   *)
LEMMA NewJob ==
  ASSUME NEW j, jobs = <<>>, Submit(j), Waits(j)'
  PROVE  AtMostOneJob'
<1>1. jobs' = <<j>>
  BY DEF Submit
<1> QED BY <1>1 DEF AtMostOneJob
-----------------------------------------------------------------------------
LEMMA InitLock == Init => LockInv
<1> SUFFICES ASSUME Init PROVE LockInv
  OBVIOUS
<1> USE DEF Init, LC!Init, LC!NoThread
<1>1. LockType
  BY DEF LockType, RequestPc, ThreadRecord, LC!ThreadPc
<1>2. Fresh
  BY LifecycleConstants DEF Fresh, FreshGeneration, LC!Generations
<1>3. Exclusive
  BY DEF Exclusive, Holders, RequestHolds, TimerHolds, TimerThreads
<1>4. AtMostOneJob
  BY DEF AtMostOneJob
<1> QED BY <1>1, <1>2, <1>3, <1>4 DEF LockInv

(* The handlers before they hold the lock.                                  *)
LEMMA OutsideSteps ==
  ASSUME LockInv, NEW r \in Requests,
         Arrive(r) \/ Reject(r) \/ Start(r) \/ AcquireTimeout(r)
  PROVE  LockInv'
<1> USE DEF At, Goto, Moves, lifecycleVars, RequestHolds, Outside, RequestPc
<1>1. /\ ~RequestHolds(r)
      /\ \E where \in {"queued", "waiting", "answered"} : Moves(r, where)
      /\ UNCHANGED <<lockHeld, jobs, queue, thread, generation>>
  BY DEF Arrive, Reject, Start, AcquireTimeout, workerVars
<1>2. AtMostOneJob'
  BY <1>1, OutsideJob
<1>3. HoldersKept /\ Fresh'
  BY <1>1, NothingMoves
<1>4. CASE Arrive(r)
  <2>1. LockType'
    BY <1>3, <1>4 DEF Arrive, LockInv, LockType, HoldersKept
  <2>2. \A q \in Requests : RequestHolds(q)' <=> RequestHolds(q)
    BY <1>1 DEF LockInv, LockType
  <2>3. Exclusive'
    BY <1>1, <1>3, <2>2, SameHolders DEF LockInv, HoldersKept
  <2> QED BY <1>2, <1>3, <2>1, <2>3 DEF LockInv
<1>5. CASE ~Arrive(r)
  <2>1. call[r] \in Calls /\ UNCHANGED call
    BY <1>5 DEF Reject, Start, AcquireTimeout, LockInv, LockType
  <2>2. queue' \in [Requests -> Slots]
    BY <1>1 DEF LockInv, LockType, Slots
  <2> QED BY <1>1, <1>2, <1>3, <2>1, <2>2, Move
<1> QED BY <1>4, <1>5

LEMMA AcquireStep ==
  ASSUME LockInv, NEW r \in Requests, AcquireLock(r)
  PROVE  LockInv'
<1> USE DEF At, Goto, AcquireLock, lifecycleVars, workerVars, LockInv
<1>1. jobs = <<>> /\ jobs' = <<>>
  BY NoJobWhenFree
<1>2. HoldersKept /\ Fresh'
  BY NothingMoves
<1>3. LockType'
  BY <1>2 DEF LockType, HoldersKept, RequestPc
<1>4. Holders' = Holders \cup {r}
  BY <1>2 DEF Holders, RequestHolds, LockType, HoldersKept
<1>5. Exclusive'
  BY <1>4, Enter DEF LockType
<1> QED BY <1>1, <1>2, <1>3, <1>5 DEF AtMostOneJob

LEMMA ReleaseStep ==
  ASSUME LockInv, NEW r \in Requests, Release(r)
  PROVE  LockInv'
<1> USE DEF At, Goto, Release, lifecycleVars, workerVars, LockInv
<1>1. r \in Holders /\ jobs = <<>> /\ jobs' = <<>>
  BY NoJob DEF RequestHolds, Holders
<1>2. HoldersKept /\ Fresh'
  BY NothingMoves
<1>3. LockType'
  BY <1>2 DEF LockType, HoldersKept, RequestPc
<1>4. Holders' = Holders \ {r}
  BY <1>2, NamesDiffer DEF Holders, RequestHolds, LockType, HoldersKept
<1>5. Exclusive'
  BY <1>1, <1>4, Leave
<1> QED BY <1>1, <1>2, <1>3, <1>5 DEF AtMostOneJob

(* The handlers inside the critical section that touch no lifecycle.  None  *)
(* of them starts while the request has a job.                              *)
LEMMA JoblessSteps ==
  ASSUME LockInv, NEW r \in Requests,
         \/ RunJob(r) \/ Fallback(r) \/ UnloadNow(r) \/ Open(r) \/ Orphan(r)
         \/ Close(r)
  PROVE  LockInv'
<1> USE DEF At, Goto, Moves, lifecycleVars, workerVars, RequestHolds, Outside,
            RequestPc
<1>1. jobs = <<>>
  BY NoJob DEF RunJob, Fallback, UnloadNow, Open, Orphan, Close
<1>2. UNCHANGED <<lockHeld, call, queue, thread, generation>>
  BY DEF RunJob, Fallback, UnloadNow, Open, Orphan, Close
<1>3. PICK where \in RequestPc \ Outside : Moves(r, where)
  BY DEF RunJob, Fallback, UnloadNow, Open, Orphan, Close
<1>4. RequestHolds(r) /\ pc[r] # "idle"
  BY DEF RunJob, Fallback, UnloadNow, Open, Orphan, Close
<1>5. call[r] \in Calls /\ queue' \in [Requests -> Slots]
  BY <1>2, <1>4 DEF LockInv, LockType, Slots
<1>6. AtMostOneJob'
  <2>1. CASE RunJob(r)
    <3>1. Waits(Job(r, "infer", Of(r), call[r].model))'
      BY <1>2, <2>1 DEF Waits, Job, Of, RunJob, LockInv, LockType
    <3>2. Job(r, "infer", Of(r), call[r].model)'
          = Job(r, "infer", Of(r), call[r].model)
      BY <1>2 DEF Job, Of
    <3> QED BY <1>1, <2>1, <3>1, <3>2, NewJob DEF RunJob
  <2>2. CASE Fallback(r)
    <3>1. Waits(Job(r, "infer", "chat", "model"))'
      BY <2>2 DEF Waits, Job, Fallback, LockInv, LockType
    <3> QED BY <1>1, <2>2, <3>1, NewJob DEF Fallback
  <2>3. CASE UnloadNow(r)
    <3>1. Waits(Job(r, "unload", Of(r), None))'
      BY <1>2, <2>3 DEF Waits, Job, Of, UnloadNow, LockInv, LockType
    <3>2. Job(r, "unload", Of(r), None)' = Job(r, "unload", Of(r), None)
      BY <1>2 DEF Job, Of
    <3> QED BY <1>1, <2>3, <3>1, <3>2, NewJob DEF UnloadNow
  <2>4. CASE Open(r) \/ Orphan(r) \/ Close(r)
    BY <1>1, <2>4 DEF Open, Orphan, Close, AtMostOneJob
  <2> QED BY <2>1, <2>2, <2>3, <2>4
<1> QED BY <1>2, <1>3, <1>4, <1>5, <1>6, NothingMoves, Move

(* The steps of a stream whose job may be running.                          *)
LEMMA StreamSteps ==
  ASSUME LockInv, NEW r \in Requests,
         Pull(r) \/ Receive(r) \/ Read(r) \/ Disconnect(r)
  PROVE  LockInv'
<1> USE DEF At, Goto, Moves, lifecycleVars, workerVars, RequestHolds, Outside,
            RequestPc, Slots, Stream
<1>1. UNCHANGED <<lockHeld, call, thread, generation>>
  BY DEF Pull, Receive, Read, Disconnect
<1>2. pc[r] \in Stream /\ RequestHolds(r) /\ call[r] \in Calls
  BY DEF Pull, Receive, Read, Disconnect, LockInv, LockType
<1>3. queue' \in [Requests -> Slots]
  BY DEF Pull, Receive, Read, Disconnect, LockInv, LockType
<1>4. PICK where \in Stream \cup {"finish"} : Moves(r, where)
  BY DEF Pull, Receive, Read, Disconnect
<1>5. AtMostOneJob'
  <2>1. CASE Pull(r) /\ queue[r] = None
    <3>1. jobs = <<>>
      BY <2>1, NoJob, ServerAssumption
      DEF Pull, LockInv, LockType, ServerAssumption
    <3>2. Waits(Job(r, "stream", "chat", "model"))'
      BY <2>1 DEF Waits, Job, Pull, LockInv, LockType
    <3> QED BY <2>1, <3>1, <3>2, NewJob DEF Pull
  <2>2. CASE where = "finish"
    <3>1. queue[r] \in {"done", "error"} /\ UNCHANGED jobs
      BY <1>4, <2>2 DEF Pull, Receive, Read, Disconnect, LockInv, LockType
    <3>2. jobs = <<>>
      BY <1>2, <3>1, NoJob DEF Pull, Receive, Read, Disconnect
    <3> QED BY <3>1, <3>2 DEF AtMostOneJob
  <2>3. CASE ~(Pull(r) /\ queue[r] = None) /\ where \in Stream
    <3>1. /\ UNCHANGED jobs
          /\ queue[r] \in {"empty", "value"} => queue'[r] \in {"empty", "value"}
          /\ \A q \in Requests \ {r} : queue'[q] = queue[q]
      BY <2>3 DEF Pull, Receive, Read, Disconnect, LockInv, LockType
    <3> QED BY <1>1, <1>2, <1>3, <1>4, <2>3, <3>1, StreamJob
  <2> QED BY <2>1, <2>2, <2>3
<1> QED BY <1>1, <1>2, <1>3, <1>4, <1>5, NothingMoves, Move

(* begin_request and finish_request, under the lock.                        *)
LEMMA LifecycleSteps ==
  ASSUME LockInv, NEW r \in Requests, Begin(r) \/ Finish(r)
  PROVE  LockInv'
<1> USE DEF At, Goto, Moves, workerVars, RequestHolds, Outside, RequestPc, Slots
<1>1. /\ UNCHANGED <<lockHeld, call, queue, jobs>>
      /\ RequestHolds(r) /\ pc[r] \in {"begin", "finish"}
      /\ \E where \in RequestPc \ Outside : Moves(r, where)
  BY DEF Begin, Finish
<1>2. jobs = <<>> /\ AtMostOneJob'
  BY <1>1, NoJob DEF AtMostOneJob
<1>3. call[r] \in Calls /\ queue' \in [Requests -> Slots]
  BY <1>1 DEF LockInv, LockType
<1>4. /\ Of(r) \in Runtimes /\ call[r].keepAlive \in Delays \cup {0, None}
      /\ LockType /\ Fresh
  BY <1>1, CallType DEF LockInv
<1>5. HoldersKept /\ Fresh'
  <2>1. CASE Begin(r)
    BY <1>4, <2>1, BeginKeeps DEF Begin
  <2>2. CASE Finish(r)
    <3>1. IsLoaded(Of(r)) \in BOOLEAN
      BY DEF IsLoaded
    <3> QED BY <1>4, <2>2, <3>1, FinishKeeps DEF Finish
  <2> QED BY <2>1, <2>2
<1> QED BY <1>1, <1>2, <1>3, <1>5, Move
-----------------------------------------------------------------------------
(* The worker ends its job, and the caller goes on inside the section.      *)
LEMMA EndOfJob ==
  ASSUME LockInv, jobs # <<>>, Head1.caller \in Requests,
         jobs' = Tail(jobs), NEW where \in RequestPc \ Outside,
         Goto(Head1.caller, where), UNCHANGED <<lockHeld, call>>,
         queue' \in [Requests -> Slots], HoldersKept, Fresh'
  PROVE  LockInv'
<1>1. jobs = <<Head1>> /\ Waits(Head1) /\ jobs' = <<>>
  BY HeadJob
<1> DEFINE r == Head1.caller
<1>2. RequestHolds(r) /\ pc[r] # "idle"
  BY <1>1, NamesDiffer DEF Waits, RequestHolds
<1>3. call[r] \in Calls
  BY <1>2 DEF LockInv, LockType
<1>4. AtMostOneJob'
  BY <1>1 DEF AtMostOneJob
<1>5. Moves(r, where)
  BY DEF Moves, Goto
<1> HIDE DEF r
<1> QED BY <1>2, <1>3, <1>4, <1>5, Move DEF r, Outside

(* Where the caller of a job is, by the kind of the job.                    *)
LEMMA JobCaller ==
  ASSUME LockInv, jobs # <<>>, Head1.kind \in {"infer", "stream"}
  PROVE  /\ Head1.caller \in Requests
         /\ pc[Head1.caller] \in RequestPc \ Outside
         /\ Head1.kind = "stream" => pc[Head1.caller] \in Stream
BY HeadJob DEF Waits, RequestPc, Outside, Stream

LEMMA SameLock ==
  ASSUME LockInv, UNCHANGED <<lockHeld, pc, call, queue>>,
         HoldersKept, Fresh', AtMostOneJob'
  PROVE  LockInv'
<1>1. LockType'
  BY DEF LockInv, LockType, HoldersKept
<1>2. Exclusive'
  BY SameHolders DEF LockInv, HoldersKept, RequestHolds
<1> QED BY <1>1, <1>2 DEF LockInv

LEMMA LoadSteps ==
  ASSUME LockInv, StartJob \/ LoadPart
  PROVE  LockInv'
<1> USE DEF lifecycleVars, requestVars
<1>1. /\ UNCHANGED <<lockHeld, call, queue, thread, generation>>
      /\ HoldersKept /\ Fresh'
  BY NothingMoves DEF StartJob, LoadPart
<1>2. CASE UNCHANGED <<jobs, pc>>
  <2>1. AtMostOneJob'
    BY <1>1, <1>2, SameJob DEF LockInv
  <2> QED BY <1>1, <1>2, <2>1, SameLock
<1>3. CASE /\ StartJob
           /\ jobs' = Tail(jobs)
           /\ Goto(Head1.caller, "fallback")
  <2>1. jobs # <<>> /\ Head1.kind \in {"infer", "stream"}
    BY <1>3, HeadJob DEF StartJob, Waits
  <2>2. queue' \in [Requests -> Slots]
    BY <1>1 DEF LockInv, LockType, Slots
  <2> QED BY <1>1, <1>3, <2>1, <2>2, JobCaller, EndOfJob DEF RequestPc, Outside
<1> QED BY <1>2, <1>3 DEF StartJob, LoadPart

LEMMA EndSteps ==
  ASSUME LockInv, EndInference \/ EndStream \/ StopStream
  PROVE  LockInv'
<1> USE DEF lifecycleVars, EndJob
<1>1. /\ UNCHANGED <<lockHeld, call, thread, generation>>
      /\ jobs # <<>> /\ Head1.kind \in {"infer", "stream"}
      /\ jobs' = Tail(jobs)
  BY DEF EndInference, EndStream, StopStream
<1>2. Head1.caller \in Requests /\ pc[Head1.caller] \in RequestPc \ Outside
  BY <1>1, JobCaller
<1>3. queue' \in [Requests -> Slots]
  BY <1>2 DEF EndInference, EndStream, StopStream, LockInv, LockType, Slots
<1>4. \E where \in RequestPc \ Outside : Goto(Head1.caller, where)
  BY <1>2 DEF EndInference, EndStream, StopStream, RequestPc, Outside
<1> QED BY <1>1, <1>2, <1>3, <1>4, NothingMoves, EndOfJob

LEMMA PutStep ==
  ASSUME LockInv, PutChunk
  PROVE  LockInv'
<1> USE DEF PutChunk, lifecycleVars, workerVars
<1>1. jobs = <<Head1>> /\ Waits(Head1) /\ UNCHANGED jobs
  BY HeadJob
<1>2. Head1.caller \in Requests
  BY JobCaller
<1>3. HoldersKept /\ Fresh'
  BY NothingMoves
<1>4. LockType'
  BY <1>2, <1>3 DEF LockInv, LockType, HoldersKept
<1>5. Exclusive'
  BY <1>3, SameHolders DEF LockInv, HoldersKept, RequestHolds
<1>6. AtMostOneJob'
  <2> DEFINE j == Head1
  <2>1. j.kind = "stream" /\ j.caller \in Requests /\ Waits(j) /\ jobs' = <<j>>
    BY <1>1, <1>2
  <2>2. queue' = [queue EXCEPT ![j.caller] = "value"] /\ UNCHANGED pc
    OBVIOUS
  <2> HIDE DEF j
  <2>3. PICK k : k = j
    OBVIOUS
  <2>4. Waits(k)'
    BY <2>1, <2>2, <2>3 DEF Waits, LockInv, LockType
  <2> QED BY <2>1, <2>3, <2>4 DEF AtMostOneJob
<1> QED BY <1>3, <1>4, <1>5, <1>6 DEF LockInv

LEMMA UnloadStep ==
  ASSUME LockInv, NEW r \in Requests, UnloadFor(r)
  PROVE  LockInv'
<1> USE DEF UnloadFor, lifecycleVars
<1>1. HoldersKept /\ Fresh'
  BY NothingMoves
<1>2. queue' \in [Requests -> Slots]
  BY DEF LockInv, LockType, Slots
<1> QED BY <1>1, <1>2, EndOfJob DEF RequestPc, Outside

LEMMA UnloadForTimerStep ==
  ASSUME LockInv, NEW n \in Runtimes, NEW g \in LC!Generations,
         UnloadForTimer(n, g)
  PROVE  LockInv'
<1> USE DEF UnloadForTimer, requestVars
<1>1. jobs' = <<>>
  BY HeadJob
<1>2. /\ LC!Goto(n, g, "release") /\ thread[n][g].pc = "unloading"
      /\ UNCHANGED generation
  BY DEF LC!EndUnload, LC!At
<1>3. /\ thread' \in [Runtimes -> [LC!Generations -> ThreadRecord]]
      /\ Fresh'
      /\ thread'[n][g].pc = "release"
      /\ \A m \in Runtimes, k \in LC!Generations :
           m # n \/ k # g => thread'[m][k] = thread[m][k]
  BY <1>2, GotoKeeps DEF LockInv, LC!ThreadPc
<1>4. \A t \in TimerThreads : TimerHolds(t)' <=> TimerHolds(t)
  BY <1>2, <1>3 DEF TimerHolds, TimerThreads
<1>5. Exclusive'
  BY <1>4, SameHolders DEF LockInv, RequestHolds
<1>6. LockType'
  BY <1>3 DEF LockInv, LockType
<1> QED BY <1>1, <1>3, <1>5, <1>6 DEF LockInv, AtMostOneJob
-----------------------------------------------------------------------------
(* The timer threads: what they do without the lock, ...                    *)
LEMMA QuietTimerSteps ==
  ASSUME LockInv, NEW n \in Runtimes, NEW g \in LC!Generations,
         \/ TimerFire(n, g) \/ TimerCheck(n, g)
         \/ TimerTryLock(n, g) /\ lockHeld
         \/ TimerUnload(n, g) /\ ~IsLoaded(n)
  PROVE  LockInv'
<1> USE DEF workerVars, requestVars
<1>1. UNCHANGED <<lockHeld, pc, call, queue, jobs>>
  BY DEF TimerFire, TimerCheck, TimerTryLock, TimerUnload
<1>2. HoldersKept /\ Fresh'
  BY TimerKeeps
  DEF LockInv, TimerFire, TimerCheck, TimerTryLock, TimerUnload, IsLoaded
<1>3. AtMostOneJob'
  BY <1>1, <1>2, SameJob DEF LockInv, HoldersKept
<1> QED BY <1>1, <1>2, <1>3, SameLock

(* ... the successful try-lock, ...                                         *)
LEMMA TimerLockStep ==
  ASSUME LockInv, NEW n \in Runtimes, NEW g \in LC!Generations,
         TimerTryLock(n, g), ~lockHeld
  PROVE  LockInv'
<1> USE DEF workerVars, requestVars
<1>1. /\ LC!Goto(n, g, "locked") /\ thread[n][g].pc = "fired" /\ lockHeld'
      /\ UNCHANGED <<generation, pc, call, queue, jobs>>
  BY DEF TimerTryLock, LC!LockTaken, LC!At
<1>2. /\ thread' \in [Runtimes -> [LC!Generations -> ThreadRecord]]
      /\ Fresh'
      /\ thread'[n][g].pc = "locked"
      /\ \A m \in Runtimes, k \in LC!Generations :
           m # n \/ k # g => thread'[m][k] = thread[m][k]
  BY <1>1, GotoKeeps DEF LockInv, LC!ThreadPc
<1>3. \A t \in TimerThreads : TimerHolds(t)' <=> TimerHolds(t) \/ t = <<n, g>>
  BY <1>1, <1>2 DEF TimerHolds, TimerThreads
<1>4. Holders' = Holders \cup {<<n, g>>}
  BY <1>1, <1>3 DEF Holders, RequestHolds, TimerThreads
<1>5. Exclusive'
  BY <1>1, <1>4, Enter DEF LockInv
<1>6. LockType'
  BY <1>1, <1>2 DEF LockInv, LockType, TimerTryLock
<1>7. jobs' = <<>>
  BY <1>1, NoJobWhenFree
<1> QED BY <1>2, <1>5, <1>6, <1>7 DEF LockInv, AtMostOneJob

(* ... the unload it hands to the worker, ...                               *)
LEMMA TimerUnloadStep ==
  ASSUME LockInv, NEW n \in Runtimes, NEW g \in LC!Generations,
         TimerUnload(n, g), IsLoaded(n)
  PROVE  LockInv'
<1> USE DEF workerVars, requestVars
<1>1. /\ LC!Goto(n, g, "unloading") /\ thread[n][g].pc = "unload"
      /\ Submit(Job(<<n, g>>, "unload", n, None))
      /\ UNCHANGED <<lockHeld, generation, pc, call, queue>>
  BY DEF TimerUnload, LC!StartUnload, LC!At
<1>2. /\ thread' \in [Runtimes -> [LC!Generations -> ThreadRecord]]
      /\ Fresh'
      /\ thread'[n][g].pc = "unloading"
      /\ \A m \in Runtimes, k \in LC!Generations :
           m # n \/ k # g => thread'[m][k] = thread[m][k]
  BY <1>1, GotoKeeps DEF LockInv, LC!ThreadPc
<1>3. \A t \in TimerThreads : TimerHolds(t)' <=> TimerHolds(t)
  BY <1>1, <1>2 DEF TimerHolds, TimerThreads
<1>4. Exclusive'
  BY <1>1, <1>3, SameHolders DEF LockInv, RequestHolds
<1>5. LockType'
  BY <1>1, <1>2 DEF LockInv, LockType
<1>6. AtMostOneJob'
  <2>1. <<n, g>> \in TimerThreads /\ TimerHolds(<<n, g>>)
    BY <1>1 DEF TimerThreads, TimerHolds
  <2>2. jobs = <<>>
    BY <1>1, <2>1, NoJobForTimer
  <2>3. Waits(Job(<<n, g>>, "unload", n, None))'
    BY <1>2, <2>1 DEF Waits, Job
  <2> QED BY <1>1, <2>2, <2>3, NewJob
<1> QED BY <1>2, <1>4, <1>5, <1>6 DEF LockInv

(* ... and the release.                                                     *)
LEMMA TimerReleaseStep ==
  ASSUME LockInv, NEW n \in Runtimes, NEW g \in LC!Generations,
         TimerRelease(n, g)
  PROVE  LockInv'
<1> USE DEF workerVars, requestVars
<1>1. /\ LC!Goto(n, g, "none") /\ thread[n][g].pc = "release" /\ ~lockHeld'
      /\ UNCHANGED <<generation, pc, call, queue, jobs>>
  BY DEF TimerRelease, LC!ReleaseLock, LC!At
<1>2. /\ thread' \in [Runtimes -> [LC!Generations -> ThreadRecord]]
      /\ Fresh'
      /\ thread'[n][g].pc = "none"
      /\ \A m \in Runtimes, k \in LC!Generations :
           m # n \/ k # g => thread'[m][k] = thread[m][k]
  BY <1>1, GotoKeeps DEF LockInv, LC!ThreadPc
<1>3. <<n, g>> \in TimerThreads /\ TimerHolds(<<n, g>>)
  BY <1>1 DEF TimerThreads, TimerHolds
<1>4. \A t \in TimerThreads : TimerHolds(t)' <=> TimerHolds(t) /\ t # <<n, g>>
  BY <1>1, <1>2 DEF TimerHolds, TimerThreads
<1>5. Holders' = Holders \ {<<n, g>>}
  BY <1>1, <1>3, <1>4, NamesDiffer DEF Holders, RequestHolds
<1>6. Exclusive'
  BY <1>1, <1>3, <1>5, Leave DEF LockInv, Holders
<1>7. LockType'
  BY <1>1, <1>2 DEF LockInv, LockType, TimerRelease
<1>8. jobs' = <<>>
  BY <1>1, <1>3, NoJobForTimer
<1> QED BY <1>2, <1>6, <1>7, <1>8 DEF LockInv, AtMostOneJob

LEMMA TickStep ==
  ASSUME LockInv, Tick
  PROVE  LockInv'
<1>1. UNCHANGED <<lockHeld, pc, call, queue, jobs>>
  BY DEF Tick, requestVars
<1>2. HoldersKept /\ Fresh'
  BY TickKeeps DEF LockInv, Tick
<1>3. AtMostOneJob'
  BY <1>1, <1>2, SameJob DEF LockInv, HoldersKept
<1> QED BY <1>1, <1>2, <1>3, SameLock
-----------------------------------------------------------------------------
LEMMA NextLock == LockInv /\ [Next]_vars => LockInv'
<1> SUFFICES ASSUME LockInv, [Next]_vars
             PROVE  LockInv'
  OBVIOUS
<1>1. ASSUME NEW r \in Requests, Arrive(r) \/ HandlerStep(r)
      PROVE  LockInv'
  BY <1>1, OutsideSteps, AcquireStep, ReleaseStep, JoblessSteps, StreamSteps,
     LifecycleSteps DEF HandlerStep
<1>2. ASSUME NEW r \in Requests, ClientStep(r) \/ Orphan(r)
      PROVE  LockInv'
  BY <1>2, StreamSteps, JoblessSteps DEF ClientStep
<1>3. CASE WorkerStep
  BY <1>3, LoadSteps, EndSteps, PutStep, UnloadStep, UnloadForTimerStep
  DEF WorkerStep
<1>4. ASSUME NEW n \in Runtimes, NEW g \in LC!Generations, TimerStep(n, g)
      PROVE  LockInv'
  BY <1>4, QuietTimerSteps, TimerLockStep, TimerUnloadStep, TimerReleaseStep
  DEF TimerStep
<1>5. CASE Tick
  BY <1>5, TickStep
<1>6. CASE UNCHANGED vars
  <2>1. UNCHANGED <<lockHeld, pc, call, queue, jobs, thread, generation>>
    BY <1>6 DEF vars, lifecycleVars, workerVars, requestVars
  <2>2. HoldersKept /\ Fresh'
    BY <2>1, NothingMoves
  <2>3. AtMostOneJob'
    BY <2>1, SameJob DEF LockInv
  <2> QED BY <2>1, <2>2, <2>3, SameLock
<1> QED BY <1>1, <1>2, <1>3, <1>4, <1>5, <1>6 DEF Next

(* The invariant that relates the lock, its holders and the worker's queue. *)
THEOREM LockInvariant == Spec => []LockInv
<1>1. Init => LockInv
  BY InitLock
<1>2. LockInv /\ [Next]_vars => LockInv'
  BY NextLock
<1> QED BY <1>1, <1>2, PTL DEF Spec

(* The inference lock is exclusive: no two requests or timer threads are in *)
(* their critical sections together, whichever thread released it, and it   *)
(* is never free while one of them is inside, nor held when none is.        *)
THEOREM LockIsExclusive == Spec => []LockDiscipline
<1>1. LockInv => LockDiscipline
  BY DEF LockInv, Exclusive, LockDiscipline
<1> QED BY <1>1, LockInvariant, PTL

(* The worker is never given a second job, and its job is the holder's.     *)
THEOREM WorkerIsSerial == Spec => []OneJob
<1>1. LockInv => OneJob
  <2> SUFFICES ASSUME LockInv PROVE OneJob
    OBVIOUS
  <2>1. CASE jobs = <<>>
    BY <2>1 DEF OneJob
  <2>2. ASSUME NEW j, jobs = <<j>>, Waits(j)
        PROVE  OneJob
    <3>1. j.caller \in Holders
      BY <2>2 DEF Waits, Holders, RequestHolds, TimerHolds
    <3> QED BY <2>2, <3>1 DEF OneJob
  <2> QED BY <2>1, <2>2 DEF LockInv, AtMostOneJob
<1> QED BY <1>1, LockInvariant, PTL
-----------------------------------------------------------------------------
(* A step of the server is, for the lifecycles, a step of Lifecycle or none. *)
LEMMA LifecycleStep ==
  LockInv /\ [Next]_vars => [LC!Next]_(LC!lifecycleVars)
<1> SUFFICES ASSUME LockInv, [Next]_vars
             PROVE  LC!Next \/ UNCHANGED lifecycleVars
  BY DEF LC!lifecycleVars, lifecycleVars
<1>1. ASSUME NEW r \in Requests, Begin(r) \/ Finish(r)
      PROVE  LC!Next
  <2>1. /\ Of(r) \in Runtimes /\ call[r].keepAlive \in LC!KeepAlives
        /\ IsLoaded(Of(r)) \in BOOLEAN
    BY <1>1, CallType DEF LockInv, Begin, Finish, At, IsLoaded, LC!KeepAlives
  <2> QED BY <1>1, <2>1 DEF Begin, Finish, LC!Next, LC!RequestStep
<1>2. ASSUME NEW r \in Requests, Arrive(r) \/ HandlerStep(r),
             ~(Begin(r) \/ Finish(r))
      PROVE  UNCHANGED lifecycleVars
  BY <1>2 DEF HandlerStep, Arrive, Reject, Start, AcquireLock, AcquireTimeout,
              RunJob, Fallback, UnloadNow, Release, Open, Pull, Receive, Close
<1>3. ASSUME NEW r \in Requests, ClientStep(r) \/ Orphan(r)
      PROVE  UNCHANGED lifecycleVars
  BY <1>3 DEF ClientStep, Orphan, Read, Disconnect
<1>4. CASE WorkerStep
  <2>1. ASSUME NEW n \in Runtimes, NEW g \in LC!Generations,
               UnloadForTimer(n, g)
        PROVE  LC!Next
    BY <2>1 DEF UnloadForTimer, LC!Next, LC!TimerStep
  <2> QED BY <1>4, <2>1 DEF WorkerStep, StartJob, LoadPart, EndInference,
                            PutChunk, EndStream, StopStream, UnloadFor
<1>5. ASSUME NEW n \in Runtimes, NEW g \in LC!Generations, TimerStep(n, g)
      PROVE  LC!Next
  <2>1. IsLoaded(n) \in BOOLEAN
    BY DEF IsLoaded
  <2>2. LC!TimerStep(n, g)
    BY <1>5, <2>1 DEF TimerStep, TimerFire, TimerTryLock, TimerCheck,
                      TimerUnload, TimerRelease, LC!TimerStep
  <2> QED BY <2>2 DEF LC!Next
<1>6. CASE Tick
  BY <1>6 DEF Tick, LC!Next
<1>7. CASE UNCHANGED vars
  BY <1>7 DEF vars
<1> QED BY <1>1, <1>2, <1>3, <1>4, <1>5, <1>6, <1>7 DEF Next

(* The lifecycles inside the server behave as Lifecycle says of them alone: *)
(* what is proved there, whatever the requests and the lock do, holds here. *)
THEOREM LifecyclesInServer == Spec => LC!Spec
<1>1. Init => LC!Init
  BY DEF Init
<1> QED BY <1>1, LifecycleStep, LockInvariant, PTL DEF Spec, LC!Spec
=============================================================================
