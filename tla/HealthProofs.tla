----------------------------- MODULE HealthProofs -----------------------------
(***************************************************************************)
(* What /health says, for every set of runtimes in any order, every set of *)
(* requests beside it and every moment at which its handler reads.         *)
(*                                                                         *)
(* The handler reads the deadline, the keep-alive and is_loaded of one     *)
(* runtime after the other while the server moves on.  That the pieces fit *)
(* together rests on what holds between any two steps of the server: the   *)
(* lifecycles agree with the memory and with the last request, and while   *)
(* the inference lock stays free, nothing is loaded or unloaded.           *)
(***************************************************************************)
EXTENDS Health, ServerMemoryProofs

(* A timer that is pending has a model to unload; and a loaded model that   *)
(* its lifecycle is not asked to keep has a pending timer, is being         *)
(* unloaded, or somebody cares for it.                                      *)
Attended(n) ==
  /\ LC!Pending(n, generation[n]) => IsLoaded(n)
  /\ IsLoaded(n) /\ keepAlive[n] # None =>
       \/ LC!Pending(n, generation[n])
       \/ \E g \in LC!Generations : Unloads(n, g)
       \/ \E r \in Requests : Cares(r, n)

AllAttended == PathConfigured => \A n \in Runtimes : Attended(n)

(* The server beside /health, whose handler occupies a thread of the pool.  *)
ServerInv == MemoryInv /\ LCP!IInv /\ LCP!DeadlinesFit /\ AllAttended

PoolType == pool \subseteq Requests \cup {Monitor}

(* Where the handler is, and the types of what it holds.                    *)
ReportEntry == [loaded : BOOLEAN, unloadIn : Nat \cup {None},
                keepAlive : LC!KeepAlives]
Reading     == [unloadIn : Nat \cup {None}, keepAlive : LC!KeepAlives]

Position ==
  /\ hpc \in {"idle", "queued", "busy", "state", "is_loaded", "answered"}
  /\ busy \in BOOLEAN \cup {None}
  /\ free \in BOOLEAN
  /\ report \in Seq(ReportEntry) /\ Len(report) <= Len(RuntimesInTurn)
  /\ inHand \in Reading \cup {None}
  /\ hpc \in {"idle", "queued", "busy"} => report = <<>>
  /\ hpc = "is_loaded" => inHand \in Reading /\ Len(report) < Len(RuntimesInTurn)

(* Every deadline read so far was read with its keep-alive.                 *)
Fitting ==
  /\ \A i \in DOMAIN report : LCP!Fits(report[i].unloadIn, report[i].keepAlive)
  /\ hpc = "is_loaded" => LCP!Fits(inHand.unloadIn, inHand.keepAlive)

(* What has been read of runtime n is true of it.                           *)
Tells(n, loaded, left, ka) ==
  /\ loaded = IsLoaded(n)
  /\ left # None => loaded
  /\ loaded /\ left = None => ka = None

TrueSoFar ==
  \A i \in DOMAIN report :
    Tells(RuntimesInTurn[i], report[i].loaded,
          report[i].unloadIn, report[i].keepAlive)

TrueInHand ==
  hpc = "is_loaded" =>
    Tells(This, IsLoaded(This), inHand.unloadIn, inHand.keepAlive)

Picture ==
  /\ free => ~lockHeld
  /\ PathConfigured /\ free /\ hpc \in {"state", "is_loaded"} =>
       TrueSoFar /\ TrueInHand

HealthInv == ServerInv /\ PoolType /\ Position /\ Fitting /\ Picture
-----------------------------------------------------------------------------
(* The lifecycles keep what is proved of them alone.                        *)
LEMMA LifecyclesNext ==
  ASSUME LockInv, LCP!IInv, LCP!DeadlinesFit, [Next]_vars
  PROVE  LCP!IInv' /\ LCP!DeadlinesFit'
<1>1. [LCP!Next]_(LCP!lifecycleVars)
  BY LifecycleStep, SameSteps
<1> QED BY <1>1, SameConstants, LCP!NextInv, LCP!FitsNext

(* A lifecycle and its runtime agree: a deadline is that of a pending timer *)
(* of the current generation.                                               *)
LEMMA DeadlineIsPending ==
  ASSUME LCP!IInv, NEW n \in Runtimes
  PROVE  unloadAt[n] # None <=> LC!Pending(n, generation[n])
<1>1. generation[n] # None
  BY SameConstants, LCP!Constants DEF LCP!IInv, LCP!TypeOK
<1> QED BY <1>1
        DEF LCP!IInv, LCP!RuntimeInv, LCP!TimerIsCurrent, LCP!DeadlineIsTimers,
            LCP!Pending, LC!Pending
-----------------------------------------------------------------------------
(* What a step leaves alone, and what somebody cares for, is attended.      *)
LEMMA SameRuntime ==
  ASSUME NEW n \in Runtimes, Attended(n),
         thread'[n] = thread[n], generation'[n] = generation[n],
         memory'[n] = memory[n], keepAlive'[n] = keepAlive[n],
         \A r \in Requests : Cares(r, n) => Cares(r, n)'
  PROVE  Attended(n)'
BY DEF Attended, LC!Pending, Unloads, IsLoaded

LEMMA CaredFor ==
  ASSUME MemoryInv, PathConfigured, NEW r \in Requests, NEW n \in Runtimes,
         Cares(r, n), Cares(r, n)', thread'[n] = thread[n],
         generation'[n] = generation[n]
  PROVE  Attended(n)'
<1>1. ~LC!Pending(n, generation[n])'
  BY NoTimerOfCared DEF LC!Pending
<1> QED BY <1>1 DEF Attended

LEMMA AttendedFrame ==
  ASSUME AllAttended, UNCHANGED <<generation, thread, memory, keepAlive>>,
         \A r \in Requests, n \in Runtimes : Cares(r, n) => Cares(r, n)'
  PROVE  AllAttended'
BY SameRuntime DEF AllAttended

LEMMA AttendedMove ==
  ASSUME MemoryInv, AllAttended, NEW r \in Requests, NEW where,
         UNCHANGED <<generation, thread, memory, keepAlive>>,
         Goto(r, where), pc[r] \in Caring => where \in Caring,
         \A q \in Requests : pc[q] # "idle" => call'[q] = call[q]
  PROVE  AllAttended'
<1>1. \A q \in Requests : pc'[q] = IF q = r THEN where ELSE pc[q]
  BY DEF Goto, MemoryInv, LockInv, LockType
<1>2. \A q \in Requests, n \in Runtimes : Cares(q, n) => Cares(q, n)'
  BY <1>1 DEF Cares, Caring, Of
<1> QED BY <1>2, AttendedFrame

LEMMA AttendedHandlers ==
  ASSUME MemoryInv, AllAttended, NEW r \in Requests, ~Begin(r), ~Finish(r),
         Arrive(r) \/ HandlerStep(r) \/ ClientStep(r) \/ Orphan(r)
  PROVE  AllAttended'
<1> USE DEF At, Caring, lifecycleVars, workerVars
<1>1. CASE Arrive(r)
  <2>1. \A q \in Requests : pc[q] # "idle" => call'[q] = call[q]
    BY <1>1 DEF Arrive, MemoryInv, LockInv, LockType
  <2> QED BY <1>1, <2>1, AttendedMove DEF Arrive
<1>2. CASE HandlerStep(r)
  BY <1>2, AttendedMove
  DEF HandlerStep, Reject, Start, AcquireLock, AcquireTimeout, RunJob, Fallback,
      UnloadNow, Release, Open, Pull, Receive, Close
<1>3. CASE ClientStep(r) \/ Orphan(r)
  BY <1>3, AttendedMove DEF ClientStep, Read, Disconnect, Orphan
<1> QED BY <1>1, <1>2, <1>3

(* begin_request and finish_request cancel the timer; finish_request starts *)
(* one, or hands the model to the unload, or was asked to keep it.          *)
LEMMA AttendedBegin ==
  ASSUME MemoryInv, AllAttended, NEW r \in Requests, Begin(r)
  PROVE  AllAttended'
<1> PICK n : n = Of(r)
  OBVIOUS
<1> USE DEF At, Goto, workerVars
<1>1. /\ LockInv /\ pc[r] = "begin" /\ n \in Runtimes
      /\ UNCHANGED <<call, memory, keepAlive>>
      /\ \A q \in Requests : Of(q)' = Of(q)
      /\ LC!BeginRequest(n)
  BY CallNames DEF Begin, LC!BeginRequest, MemoryInv, Of
<1>2. /\ pc'[r] \in {"created", "submit"}
      /\ \A q \in Requests : q # r => pc'[q] = pc[q]
  BY DEF Begin, MemoryInv, LockInv, LockType
<1>3. \A q \in Requests, m \in Runtimes : Cares(q, m) => Cares(q, m)'
  BY <1>1, <1>2 DEF Cares, Caring
<1>4. Attended(n)'
  <2>1. ~LC!Pending(n, generation[n])'
    <3>1. LC!CancelTimer(n)[generation'[n]].pc = "none"
      BY <1>1, NextGeneration DEF LC!BeginRequest
    <3>2. thread'[n] = LC!CancelTimer(n)
      BY <1>1 DEF LC!BeginRequest, LockInv, LockType
    <3> QED BY <3>1, <3>2 DEF LC!Pending
  <2>2. Cares(r, n)'
    BY <1>1, <1>2 DEF Cares, Caring
  <2> QED BY <2>1, <2>2 DEF Attended
<1>5. ASSUME NEW m \in Runtimes, m # n, Attended(m) PROVE Attended(m)'
  <2>1. thread'[m] = thread[m] /\ generation'[m] = generation[m]
    BY <1>1, <1>5 DEF LC!BeginRequest
  <2> QED BY <1>1, <1>3, <1>5, <2>1, SameRuntime
<1> QED BY <1>4, <1>5 DEF AllAttended

LEMMA AttendedFinish ==
  ASSUME MemoryInv, LCP!IInv, AllAttended, NEW r \in Requests, Finish(r)
  PROVE  AllAttended'
<1> PICK n, ka : n = Of(r) /\ ka = call[r].keepAlive
  OBVIOUS
<1> USE DEF At, Goto
<1>1. /\ LockInv /\ pc[r] = "finish" /\ n \in Runtimes /\ ka \in LC!KeepAlives
      /\ UNCHANGED <<call, memory>>
      /\ \A q \in Requests : Of(q)' = Of(q)
      /\ LC!FinishRequest(n, ka, IsLoaded(n))
  BY CallNames DEF Finish, MemoryInv, Of
<1>2. /\ pc'[r] = IF IsLoaded(n) /\ ka = 0 THEN "unload_now" ELSE "release"
      /\ \A q \in Requests : q # r => pc'[q] = pc[q]
  BY DEF Finish, LC!UnloadsNow, MemoryInv, LockInv, LockType
<1>3. keepAlive'[n] = ka /\ \A m \in Runtimes : m # n => keepAlive'[m] = keepAlive[m]
  <2>1. keepAlive \in [Runtimes -> LC!KeepAlives]
    BY DEF LCP!IInv, LCP!TypeOK, LCP!KeepAlives, LC!KeepAlives
  <2> QED BY <1>1, <2>1 DEF LC!FinishRequest
<1>4. /\ generation'[n] \in LC!Generations
      /\ LC!CancelTimer(n)[generation'[n]].pc = "none"
      /\ LC!CancelTimer(n) \in [LC!Generations -> ThreadRecord]
      /\ generation'[n] = generation[n] + 1
  BY <1>1, NextGeneration, CancelKeeps DEF LC!FinishRequest, LockInv
<1>5. IsLoaded(n)' <=> IsLoaded(n)
  BY <1>1 DEF IsLoaded
<1>6. CASE IsLoaded(n) /\ ka \in Delays
  <2>1. thread'[n] = [LC!CancelTimer(n) EXCEPT ![generation[n] + 1] = LC!Waiting(ka)]
    BY <1>1, <1>6 DEF LC!FinishRequest, LC!ScheduleUnload, LockInv, LockType
  <2>2. thread'[n][generation'[n]] = LC!Waiting(ka)
    BY <1>4, <2>1
  <2>3. LC!Pending(n, generation[n])'
    BY <2>2 DEF LC!Pending, LC!Waiting
  <2>4. Attended(n)'
    BY <1>5, <1>6, <2>3 DEF Attended
  <2>5. ASSUME NEW m \in Runtimes, m # n, Attended(m) PROVE Attended(m)'
    <3>1. thread'[m] = thread[m] /\ generation'[m] = generation[m]
      <4>1. /\ generation' = [generation EXCEPT ![n] = @ + 1]
            /\ generation \in [Runtimes -> LC!Generations]
        BY <1>1 DEF LC!FinishRequest, LockInv, Fresh
      <4>2. /\ LC!ScheduleUnload(n, ka, generation[n] + 1, LC!CancelTimer(n))
            /\ thread \in [Runtimes -> [LC!Generations -> ThreadRecord]]
        BY <1>1, <1>6 DEF LC!FinishRequest, LockInv, LockType
      <4>3. thread'[m] = thread[m]
        BY <2>5, <4>2 DEF LC!ScheduleUnload
      <4> QED BY <2>5, <4>1, <4>3
    <3>2. \A q \in Requests : Cares(q, m) => Cares(q, m)'
      BY <1>1, <1>2, <2>5 DEF Cares
    <3> QED BY <1>1, <1>3, <2>5, <3>1, <3>2, SameRuntime
  <2> QED BY <2>4, <2>5 DEF AllAttended
<1>7. CASE ~(IsLoaded(n) /\ ka \in Delays)
  <2>1. thread' = [thread EXCEPT ![n] = LC!CancelTimer(n)]
    BY <1>1, <1>7 DEF LC!FinishRequest
  <2>2. ~LC!Pending(n, generation[n])'
    BY <1>1, <1>4, <2>1 DEF LC!Pending, LockInv, LockType
  <2>3. Attended(n)'
    <3>1. CASE ~IsLoaded(n)
      BY <1>5, <2>2, <3>1 DEF Attended
    <3>2. CASE IsLoaded(n) /\ ka = 0
      <4>1. Cares(r, n)'
        BY <1>1, <1>2, <3>2 DEF Cares, Caring
      <4> QED BY <2>2, <4>1 DEF Attended
    <3>3. CASE ka = None
      BY <1>3, <2>2, <3>3 DEF Attended
    <3> QED BY <1>1, <1>7, <3>1, <3>2, <3>3 DEF LC!KeepAlives
  <2>4. ASSUME NEW m \in Runtimes, m # n, Attended(m) PROVE Attended(m)'
    <3>1. thread'[m] = thread[m] /\ generation'[m] = generation[m]
      BY <1>1, <2>1, <2>4 DEF LC!FinishRequest
    <3>2. \A q \in Requests : Cares(q, m) => Cares(q, m)'
      BY <1>1, <1>2, <2>4 DEF Cares
    <3> QED BY <1>1, <1>3, <2>4, <3>1, <3>2, SameRuntime
  <2> QED BY <2>3, <2>4 DEF AllAttended
<1> QED BY <1>6, <1>7

(* A job changes the memory only of a runtime that its caller cares for.    *)
LEMMA AttendedJob ==
  ASSUME MemoryInv, AllAttended, jobs # <<>>, NEW r, r = Head1.caller,
         r \in Requests, NEW n, n = Head1.runtime,
         UNCHANGED <<generation, thread, keepAlive, call>>,
         \A m \in Runtimes : m # n => memory'[m] = memory[m],
         \A q \in Requests : q # r => pc'[q] = pc[q],
         pc'[r] \in Caring
  PROVE  AllAttended'
<1> SUFFICES ASSUME PathConfigured, NEW m \in Runtimes PROVE Attended(m)'
  BY DEF AllAttended
<1>1. n \in Runtimes /\ Cares(r, n) /\ Attended(m)
  BY HeadJobRuntime DEF AllAttended
<1>2. \A q \in Requests, k \in Runtimes : Cares(q, k) => Cares(q, k)'
  BY DEF Cares, Of
<1>3. CASE m = n
  BY <1>1, <1>2, <1>3, CaredFor
<1>4. CASE m # n
  BY <1>1, <1>2, <1>4, SameRuntime
<1> QED BY <1>3, <1>4

LEMMA AttendedWorker ==
  ASSUME MemoryInv, AllAttended, WorkerStep
  PROVE  AllAttended'
<1> PICK r, n : r = Head1.caller /\ n = Head1.runtime
  OBVIOUS
<1> USE DEF lifecycleVars, workerVars, requestVars
<1>1. /\ LockInv /\ pc \in [Requests -> RequestPc]
      /\ memory \in [Runtimes -> SUBSET Parts]
  BY DEF MemoryInv, MemoryType, LockInv, LockType
<1>2. ASSUME StartJob \/ LoadPart \/ EndInference \/ PutChunk \/ EndStream \/ StopStream
      PROVE  AllAttended'
  <2>1. jobs # <<>> /\ Head1.kind # "unload"
    BY <1>2, NothingLoads
    DEF StartJob, LoadPart, EndInference, PutChunk, EndStream, StopStream
  <2>2. /\ r \in Requests /\ Waits(Head1)
        /\ pc[r] \in {"running", "suspended", "ready", "pulling", "closing"}
    BY <2>1, HeadJobRuntime DEF Waits
  <2>3. UNCHANGED <<generation, thread, keepAlive, call>>
    BY <1>2 DEF StartJob, LoadPart, EndInference, PutChunk, EndStream, StopStream
  <2>4. \A m \in Runtimes : m # n => memory'[m] = memory[m]
    BY <1>1, <1>2
    DEF StartJob, LoadPart, EndInference, PutChunk, EndStream, StopStream
  <2>5. /\ \A q \in Requests : q # r => pc'[q] = pc[q]
        /\ pc'[r] \in Caring
    BY <1>1, <1>2, <2>2
    DEF StartJob, LoadPart, EndInference, PutChunk, EndStream, StopStream,
        EndJob, Goto, Caring
  <2> QED BY <2>1, <2>2, <2>3, <2>4, <2>5, AttendedJob
<1>3. ASSUME NEW q \in Requests, UnloadFor(q)
      PROVE  AllAttended'
  <2>1. /\ jobs # <<>> /\ Head1.kind = "unload" /\ q = r
        /\ UNCHANGED <<generation, thread, keepAlive, call>>
        /\ memory' = [memory EXCEPT ![n] = {}]
        /\ \A k \in Requests : k # q => pc'[k] = pc[k]
    BY <1>1, <1>3 DEF UnloadFor, Goto
  <2>2. n \in Runtimes /\ n = Of(q) /\ (PathConfigured => Cares(q, n))
    BY <2>1, HeadJobRuntime DEF OwnRuntime
  <2>3. PathConfigured => Attended(n)'
    <3>1. ~IsLoaded(n)'
      BY <1>1, <2>1, <2>2 DEF IsLoaded
    <3>2. PathConfigured => ~LC!Pending(n, generation[n])'
      BY <2>1, <2>2, NoTimerOfCared DEF LC!Pending
    <3> QED BY <3>1, <3>2 DEF Attended
  <2>4. ASSUME NEW m \in Runtimes, m # n, Attended(m) PROVE Attended(m)'
    <3>1. \A k \in Requests : Cares(k, m) => Cares(k, m)'
      BY <2>1, <2>2, <2>4 DEF Cares, Of
    <3> QED BY <1>1, <2>1, <2>4, <3>1, SameRuntime
  <2> QED BY <2>3, <2>4 DEF AllAttended
<1>4. ASSUME NEW m \in Runtimes, NEW g \in LC!Generations, UnloadForTimer(m, g)
      PROVE  AllAttended'
  <2>1. /\ UNCHANGED <<generation, keepAlive, call, pc>>
        /\ memory' = [memory EXCEPT ![m] = {}]
        /\ thread[m][g].pc = "unloading"
        /\ thread' = [thread EXCEPT ![m][g] = [pc |-> "release", left |-> 0]]
    BY <1>4 DEF UnloadForTimer, LC!EndUnload, LC!At, LC!Goto
  <2>2. PathConfigured => g = generation[m]
    BY <2>1 DEF MemoryInv, NotEarly, Expired, Unloads
  <2>3. PathConfigured => Attended(m)'
    <3>1. ~IsLoaded(m)'
      BY <1>1, <2>1 DEF IsLoaded
    <3>2. thread'[m][g] = [pc |-> "release", left |-> 0]
      BY <1>1, <2>1 DEF LockInv, LockType
    <3>3. PathConfigured => ~LC!Pending(m, generation[m])'
      BY <2>1, <2>2, <3>2 DEF LC!Pending
    <3> QED BY <3>1, <3>3 DEF Attended
  <2>4. ASSUME NEW k \in Runtimes, k # m, Attended(k) PROVE Attended(k)'
    <3>1. thread'[k] = thread[k]
      BY <1>1, <2>1, <2>4, ThreadMoves
    <3> QED BY <1>1, <2>1, <2>4, <3>1, SameRuntime DEF Cares, Of
  <2> QED BY <2>3, <2>4 DEF AllAttended
<1> QED BY <1>2, <1>3, <1>4 DEF WorkerStep

(* A timer thread stops being pending when it is out of date, when it turns *)
(* to the unload, and stops to unload when there is nothing to unload.      *)
LEMMA AttendedThread ==
  ASSUME MemoryInv, AllAttended, NEW n \in Runtimes, NEW g \in LC!Generations,
         NEW x \in ThreadRecord, thread' = [thread EXCEPT ![n][g] = x],
         UNCHANGED <<generation, keepAlive, memory, call, pc>>,
         NEW old, old = thread[n][g].pc,
         \/ old = "waiting" /\ x.pc = "fired"
         \/ old = "fired" /\ x.pc \in {"retry", "locked"}
         \/ old = "retry" /\ g # generation[n] /\ x.pc = "none"
         \/ old = "retry" /\ g = generation[n] /\ x.pc = "waiting"
         \/ old = "locked" /\ g # generation[n] /\ x.pc = "release"
         \/ old = "locked" /\ g = generation[n] /\ x.pc = "unload"
         \/ old = "unload" /\ x.pc = "unloading"
         \/ old = "unload" /\ x.pc = "release" /\ ~IsLoaded(n)
         \/ old = "release" /\ x.pc = "none"
  PROVE  AllAttended'
<1> SUFFICES ASSUME PathConfigured, NEW m \in Runtimes, Attended(m)
             PROVE  Attended(m)'
  BY DEF AllAttended
<1>1. /\ thread'[n][g] = x
      /\ \A k \in LC!Generations : k # g => thread'[n][k] = thread[n][k]
      /\ \A k \in Runtimes : k # n => thread'[k] = thread[k]
      /\ generation[n] \in LC!Generations
  <2>1. LockInv /\ generation[n] \in LC!Generations
    BY DEF MemoryInv, LockInv, Fresh
  <2>2. thread'[n][g] = x
    BY <2>1 DEF LockInv, LockType
  <2>3. /\ \A k \in LC!Generations : k # g => thread'[n][k] = thread[n][k]
        /\ \A k \in Runtimes : k # n => thread'[k] = thread[k]
    BY <2>1, ThreadMoves
  <2> QED BY <2>1, <2>2, <2>3
<1>2. \A k \in Runtimes, q \in Requests : Cares(q, k) <=> Cares(q, k)'
  BY DEF Cares, Of
<1>3. CASE m # n
  BY <1>1, <1>2, <1>3, SameRuntime
<1>4. CASE m = n
  <2>1. \A k \in LC!Generations : k # g => (Unloads(n, k)' <=> Unloads(n, k))
    BY <1>1 DEF Unloads
  <2>2. /\ Unloads(n, g)' <=> x.pc \in {"unload", "unloading"}
        /\ Unloads(n, g) <=> old \in {"unload", "unloading"}
        /\ Unloads(n, g) => g = generation[n]
    BY <1>1 DEF Unloads, MemoryInv, NotEarly, Expired
  <2>3. IsLoaded(n)' <=> IsLoaded(n)
    BY DEF IsLoaded
  <2>4. CASE g # generation[n]
    <3>1. LC!Pending(n, generation[n])' <=> LC!Pending(n, generation[n])
      BY <1>1, <2>4 DEF LC!Pending
    <3>2. \A k \in LC!Generations : Unloads(n, k) => Unloads(n, k)'
      BY <2>1, <2>2, <2>4
    <3> QED BY <1>2, <1>4, <2>3, <3>1, <3>2 DEF Attended
  <2>5. CASE g = generation[n]
    <3>1. /\ LC!Pending(n, generation[n])' <=>
               x.pc \in {"waiting", "fired", "retry", "locked"}
          /\ LC!Pending(n, generation[n]) <=>
               old \in {"waiting", "fired", "retry", "locked"}
      BY <1>1, <2>5 DEF LC!Pending
    <3>2. LC!Pending(n, generation[n])' => LC!Pending(n, generation[n])
      BY <2>5, <3>1
    <3>3. IsLoaded(n) /\ (LC!Pending(n, generation[n]) \/ Unloads(n, g)) =>
            LC!Pending(n, generation[n])' \/ Unloads(n, g)'
      BY <2>2, <2>5, <3>1
    <3>4. ASSUME IsLoaded(n), keepAlive[n] # None
          PROVE  \/ LC!Pending(n, generation[n])'
                 \/ \E k \in LC!Generations : Unloads(n, k)'
                 \/ \E q \in Requests : Cares(q, n)'
      BY <1>2, <1>4, <2>1, <3>3, <3>4 DEF Attended
    <3> QED BY <1>4, <2>3, <3>2, <3>4 DEF Attended
  <2> QED BY <2>4, <2>5
<1> QED BY <1>3, <1>4

LEMMA AttendedTimers ==
  ASSUME MemoryInv, AllAttended, NEW n \in Runtimes, NEW g \in LC!Generations,
         TimerStep(n, g)
  PROVE  AllAttended'
<1> PICK old : old = thread[n][g].pc
  OBVIOUS
<1> DEFINE Put(where) == [pc |-> where, left |-> 0]
<1> USE DEF LC!At, LC!Goto, workerVars, requestVars
<1>1. \A where \in LC!ThreadPc : Put(where) \in ThreadRecord /\ Put(where).pc = where
  BY DEF ThreadRecord
<1>2. UNCHANGED <<generation, keepAlive, memory, call, pc>>
  BY DEF TimerStep, TimerFire, LC!Fire, TimerTryLock, LC!LockBusy, LC!LockTaken,
         TimerCheck, LC!RescheduleIfCurrent, LC!CheckGeneration, TimerUnload,
         LC!StartUnload, TimerRelease, LC!ReleaseLock
<1>3. ASSUME NEW where \in LC!ThreadPc, thread' = [thread EXCEPT ![n][g] = Put(where)],
             \/ old = "waiting" /\ where = "fired"
             \/ old = "fired" /\ where \in {"retry", "locked"}
             \/ old = "retry" /\ g # generation[n] /\ where = "none"
             \/ old = "locked" /\ g # generation[n] /\ where = "release"
             \/ old = "locked" /\ g = generation[n] /\ where = "unload"
             \/ old = "unload" /\ where = "unloading"
             \/ old = "unload" /\ where = "release" /\ ~IsLoaded(n)
             \/ old = "release" /\ where = "none"
      PROVE  AllAttended'
  <2> HIDE DEF Put
  <2> QED BY <1>1, <1>2, <1>3, AttendedThread
<1> USE DEF LC!ThreadPc
<1>4. CASE TimerFire(n, g) \/ TimerTryLock(n, g) \/ TimerRelease(n, g)
  BY <1>3, <1>4
  DEF TimerFire, LC!Fire, TimerTryLock, LC!LockBusy, LC!LockTaken, TimerRelease,
      LC!ReleaseLock
<1>5. CASE LC!CheckGeneration(n, g)
  BY <1>3, <1>5 DEF LC!CheckGeneration
<1>6. CASE TimerUnload(n, g)
  BY <1>3, <1>6 DEF TimerUnload, LC!StartUnload
<1>7. CASE LC!RescheduleIfCurrent(n, g)
  <2>1. CASE g # generation[n]
    BY <1>3, <1>7, <2>1 DEF LC!RescheduleIfCurrent
  <2>2. CASE g = generation[n]
    <3> PICK x : x = LC!Waiting(RetryDelay)
      OBVIOUS
    <3>1. x \in ThreadRecord /\ x.pc = "waiting"
      BY LifecycleConstants DEF LC!Waiting, ThreadRecord
    <3>2. thread' = [thread EXCEPT ![n][g] = x] /\ old = "retry"
      BY <1>7, <2>2 DEF LC!RescheduleIfCurrent, LC!ScheduleUnload
    <3> QED BY <1>2, <2>2, <3>1, <3>2, AttendedThread
  <2> QED BY <2>1, <2>2
<1> QED BY <1>4, <1>5, <1>6, <1>7 DEF TimerStep, TimerCheck

LEMMA AttendedTick ==
  ASSUME MemoryInv, AllAttended, Tick
  PROVE  AllAttended'
<1>1. UNCHANGED <<generation, keepAlive, memory, pc, call>>
  BY DEF Tick, LC!Tick, requestVars
<1>2. \A n \in Runtimes, g \in LC!Generations : thread'[n][g].pc = thread[n][g].pc
  <2> SUFFICES ASSUME NEW n \in Runtimes, NEW g \in LC!Generations
               PROVE  thread'[n][g].pc = thread[n][g].pc
    OBVIOUS
  <2>1. thread[n][g] \in ThreadRecord
    BY DEF MemoryInv, LockInv, LockType
  <2>2. thread'[n][g] = [thread[n][g] EXCEPT !.left = LC!Less(@)]
    BY DEF Tick, LC!Tick
  <2> QED BY <2>1, <2>2 DEF ThreadRecord
<1>3. \A n \in Runtimes : generation[n] \in LC!Generations
  BY DEF MemoryInv, LockInv, Fresh
<1>4. ASSUME NEW n \in Runtimes, Attended(n) PROVE Attended(n)'
  <2>1. LC!Pending(n, generation[n])' <=> LC!Pending(n, generation[n])
    BY <1>1, <1>2, <1>3 DEF LC!Pending
  <2>2. \A g \in LC!Generations : Unloads(n, g)' <=> Unloads(n, g)
    BY <1>2 DEF Unloads
  <2> QED BY <1>1, <1>4, <2>1, <2>2 DEF Attended, IsLoaded, Cares, Of
<1> QED BY <1>4 DEF AllAttended

LEMMA ServerInvNext == ServerInv /\ Next => ServerInv'
<1> SUFFICES ASSUME ServerInv, Next PROVE ServerInv'
  OBVIOUS
<1> USE DEF ServerInv
<1>1. LockInv
  BY DEF MemoryInv
<1>2. MemoryInv' /\ LCP!IInv' /\ LCP!DeadlinesFit'
  BY <1>1, NextMemory, LifecyclesNext
<1>3. AllAttended'
  BY AttendedHandlers, AttendedBegin, AttendedFinish, AttendedWorker,
     AttendedTimers, AttendedTick
  DEF Next
<1> QED BY <1>2, <1>3

(* A thread of the pool more or less changes nothing for the server.        *)
OtherVars == <<lifecycleVars, lockHeld, workerVars, pc, call, queue, chunks>>

LEMMA PoolFrame == ServerInv /\ UNCHANGED OtherVars => ServerInv'
<1> SUFFICES ASSUME ServerInv, UNCHANGED OtherVars PROVE ServerInv'
  OBVIOUS
<1>1. /\ UNCHANGED <<generation, timer, unloadAt, keepAlive, thread>>
      /\ UNCHANGED <<lockHeld, memory, jobs, todo, asked, sinceUse>>
      /\ UNCHANGED <<pc, call, queue, chunks>>
  BY DEF OtherVars, lifecycleVars, workerVars
<1>2. LockInv'
  <2>1. LockType' /\ Fresh'
    BY <1>1 DEF ServerInv, MemoryInv, LockInv, LockType, Fresh, FreshGeneration
  <2>2. Holders' = Holders
    BY <1>1 DEF Holders, RequestHolds, TimerHolds
  <2>3. AtMostOneJob'
    BY <1>1 DEF ServerInv, MemoryInv, LockInv, AtMostOneJob, Waits
  <2> QED BY <1>1, <2>1, <2>2, <2>3
          DEF ServerInv, MemoryInv, LockInv, Exclusive
<1>3. MemoryInv'
  <2>1. \A r \in Requests, n \in Runtimes : Cares(r, n)' <=> Cares(r, n)
    BY <1>1 DEF Cares, Of
  <2>2. Streams' /\ Fallbacks'
    BY <1>1 DEF ServerInv, MemoryInv, Streams, Fallbacks
  <2> QED BY <1>1, <1>2, <2>1, <2>2, IdleFrame, JobFrame DEF ServerInv, MemoryInv
<1>4. LCP!IInv' /\ LCP!DeadlinesFit'
  <2>1. UNCHANGED LCP!lifecycleVars
    BY <1>1 DEF LCP!lifecycleVars
  <2> QED BY <2>1, SameConstants, LCP!NextInv, LCP!FitsNext DEF ServerInv
<1>5. AllAttended'
  BY <1>1, AttendedFrame DEF ServerInv, Cares, Of
<1> QED BY <1>3, <1>4, <1>5 DEF ServerInv

LEMMA PoolNext == PoolType /\ Next => PoolType'
<1> SUFFICES ASSUME PoolType, Next PROVE PoolType'
  OBVIOUS
<1> USE DEF PoolType, workerVars, requestVars
<1>1. ASSUME NEW r \in Requests,
             Arrive(r) \/ HandlerStep(r) \/ ClientStep(r) \/ Orphan(r)
      PROVE  PoolType'
  <2>1. \/ UNCHANGED pool
        \/ pool' = pool \cup {r}
        \/ pool' = pool \ {r}
    BY <1>1
    DEF Arrive, HandlerStep, ClientStep, Orphan, Reject, Start, AcquireLock,
        AcquireTimeout, Begin, RunJob, Fallback, Finish, UnloadNow, Release,
        Open, Pull, Receive, Close, Read, Disconnect, TakeThread, LeaveThread
  <2> QED BY <2>1
<1>2. CASE WorkerStep
  BY <1>2
  DEF WorkerStep, StartJob, LoadPart, EndInference, PutChunk, EndStream,
      StopStream, UnloadFor, UnloadForTimer, LeaveThread
<1>3. CASE \/ \E n \in Runtimes, g \in LC!Generations : TimerStep(n, g)
           \/ Tick
  BY <1>3
  DEF TimerStep, TimerFire, TimerTryLock, TimerCheck, TimerUnload,
      TimerRelease, Tick
<1> QED BY <1>1, <1>2, <1>3 DEF Next
-----------------------------------------------------------------------------
(* While the inference lock is free, no job runs, nothing is loaded or      *)
(* unloaded, no request and no timer has a runtime in its hands, ...        *)
LEMMA NobodyWhenFree ==
  ASSUME MemoryInv, ~lockHeld
  PROVE  /\ jobs = <<>> /\ todo = None
         /\ \A r \in Requests, n \in Runtimes : ~Cares(r, n)
         /\ \A n \in Runtimes, g \in LC!Generations : ~Unloads(n, g)
<1>1. LockInv /\ Holders = {}
  BY DEF MemoryInv, LockInv, Exclusive
<1>2. jobs = <<>>
  BY <1>1, NoJobWhenFree
<1>3. ASSUME NEW r \in Requests, pc[r] \in Caring PROVE FALSE
  BY <1>1, <1>3, CaringHolds DEF Holders
<1>4. ASSUME NEW n \in Runtimes, NEW g \in LC!Generations, Unloads(n, g)
      PROVE  FALSE
  <2>1. <<n, g>> \in TimerThreads /\ TimerHolds(<<n, g>>)
    BY <1>4 DEF TimerThreads, TimerHolds, Unloads
  <2> QED BY <1>1, <2>1 DEF Holders
<1> QED BY <1>2, <1>3, <1>4, NothingLoads DEF Cares

LEMMA FreeKeepsMemory ==
  ASSUME MemoryInv, ~lockHeld, Next
  PROVE  UNCHANGED memory
<1>1. jobs = <<>> /\ todo = None
  BY NobodyWhenFree
<1> QED BY <1>1
        DEF workerVars, requestVars, Next, Arrive, HandlerStep, ClientStep, Orphan,
            Reject, Start, AcquireLock, AcquireTimeout, Begin, RunJob, Fallback,
            Finish, UnloadNow, Release, Open, Pull, Receive, Close, Read,
            Disconnect, WorkerStep, StartJob, LoadPart, EndInference, PutChunk,
            EndStream, StopStream, UnloadFor, UnloadForTimer, TimerStep,
            TimerFire, TimerTryLock, TimerCheck, TimerUnload, TimerRelease, Tick

(* ... and the lifecycle of a runtime tells whether it is loaded.           *)
LEMMA LifecycleTells ==
  ASSUME ServerInv, ~lockHeld, PathConfigured, NEW n \in Runtimes
  PROVE  Tells(n, IsLoaded(n), unloadAt[n], keepAlive[n])
<1>1. /\ \A r \in Requests : ~Cares(r, n)
      /\ \A g \in LC!Generations : ~Unloads(n, g)
  BY NobodyWhenFree DEF ServerInv
<1>2. unloadAt[n] # None <=> LC!Pending(n, generation[n])
  BY DeadlineIsPending DEF ServerInv
<1>3. Attended(n)
  BY DEF ServerInv, AllAttended
<1> QED BY <1>1, <1>2, <1>3 DEF Attended, Tells
-----------------------------------------------------------------------------
(* An entry more: the others stay where they are.                           *)
LEMMA OneMore ==
  ASSUME NEW S, NEW s \in Seq(S), NEW e \in S
  PROVE  /\ Append(s, e) \in Seq(S) /\ Len(Append(s, e)) = Len(s) + 1
         /\ \A i \in DOMAIN Append(s, e) :
              \/ i \in DOMAIN s /\ Append(s, e)[i] = s[i]
              \/ i = Len(s) + 1 /\ Append(s, e)[i] = e
OBVIOUS

LEMMA ThisRuntime ==
  ASSUME Position, Len(report) < Len(RuntimesInTurn)
  PROVE  This \in Runtimes
BY HealthAssumption DEF Position, This, HealthAssumption

LEMMA InitHealth == HealthInit => HealthInv
<1> SUFFICES ASSUME HealthInit PROVE HealthInv
  OBVIOUS
<1> USE DEF HealthInit
<1>1. MemoryInv
  BY InitMemory
<1>2. LCP!IInv
  BY SameConstants, LCP!InitInv
  DEF Init, LC!Init, LCP!Init, LC!Generations, LCP!Generations, LC!NoThread,
      LCP!NoThread
<1>3. LCP!DeadlinesFit /\ AllAttended
  BY LifecycleConstants
  DEF Init, LC!Init, LCP!DeadlinesFit, LCP!Fits, AllAttended, Attended,
      LC!Pending, LC!NoThread, LC!Generations, IsLoaded
<1>4. PoolType
  BY DEF Init, PoolType
<1>5. Position
  <2>1. Len(RuntimesInTurn) \in Nat
    BY HealthAssumption DEF HealthAssumption
  <2>2. \A S : <<>> \in Seq(S)
    OBVIOUS
  <2>3. report \in Seq(ReportEntry)
    BY <2>2
  <2>4. Len(report) <= Len(RuntimesInTurn)
    BY <2>1
  <2> QED BY <2>3, <2>4 DEF Position
<1>6. Fitting
  <2>1. DOMAIN report = {}
    OBVIOUS
  <2> QED BY <2>1 DEF Fitting
<1>7. Picture
  BY DEF Picture
<1> QED BY <1>1, <1>2, <1>3, <1>4, <1>5, <1>6, <1>7 DEF HealthInv, ServerInv

(* The steps of the handler leave the server's own state as it is.          *)
LEMMA AskInv ==
  ASSUME HealthInv, Ask
  PROVE  HealthInv'
<1>1. UNCHANGED OtherVars /\ UNCHANGED pool
  BY DEF Ask, vars, OtherVars, requestVars
<1>2. ServerInv' /\ PoolType'
  BY <1>1, PoolFrame DEF HealthInv, PoolType
<1>3. Position' /\ Fitting'
  BY DEF Ask, HealthInv, Position, Fitting
<1>4. Picture'
  BY <1>1 DEF Ask, HealthInv, Picture, OtherVars
<1> QED BY <1>2, <1>3, <1>4 DEF HealthInv

LEMMA StartHealthInv ==
  ASSUME HealthInv, StartHealth
  PROVE  HealthInv'
<1>1. UNCHANGED OtherVars
  BY DEF StartHealth, OtherVars
<1>2. ServerInv' /\ PoolType'
  BY <1>1, PoolFrame DEF HealthInv, PoolType, StartHealth
<1>3. Position' /\ Fitting'
  BY DEF StartHealth, HealthInv, Position, Fitting
<1>4. Picture'
  BY DEF StartHealth, HealthInv, Picture
<1> QED BY <1>2, <1>3, <1>4 DEF HealthInv

(* "busy" is read; no entry has been made yet.                              *)
LEMMA ReadBusyInv ==
  ASSUME HealthInv, ReadBusy
  PROVE  HealthInv'
<1>1. UNCHANGED OtherVars /\ UNCHANGED pool
  BY DEF ReadBusy, vars, OtherVars, requestVars
<1>2. ServerInv' /\ PoolType'
  BY <1>1, PoolFrame DEF HealthInv, PoolType
<1>3. lockHeld \in BOOLEAN /\ report = <<>>
  BY DEF ReadBusy, HealthInv, ServerInv, MemoryInv, LockInv, LockType, Position
<1>4. Position' /\ Fitting'
  BY <1>3 DEF ReadBusy, HealthInv, Position, Fitting
<1>5. Picture'
  <2>1. free' => ~lockHeld'
    BY <1>1 DEF ReadBusy, OtherVars
  <2>2. hpc' = "state" /\ report' = <<>>
    BY <1>3 DEF ReadBusy
  <2>3. TrueSoFar'
    <3>1. DOMAIN report' = {}
      BY <2>2
    <3> QED BY <3>1 DEF TrueSoFar
  <2>4. TrueInHand'
    BY <2>2 DEF TrueInHand
  <2> QED BY <2>1, <2>3, <2>4 DEF Picture
<1> QED BY <1>2, <1>4, <1>5 DEF HealthInv

(* A deadline is read with its keep-alive, under the lifecycle's lock.      *)
LEMMA ReadDeadlineInv ==
  ASSUME HealthInv, ReadDeadline
  PROVE  HealthInv'
<1> DEFINE n == This
<1>1. UNCHANGED OtherVars /\ UNCHANGED <<pool, lockHeld, memory, report, busy, free>>
  BY DEF ReadDeadline, vars, OtherVars, requestVars, workerVars
<1>2. ServerInv' /\ PoolType'
  BY <1>1, PoolFrame DEF HealthInv, PoolType
<1>3. /\ n \in Runtimes /\ This' = n
      /\ inHand' = [unloadIn |-> unloadAt[n], keepAlive |-> keepAlive[n]]
  BY <1>1, ThisRuntime DEF ReadDeadline, HealthInv, This
<1>4. inHand' \in Reading
  <2>1. unloadAt[n] \in Nat \cup {None} /\ keepAlive[n] \in LC!KeepAlives
    BY <1>3
    DEF HealthInv, ServerInv, LCP!IInv, LCP!TypeOK, LCP!KeepAlives, LC!KeepAlives
  <2> QED BY <1>3, <2>1 DEF Reading
<1>5. Position'
  BY <1>1, <1>4 DEF ReadDeadline, HealthInv, Position
<1>6. Fitting'
  BY <1>1, <1>3 DEF HealthInv, ServerInv, Fitting, LCP!DeadlinesFit
<1>7. Picture'
  <2> SUFFICES ASSUME PathConfigured, free
               PROVE  TrueSoFar' /\ TrueInHand'
    BY <1>1 DEF HealthInv, Picture
  <2>1. TrueSoFar'
    BY <1>1 DEF ReadDeadline, HealthInv, Picture, TrueSoFar, Tells, IsLoaded
  <2>2. Tells(n, IsLoaded(n), unloadAt[n], keepAlive[n])
    BY <1>3, LifecycleTells DEF HealthInv, Picture
  <2>3. TrueInHand'
    BY <1>1, <1>3, <2>2 DEF TrueInHand, Tells, IsLoaded
  <2> QED BY <2>1, <2>3
<1> QED BY <1>2, <1>5, <1>6, <1>7 DEF HealthInv

(* is_loaded completes the entry.                                           *)
LEMMA ReadLoadedInv ==
  ASSUME HealthInv, ReadLoaded
  PROVE  HealthInv'
<1> DEFINE n == This
           e == Entry(This)
<1>1. UNCHANGED OtherVars /\ UNCHANGED <<pool, lockHeld, memory, busy, free>>
  BY DEF ReadLoaded, vars, OtherVars, requestVars, workerVars
<1>2. ServerInv' /\ PoolType'
  BY <1>1, PoolFrame DEF HealthInv, PoolType
<1>3. /\ report \in Seq(ReportEntry) /\ Len(report) < Len(RuntimesInTurn)
      /\ inHand \in Reading /\ RuntimesInTurn \in Seq(Runtimes)
      /\ report' = Append(report, e)
  BY HealthAssumption DEF ReadLoaded, HealthInv, Position, HealthAssumption
<1>4. /\ e \in ReportEntry /\ e.loaded = IsLoaded(n)
      /\ e.unloadIn = inHand.unloadIn /\ e.keepAlive = inHand.keepAlive
  BY <1>3 DEF Entry, Reading, ReportEntry, IsLoaded
<1>5. /\ report' \in Seq(ReportEntry) /\ Len(report') = Len(report) + 1
      /\ \A i \in DOMAIN report' :
           \/ i \in DOMAIN report /\ report'[i] = report[i]
           \/ i = Len(report) + 1 /\ report'[i] = e
  <2> HIDE DEF e
  <2> QED BY <1>3, <1>4, OneMore
<1>6. Position'
  <2>1. Len(report') <= Len(RuntimesInTurn)
    BY <1>3, <1>5
  <2> QED BY <1>1, <1>5, <2>1 DEF ReadLoaded, HealthInv, Position
<1>7. Fitting'
  BY <1>4, <1>5 DEF ReadLoaded, HealthInv, Fitting
<1>8. Picture'
  <2> SUFFICES ASSUME PathConfigured, free
               PROVE  TrueSoFar' /\ TrueInHand'
    BY <1>1 DEF HealthInv, Picture
  <2>1. /\ TrueSoFar
        /\ Tells(n, e.loaded, e.unloadIn, e.keepAlive)
    BY <1>4 DEF ReadLoaded, HealthInv, Picture, TrueInHand
  <2>2. ASSUME NEW i \in DOMAIN report'
        PROVE  Tells(RuntimesInTurn[i], report'[i].loaded,
                     report'[i].unloadIn, report'[i].keepAlive)
    BY <1>5, <2>1 DEF TrueSoFar, This
  <2>3. TrueSoFar'
    BY <1>1, <2>2 DEF TrueSoFar, Tells, IsLoaded
  <2>4. TrueInHand'
    BY DEF ReadLoaded, TrueInHand
  <2> QED BY <2>3, <2>4
<1> QED BY <1>2, <1>6, <1>7, <1>8 DEF HealthInv

LEMMA AnswerStepInv ==
  ASSUME HealthInv, Answer
  PROVE  HealthInv'
<1>1. UNCHANGED OtherVars
  BY DEF Answer, OtherVars
<1>2. ServerInv' /\ PoolType'
  BY <1>1, PoolFrame DEF HealthInv, PoolType, Answer
<1>3. Position' /\ Fitting'
  BY DEF Answer, HealthInv, Position, Fitting
<1>4. Picture'
  BY DEF Answer, HealthInv, Picture
<1> QED BY <1>2, <1>3, <1>4 DEF HealthInv

(* A step of the server: a report made while the lock stays free keeps      *)
(* telling the truth.                                                       *)
LEMMA ServerStepInv ==
  ASSUME HealthInv, ServerStep
  PROVE  HealthInv'
<1>1. ServerInv' /\ PoolType'
  BY ServerInvNext, PoolNext DEF HealthInv, ServerStep
<1>2. Position'
  BY <1>1 DEF ServerStep, HealthInv, Position, ServerInv, MemoryInv, LockInv, LockType
<1>3. Fitting'
  BY DEF ServerStep, HealthInv, Fitting
<1>4. Picture'
  <2>1. free' => ~lockHeld' /\ free
    BY DEF ServerStep
  <2>2. ASSUME free', PathConfigured,
               hpc \in {"state", "is_loaded"}
        PROVE  TrueSoFar' /\ TrueInHand'
    <3>1. TrueSoFar /\ TrueInHand /\ ~lockHeld
      BY <2>1, <2>2 DEF HealthInv, Picture
    <3>2. UNCHANGED memory
      BY <3>1, FreeKeepsMemory DEF HealthInv, ServerInv, ServerStep
    <3> QED BY <3>1, <3>2
            DEF ServerStep, TrueSoFar, TrueInHand, Tells, IsLoaded, This
  <2> QED BY <2>1, <2>2 DEF Picture, ServerStep
<1> QED BY <1>1, <1>2, <1>3, <1>4 DEF HealthInv

LEMMA NextHealth == HealthInv /\ [HealthNext]_allVars => HealthInv'
<1> SUFFICES ASSUME HealthInv, [HealthNext]_allVars PROVE HealthInv'
  OBVIOUS
<1>1. CASE HealthNext
  BY <1>1, AskInv, StartHealthInv, ReadBusyInv, ReadDeadlineInv, ReadLoadedInv,
     AnswerStepInv, ServerStepInv
  DEF HealthNext, HealthStep
<1>2. CASE UNCHANGED allVars
  <2>1. UNCHANGED <<OtherVars, pool, lockHeld, memory, hpc, busy, report, inHand, free>>
    BY <1>2 DEF allVars, healthVars, vars, OtherVars, workerVars, requestVars
  <2>2. ServerInv' /\ PoolType'
    BY <2>1, PoolFrame DEF HealthInv, PoolType
  <2>3. Position' /\ Fitting'
    BY <2>1 DEF HealthInv, Position, Fitting
  <2>4. Picture'
    BY <2>1 DEF HealthInv, Picture, TrueSoFar, TrueInHand, Tells, IsLoaded, This
  <2> QED BY <2>2, <2>3, <2>4 DEF HealthInv
<1> QED BY <1>1, <1>2

(* The inductive invariant of the server with /health beside it.            *)
THEOREM HealthInvariant == HealthSpec => []HealthInv
BY InitHealth, NextHealth, PTL DEF HealthSpec
-----------------------------------------------------------------------------
(* Every variable of the report has its type.                               *)
THEOREM HealthTypes == HealthSpec => []HealthTypeOK
<1>1. HealthInv => HealthTypeOK
  BY DEF HealthInv, PoolType, Position, Reading, ReportEntry, HealthTypeOK
<1> QED BY <1>1, HealthInvariant, PTL

(* Whatever requests, timers and unloads happen while /health reads, a      *)
(* deadline it shows goes with the keep-alive it shows.                     *)
THEOREM DeadlineGoesWithKeepAlive == HealthSpec => []DeadlineFitsKeepAlive
<1>1. HealthInv => DeadlineFitsKeepAlive
  BY DEF HealthInv, Fitting, LCP!Fits, DeadlineFitsKeepAlive
<1> QED BY <1>1, HealthInvariant, PTL

(* Where the path of the NLLB model is configured, a report made while the  *)
(* inference lock is free is a true picture of all runtimes at once; a      *)
(* translation that fell back to the LLM leaves one that is not.            *)
THEOREM FreeReportHolds ==
  ASSUME PathConfigured
  PROVE  HealthSpec => []FreeReportIsTrue
<1>1. HealthInv => FreeReportIsTrue
  BY DEF HealthInv, Picture, TrueSoFar, Tells, FreeReportIsTrue
<1> QED BY <1>1, HealthInvariant, PTL
=============================================================================
