--------------------------- MODULE InferenceWorker ---------------------------
(***************************************************************************)
(* InferenceWorker of inference_worker.py: run(), which hands a function   *)
(* to the only thread of an executor and waits for it, and iterate(),      *)
(* which hands over a generator and receives its items through a queue of  *)
(* one slot, with an event to stop it.                                     *)
(*                                                                         *)
(* The processes are the callers' threads, one call each, and the worker   *)
(* thread.  The generator the worker runs is not this code's: it yields    *)
(* its next item, ends or raises, as it likes.  Items are numbered in the  *)
(* order they are generated.                                               *)
(***************************************************************************)
EXTENDS Naturals, Sequences

CONSTANTS
  Callers,  \* the threads that call the worker
  MaxItems, \* bound on the items of a stream
  None

ASSUME WorkerAssumption == MaxItems \in Nat /\ None \notin Nat

VARIABLES
  jobs,       \* the executor: callers whose job waits, the head's runs
  active,     \* the worker thread's self._state.active
  wpc,        \* where the worker thread is
  held,       \* the item it is about to put
  pc,         \* where a caller is
  queue,      \* the items in the queue of a caller's iterate()
  stop,       \* its stop_event
  generated,  \* how many items its generator has yielded
  got,        \* the items the caller has received
  late        \* how many were generated after stop_event was set

workerVars == <<active, wpc, held>>
callerVars == <<pc, queue, stop, generated, got, late>>
vars       == <<jobs, workerVars, callerVars>>

(* _Value, with the number of the item it carries, _Done and _Error. *)
Value(i) == [tag |-> "value", number |-> i]
Done     == [tag |-> "done", number |-> 0]
Error    == [tag |-> "error", number |-> 0]
Items    == {Value(i) : i \in 1..MaxItems} \cup {Done, Error}

(* A caller: not yet called; waiting in run() for its future; in iterate()  *)
(* at queue.get(), suspended at its yield, waiting for the future after     *)
(* _Done or _Error, or in the finally block that stops the job; ended.      *)
CallerPc == {"idle", "running", "getting", "yielded", "joining_done",
             "joining_error", "stopping", "returned", "raised", "closed"}

(* The worker: idle; in the function of run(); advancing the iterator;      *)
(* looking at the stop event before it puts; in the loop of _put; in its    *)
(* queue.put; closing the iterator; blocked in a nested run().              *)
WorkerPc == {"idle", "call", "next", "check", "put", "putting", "closing",
             "blocked"}

Ended == {"returned", "raised", "closed"}

Init ==
  /\ jobs      = <<>>
  /\ active    = FALSE
  /\ wpc       = "idle"
  /\ held      = None
  /\ pc        = [c \in Callers |-> "idle"]
  /\ queue     = [c \in Callers |-> <<>>]
  /\ stop      = [c \in Callers |-> FALSE]
  /\ generated = [c \in Callers |-> 0]
  /\ got       = [c \in Callers |-> <<>>]
  /\ late      = [c \in Callers |-> 0]

Goto(c, where) == pc' = [pc EXCEPT ![c] = where]
Current == Head(jobs)
HasJob(c) == \E i \in DOMAIN jobs : jobs[i] = c
-----------------------------------------------------------------------------
(* run() and iterate() called from another thread than the worker's. *)
Run(c) ==
  /\ pc[c] = "idle"
  /\ Goto(c, "running")
  /\ jobs' = Append(jobs, c)
  /\ UNCHANGED <<workerVars, queue, stop, generated, got, late>>

Iterate(c) ==
  /\ pc[c] = "idle"
  /\ Goto(c, "getting")
  /\ jobs' = Append(jobs, c)
  /\ UNCHANGED <<workerVars, queue, stop, generated, got, late>>

Get(c) ==
  /\ pc[c] = "getting" /\ queue[c] # <<>>
  /\ queue' = [queue EXCEPT ![c] = Tail(@)]
  /\ LET item == Head(queue[c])
     IN \/ /\ item.tag = "value"
           /\ got' = [got EXCEPT ![c] = Append(@, item.number)]
           /\ Goto(c, "yielded")
        \/ /\ item.tag = "done"
           /\ Goto(c, "joining_done")
           /\ UNCHANGED got
        \/ /\ item.tag = "error"
           /\ Goto(c, "joining_error")
           /\ UNCHANGED got
  /\ UNCHANGED <<jobs, workerVars, stop, generated, late>>

(* future.result() after _Done or _Error: the call returns or raises.       *)
Join(c) ==
  /\ ~HasJob(c)
  /\ \/ pc[c] = "joining_done" /\ Goto(c, "returned")
     \/ pc[c] = "joining_error" /\ Goto(c, "raised")
  /\ UNCHANGED <<jobs, workerVars, queue, stop, generated, got, late>>

(* The consumer asks for the next item, or closes the generator.            *)
Resume(c) ==
  /\ pc[c] = "yielded"
  /\ Goto(c, "getting")
  /\ UNCHANGED <<jobs, workerVars, queue, stop, generated, got, late>>

Close(c) ==
  /\ pc[c] = "yielded"
  /\ stop' = [stop EXCEPT ![c] = TRUE]
  /\ Goto(c, "stopping")
  /\ UNCHANGED <<jobs, workerVars, queue, generated, got, late>>

(* Mutant: the finally block does not wait for the future. *)
LeaveStopped(c) ==
  /\ pc[c] = "stopping"
  /\ Goto(c, "closed")
  /\ UNCHANGED <<jobs, workerVars, queue, stop, generated, got, late>>

JoinStopped(c) ==
  /\ pc[c] = "stopping" /\ ~HasJob(c)
  /\ Goto(c, "closed")
  /\ UNCHANGED <<jobs, workerVars, queue, stop, generated, got, late>>
-----------------------------------------------------------------------------
(* Mutant: the worker's thread is not marked. *)
TakeUnmarked ==
  /\ wpc = "idle" /\ jobs # <<>>
  /\ wpc' = IF pc[Current] = "running" THEN "call" ELSE "next"
  /\ UNCHANGED <<jobs, active, held, callerVars>>

(* The worker thread takes the oldest job: _run or _iterate. *)
Take ==
  /\ wpc = "idle" /\ jobs # <<>>
  /\ active' = TRUE
  /\ wpc' = IF pc[Current] = "running" THEN "call" ELSE "next"
  /\ UNCHANGED <<jobs, held, callerVars>>

(* The function calls run() itself, on the worker's own thread.             *)
NestedRun ==
  /\ wpc \in {"call", "next"}
  /\ jobs' = IF active THEN jobs ELSE Append(jobs, None)
  /\ wpc'  = IF active THEN wpc ELSE "blocked"
  /\ UNCHANGED <<active, held, callerVars>>

(* The function returns or raises, and the future of run() with it.         *)
EndRun ==
  /\ wpc = "call"
  /\ Goto(Current, "returned") \/ Goto(Current, "raised")
  /\ jobs' = Tail(jobs)
  /\ active' = FALSE
  /\ wpc' = "idle"
  /\ UNCHANGED <<held, queue, stop, generated, got, late>>

(* The iterator yields an item, ...                                         *)
Generate ==
  /\ wpc = "next"
  /\ generated[Current] < MaxItems
  /\ generated' = [generated EXCEPT ![Current] = @ + 1]
  /\ late' = [late EXCEPT ![Current] = IF stop[Current] THEN @ + 1 ELSE @]
  /\ held' = Value(generated[Current] + 1)
  /\ wpc'  = "check"
  /\ UNCHANGED <<jobs, active, pc, queue, stop, got>>

(* ... ends, which leaves the loop for the finally block, ...               *)
Exhaust ==
  /\ wpc = "next"
  /\ held' = Done
  /\ wpc'  = "closing"
  /\ UNCHANGED <<jobs, active, callerVars>>

(* ... or raises: the error is put before the finally block.                *)
Raise ==
  /\ wpc = "next"
  /\ held' = Error
  /\ wpc'  = "check"
  /\ UNCHANGED <<jobs, active, callerVars>>

(* "if stop_event.is_set()", before a value, _Error or _Done.  A value or   *)
(* an error that is not put leaves the loop; without _Done the job is over. *)
EndJob ==
  /\ jobs' = Tail(jobs)
  /\ wpc'  = "idle"
  /\ held' = None

(* Mutant: continue instead of break. *)
CheckContinues ==
  /\ wpc = "check"
  /\ wpc' = IF stop[Current] THEN "next" ELSE "put"
  /\ UNCHANGED <<jobs, active, held, callerVars>>

Check ==
  /\ wpc = "check"
  /\ IF ~stop[Current]
     THEN wpc' = "put" /\ UNCHANGED <<jobs, held>>
     ELSE IF held = Done THEN EndJob
                           ELSE wpc' = "closing" /\ UNCHANGED <<jobs, held>>
  /\ UNCHANGED <<active, callerVars>>

(* _put: wait for room in the queue, in turns of 0.1 s, until stopped.      *)
PutStopped ==
  /\ wpc = "put" /\ stop[Current]
  /\ IF held = Done THEN EndJob
                      ELSE wpc' = "closing" /\ UNCHANGED <<jobs, held>>
  /\ UNCHANGED <<active, callerVars>>

(* Mutants: _put does not look at the stop event; it gives up when the      *)
(* queue is full; the queue is not bounded.                                 *)
PutTryAnyway ==
  /\ wpc = "put"
  /\ wpc' = "putting"
  /\ UNCHANGED <<jobs, active, held, callerVars>>

PutFullDrops ==
  /\ wpc = "putting" /\ queue[Current] # <<>>
  /\ wpc' = IF held.tag = "value" THEN "next" ELSE "put"
  /\ UNCHANGED <<jobs, active, held, callerVars>>

PutUnbounded ==
  /\ wpc = "putting"
  /\ queue' = [queue EXCEPT ![Current] = Append(@, held)]
  /\ wpc' = "next"
  /\ UNCHANGED <<jobs, active, held, pc, stop, generated, got, late>>

PutTry ==
  /\ wpc = "put" /\ ~stop[Current]
  /\ wpc' = "putting"
  /\ UNCHANGED <<jobs, active, held, callerVars>>

PutFull ==
  /\ wpc = "putting" /\ queue[Current] # <<>>
  /\ wpc' = "put"
  /\ UNCHANGED <<jobs, active, held, callerVars>>

PutItem ==
  /\ wpc = "putting" /\ queue[Current] = <<>>
  /\ queue' = [queue EXCEPT ![Current] = <<held>>]
  /\ \/ /\ held.tag = "value"
        /\ wpc' = "next" /\ held' = None
        /\ UNCHANGED jobs
     \/ /\ held = Error
        /\ wpc' = "closing"
        /\ UNCHANGED <<jobs, held>>
     \/ /\ held = Done
        /\ EndJob
  /\ UNCHANGED <<active, pc, stop, generated, got, late>>

(* Mutant: _Done is never put. *)
CloseWithoutDone ==
  /\ wpc = "closing"
  /\ active' = FALSE
  /\ EndJob
  /\ UNCHANGED callerVars

(* The finally block of _iterate.  Only a loop that was neither stopped nor *)
(* raised goes on to put _Done; a stopped one finds the event still set.    *)
CloseIterator ==
  /\ wpc = "closing"
  /\ active' = FALSE
  /\ IF held = Done THEN wpc' = "check" /\ UNCHANGED <<jobs, held>>
                      ELSE EndJob
  /\ UNCHANGED callerVars
-----------------------------------------------------------------------------
CallerStep(c)   == Get(c) \/ Join(c) \/ JoinStopped(c)
ConsumerStep(c) == Resume(c) \/ Close(c)

WorkerStep ==
  \/ Take \/ EndRun \/ Generate \/ Exhaust \/ Raise \/ Check
  \/ PutStopped \/ PutTry \/ PutFull \/ PutItem \/ CloseIterator

Next ==
  \/ \E c \in Callers : Run(c) \/ Iterate(c) \/ CallerStep(c) \/ ConsumerStep(c)
  \/ WorkerStep
  \/ NestedRun

Spec == Init /\ [][Next]_vars

(* The threads run; a consumer may leave its generator suspended forever.   *)
Fairness == WF_vars(WorkerStep) /\ \A c \in Callers : WF_vars(CallerStep(c))
FairSpec == Spec /\ Fairness

ConsumerFairness == \A c \in Callers : WF_vars(ConsumerStep(c))
-----------------------------------------------------------------------------
(* Every variable has its type; the queue has one slot. *)
TypeOK ==
  /\ jobs \in Seq(Callers)
  /\ active \in BOOLEAN
  /\ wpc \in WorkerPc
  /\ held \in Items \cup {None}
  /\ pc \in [Callers -> CallerPc]
  /\ queue \in [Callers -> {<<>>} \cup {<<i>> : i \in Items}]
  /\ stop \in [Callers -> BOOLEAN]
  /\ generated \in [Callers -> 0..MaxItems]
  /\ got \in [Callers -> Seq(1..MaxItems)]
  /\ late \in [Callers -> Nat]

(* The caller of run() or iterate() leaves nothing behind: once the call    *)
(* has ended, by return, error or close, its job is not in the executor any *)
(* more, so that the caller may give the inference lock back.               *)
NothingLeftBehind ==
  \A c \in Callers : pc[c] \in Ended => ~HasJob(c)

(* An abandoned stream is cut short: after the stop event is set at most    *)
(* one more item is generated, the one the model was busy with.             *)
StopsPromptly == \A c \in Callers : late[c] <= 1

(* A function that runs on the worker may call run() again without waiting  *)
(* for the thread it occupies.                                              *)
NeverWaitsForItself == wpc # "blocked"

(* What the callers see is an OrderedStream: the items they have are the    *)
(* ones generated, in order.                                                *)
StatusOf(c) ==
  IF pc[c] = "idle" THEN "new"
  ELSE IF pc[c] \in Ended THEN pc[c]
  ELSE IF stop[c] THEN "closing" ELSE "open"

InOrder(items) == \A i \in DOMAIN items : items[i] = i

Stream == INSTANCE OrderedStream WITH
            status    <- [c \in Callers |-> StatusOf(c)],
            delivered <- [c \in Callers |-> IF InOrder(got[c]) THEN Len(got[c])
                                            ELSE None]

DeliversInOrder == Stream!Spec

(* A stream that is closed ends, whatever the worker was doing, even when   *)
(* it was waiting for room in a full queue.                                 *)
CloseEnds == \A c \in Callers : pc[c] = "stopping" ~> pc[c] = "closed"

(* Calls end when their consumers keep reading or close: every run() and    *)
(* every stream, of which _Done or _Error is never lost.                    *)
CallsEnd ==
  ConsumerFairness => \A c \in Callers : pc[c] # "idle" ~> pc[c] \in Ended
=============================================================================
