-------------------------------- MODULE Health --------------------------------
(***************************************************************************)
(* GET /health beside the requests of module Server.  The handler runs on  *)
(* a thread of the pool, takes no part in the inference lock and reads the *)
(* shared state in steps: first inference_lock.locked(), then for one      *)
(* runtime after the other the deadline and the keep-alive, under the      *)
(* lifecycle's own lock, and is_loaded after that lock is released.        *)
(* Requests, timers and the worker move on between any two of them.        *)
(***************************************************************************)
EXTENDS Server

CONSTANTS
  Monitor,       \* the request for /health
  RuntimesInTurn \* the runtimes in the order of _loaded_model_state

VARIABLES
  hpc,    \* where the handler of /health is
  busy,   \* the answer's "busy"
  report, \* the entries of the answer's "loaded_models", made so far
  inHand, \* the deadline and keep-alive state() holds in local variables
  free    \* has the inference lock been free since "busy" was read

healthVars == <<hpc, busy, report, inHand, free>>
allVars    == <<vars, healthVars>>

ASSUME HealthAssumption ==
  /\ Monitor \notin Requests
  /\ RuntimesInTurn \in Seq(Runtimes)

HealthInit ==
  /\ Init
  /\ hpc    = "idle"
  /\ busy   = None
  /\ report = <<>>
  /\ inHand = None
  /\ free   = FALSE

This == RuntimesInTurn[Len(report) + 1]
-----------------------------------------------------------------------------
(* The request is accepted, gets a thread, and reads whether the lock is    *)
(* held.                                                                    *)
Ask ==
  /\ hpc = "idle" /\ ~LoopBusy
  /\ hpc' = "queued"
  /\ UNCHANGED <<vars, busy, report, inHand, free>>

StartHealth ==
  /\ hpc = "queued" /\ ~LoopBusy
  /\ Cardinality(pool) < PoolSize
  /\ pool' = pool \cup {Monitor}
  /\ hpc'  = "busy"
  /\ UNCHANGED <<lifecycleVars, lockHeld, workerVars, pc, call, queue, chunks,
                 busy, report, inHand, free>>

ReadBusy ==
  /\ hpc = "busy"
  /\ busy' = lockHeld
  /\ free' = ~lockHeld
  /\ hpc'  = "state"
  /\ UNCHANGED <<vars, report, inHand>>

(* "with self._lock: unload_at = ...; keep_alive = ..."; the seconds left   *)
(* are counted from here.                                                   *)
ReadDeadline ==
  /\ hpc = "state" /\ Len(report) < Len(RuntimesInTurn)
  /\ inHand' = [unloadIn |-> unloadAt[This], keepAlive |-> keepAlive[This]]
  /\ hpc' = "is_loaded"
  /\ UNCHANGED <<vars, busy, report, free>>

(* Mutant: the keep-alive is read outside the lifecycle's lock.             *)
EntryTorn(n) ==
  [loaded |-> IsLoaded(n), unloadIn |-> inHand.unloadIn, keepAlive |-> keepAlive[n]]

Entry(n) ==
  [loaded    |-> IsLoaded(n),
   unloadIn  |-> inHand.unloadIn,
   keepAlive |-> inHand.keepAlive]

ReadLoaded ==
  /\ hpc = "is_loaded"
  /\ report' = Append(report, Entry(This))
  /\ inHand' = None
  /\ hpc' = "state"
  /\ UNCHANGED <<vars, busy, free>>

Answer ==
  /\ hpc = "state" /\ Len(report) = Len(RuntimesInTurn)
  /\ hpc'  = "answered"
  /\ pool' = pool \ {Monitor}
  /\ UNCHANGED <<lifecycleVars, lockHeld, workerVars, pc, call, queue, chunks,
                 busy, report, inHand, free>>

HealthStep == StartHealth \/ ReadBusy \/ ReadDeadline \/ ReadLoaded \/ Answer

(* Everything else goes on meanwhile. *)
ServerStep ==
  /\ Next
  /\ free' = (free /\ ~lockHeld' /\ hpc # "answered")
  /\ UNCHANGED <<hpc, busy, report, inHand>>

HealthNext == Ask \/ HealthStep \/ ServerStep

HealthSpec == HealthInit /\ [][HealthNext]_allVars
-----------------------------------------------------------------------------
(* Every variable has its type. *)
HealthTypeOK ==
  /\ pool \subseteq Requests \cup {Monitor}
  /\ hpc \in {"idle", "queued", "busy", "state", "is_loaded", "answered"}
  /\ busy \in BOOLEAN \cup {None}
  /\ free \in BOOLEAN
  /\ report \in Seq([loaded : BOOLEAN, unloadIn : Nat \cup {None},
                     keepAlive : LC!KeepAlives])
  /\ inHand \in [unloadIn : Nat \cup {None}, keepAlive : LC!KeepAlives] \cup {None}

(* A report made while the inference lock is free is a true picture of all  *)
(* the runtimes at once, although it was read piece by piece: each is       *)
(* loaded exactly if the report says so; one that is not loaded has no      *)
(* deadline, and one that is has a deadline unless it was asked to stay.    *)
(* Reports that overlap a request or an unload may contradict themselves.   *)
FreeReportIsTrue ==
  hpc = "state" /\ free =>
    \A i \in DOMAIN report :
      /\ report[i].loaded = IsLoaded(RuntimesInTurn[i])
      /\ report[i].unloadIn # None => report[i].loaded
      /\ report[i].loaded /\ report[i].unloadIn = None => report[i].keepAlive = None

(* Whatever happens during the report, a deadline is shown with the         *)
(* keep-alive it comes from: a positive one, no shorter than what is left,  *)
(* unless the timer is being retried.                                       *)
DeadlineFitsKeepAlive ==
  \A i \in DOMAIN report :
    report[i].unloadIn # None =>
      /\ report[i].keepAlive \in Delays
      /\ report[i].unloadIn <= report[i].keepAlive \/ report[i].unloadIn <= RetryDelay
=============================================================================
