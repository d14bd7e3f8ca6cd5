--------------------------- MODULE KeepAlivePolicy ---------------------------
(***************************************************************************)
(* What the service promises of the models in memory (Model Lifecycle in   *)
(* the README of the repository): a model comes into memory only with a    *)
(* request that uses it; after the last request it stays for the           *)
(* keep-alive that request asked for, and for good if it asked for that;   *)
(* then it leaves, at a moment when no model is in use.  If one is, its    *)
(* leaving is postponed.  Nothing is said of locks, threads, timers,       *)
(* generations or the worker.                                              *)
(***************************************************************************)
EXTENDS Naturals

CONSTANTS
  Runtimes,    \* the runtimes that hold a model
  Delays,      \* the positive keep-alives that requests may ask for
  RetryDelay,  \* seconds by which the end of a keep-alive is postponed
  None         \* as a keep-alive: keep the model loaded

VARIABLES
  place,   \* where the model of a runtime is, see Places
  left,    \* the seconds a warm model has still to stay
  wanted   \* the keep-alive of the last request that ended

policyVars == <<place, left, wanted>>

(* Out of memory; in use, or being loaded for it; kept warm for its         *)
(* keep-alive; kept for good; on its way out.                               *)
Places == {"out", "used", "warm", "kept", "leaving"}

Init ==
  /\ place  = [n \in Runtimes |-> "out"]
  /\ left   = [n \in Runtimes |-> 0]
  /\ wanted = [n \in Runtimes |-> None]

(* No model is used or on its way out. *)
Quiet == \A n \in Runtimes : place[n] \in {"out", "warm", "kept"}

Move(n, where, seconds) ==
  /\ place' = [place EXCEPT ![n] = where]
  /\ left'  = [left EXCEPT ![n] = seconds]

(* A request begins to use the model, wherever it is. *)
Use(n) == Move(n, "used", 0) /\ Quiet /\ UNCHANGED wanted

(* A request that asked for keep-alive ka has ended; its model may not have *)
(* been loaded.                                                             *)
Finish(n, ka) ==
  /\ place[n] = "used"
  /\ wanted' = [wanted EXCEPT ![n] = ka]
  /\ \/ Move(n, "out", 0)
     \/ ka = None /\ Move(n, "kept", 0)
     \/ ka = 0 /\ Move(n, "leaving", 0)
     \/ ka \in Delays /\ Move(n, "warm", ka)

Expire(n) ==
  /\ place[n] = "warm" /\ left[n] = 0 /\ Quiet
  /\ Move(n, "leaving", 0)
  /\ UNCHANGED wanted

Postpone(n) ==
  /\ place[n] = "warm" /\ left[n] = 0
  /\ Move(n, "warm", RetryDelay)
  /\ UNCHANGED wanted

Leave(n) == place[n] = "leaving" /\ Move(n, "out", 0) /\ UNCHANGED wanted

Tick ==
  /\ left' = [n \in Runtimes |-> IF left[n] = 0 THEN 0 ELSE left[n] - 1]
  /\ UNCHANGED <<place, wanted>>

Next ==
  \/ \E n \in Runtimes :
       \/ Use(n) \/ Expire(n) \/ Postpone(n) \/ Leave(n)
       \/ \E ka \in Delays \cup {0, None} : Finish(n, ka)
  \/ Tick

Spec == Init /\ [][Next]_policyVars
=============================================================================
