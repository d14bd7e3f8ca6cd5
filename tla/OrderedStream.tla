---------------------------- MODULE OrderedStream ----------------------------
(***************************************************************************)
(* What InferenceWorker promises its callers: a call is served at most     *)
(* once; a stream delivers items 1, 2, 3, ... without a gap and only until *)
(* it is closed; and when it returns or raises, the caller has every item  *)
(* that was generated.  Nothing is said of threads, queues or events.      *)
(***************************************************************************)
EXTENDS Naturals

CONSTANTS
  Callers,  \* the callers of run() and iterate(), each with one call
  MaxItems  \* bound on the items of a stream

VARIABLES
  status,     \* where the call of a caller is
  generated,  \* how many items its generator has yielded
  delivered   \* how many of them the caller has received

streamVars == <<status, generated, delivered>>

Status == {"new", "open", "returned", "raised", "closing", "closed"}

Init ==
  /\ status    = [c \in Callers |-> "new"]
  /\ generated = [c \in Callers |-> 0]
  /\ delivered = [c \in Callers |-> 0]

Move(c, from, to) == status[c] = from /\ status' = [status EXCEPT ![c] = to]

Open(c) ==
  /\ Move(c, "new", "open")
  /\ UNCHANGED <<generated, delivered>>

(* An item is generated only when the one before it has left the generator. *)
Generate(c) ==
  /\ status[c] \in {"open", "closing"}
  /\ generated[c] < MaxItems
  /\ generated' = [generated EXCEPT ![c] = @ + 1]
  /\ UNCHANGED <<status, delivered>>

Deliver(c) ==
  /\ status[c] = "open"
  /\ delivered[c] < generated[c]
  /\ delivered' = [delivered EXCEPT ![c] = @ + 1]
  /\ UNCHANGED <<status, generated>>

Complete(c) ==
  /\ delivered[c] = generated[c]
  /\ Move(c, "open", "returned") \/ Move(c, "open", "raised")
  /\ UNCHANGED <<generated, delivered>>

Close(c) ==
  /\ Move(c, "open", "closing") \/ Move(c, "closing", "closed")
  /\ UNCHANGED <<generated, delivered>>

Next ==
  \E c \in Callers :
    Open(c) \/ Generate(c) \/ Deliver(c) \/ Complete(c) \/ Close(c)

Spec == Init /\ [][Next]_streamVars
=============================================================================
