------------------------------ MODULE MCHealth ------------------------------
(***************************************************************************)
(* Health on a small instance: two runtimes, a stream and short requests.  *)
(***************************************************************************)
EXTENDS Health

MCDelays == {1, 2}

HealthCall(op, ka) == [op |-> op, model |-> "model", keepAlive |-> ka]

MCCalls ==
  {HealthCall("stream", 2), HealthCall("chat", 0), HealthCall("embedding", 1),
   HealthCall("embedding", None)}

InTurn == <<"chat", "embedding">>
=============================================================================
