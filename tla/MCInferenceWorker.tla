-------------------------- MODULE MCInferenceWorker --------------------------
(***************************************************************************)
(* InferenceWorker on small instances; the values are those of the cfg.    *)
(***************************************************************************)
EXTENDS InferenceWorker
=============================================================================
