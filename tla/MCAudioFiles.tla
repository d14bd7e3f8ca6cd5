---------------------------- MODULE MCAudioFiles ----------------------------
(***************************************************************************)
(* AudioFiles with every failure.                                          *)
(***************************************************************************)
EXTENDS AudioFiles, TLC

HandlerSymmetry == Permutations(Handlers)
=============================================================================
