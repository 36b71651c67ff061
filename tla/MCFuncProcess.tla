---------------------------- MODULE MCFuncProcess ----------------------------
(***************************************************************************)
(* Small instances of FuncProcess for TLC.                                 *)
(***************************************************************************)
EXTENDS FuncProcess, TLC

AllFaults == FaultKinds
=============================================================================
