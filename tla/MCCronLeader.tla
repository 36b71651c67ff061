----------------------------- MODULE MCCronLeader -----------------------------
(***************************************************************************)
(* Small instances of CronLeader for TLC.                                  *)
(***************************************************************************)
EXTENDS CronLeader, TLC

NoFaults == {}
Crashes  == {"crash"}
AllFaults == FaultKinds
Sessions == {"session"}
=============================================================================
