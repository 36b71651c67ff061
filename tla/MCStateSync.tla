----------------------------- MODULE MCStateSync -----------------------------
(***************************************************************************)
(* Small instances of StateSync for TLC.                                   *)
(***************************************************************************)
EXTENDS StateSync, TLC

PostgresOnly == {"postgres"}
BothStores   == {"postgres", "inmem"}

NoFaults    == {}
Starts      == {"start"}
Disconnects == {"disconnect"}
AllFaults   == FaultKinds

SymmetryWriters == Permutations(Writers)
Symmetry == Permutations(Replicas) \cup SymmetryWriters
=============================================================================
