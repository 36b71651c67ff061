------------------------------- MODULE MCPool -------------------------------
(***************************************************************************)
(* Small instances of Pool for TLC.                                        *)
(***************************************************************************)
EXTENDS Pool, TLC

MCSizes == {-1, 1}

\* States that differ only in the counters Stats reports are one state: no
\* guard reads a counter, and the runs that use this view check only their type.
Uncounted == <<reqVars, gwVars, instances, spawning, maxSize, ist, busy, stale,
               updVars, reapVars>>

SymmetryRequests == Permutations(Requests)
Symmetry == SymmetryRequests \cup Permutations(Updaters)
=============================================================================
