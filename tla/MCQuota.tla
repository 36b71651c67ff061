------------------------------- MODULE MCQuota -------------------------------
(***************************************************************************)
(* Small instances of Quota for TLC.                                       *)
(***************************************************************************)
EXTENDS Quota, TLC

CONSTANTS g1, c1, c2

OneGateway  == (c1 :> g1) @@ (c2 :> g1)
AllFaults   == {"push", "refresh"}

\* Both callers run on the one gateway.
SameCallers == Permutations({c1, c2})

=============================================================================
