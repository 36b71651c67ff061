---------------------------- MODULE MCLayerStore ----------------------------
(***************************************************************************)
(* Small instances of LayerStore for TLC.                                  *)
(***************************************************************************)
EXTENDS LayerStore, TLC

CONSTANTS o1, o2, o3, d1, d2, p1, p2

\* Two operations of one process and a command beside it.
TwoProcesses == (o1 :> p1) @@ (o2 :> p2) @@ (o3 :> p2)

Ref(n, v) == [name |-> n, version |-> v]
MCRefs == {Ref("a", 1), Ref("a", 2)}

Add(ref, d) == [op |-> "add", ref |-> ref, digest |-> d, valid |-> TRUE]

\* Content that is added under two names, and a name that is added twice.
MCInputs ==
    {Add(Ref("a", 1), d1), Add(Ref("a", 2), d1), Add(Ref("a", 1), d2),
     [Add(Ref("a", 2), d1) EXCEPT !.valid = FALSE],
     [op |-> "show", ref |-> Ref("a", 1)], [op |-> "show", ref |-> [name |-> "a"]],
     [op |-> "list"]}

Crashes == {"crash"}
=============================================================================
