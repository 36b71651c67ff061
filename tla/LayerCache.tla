----------------------------- MODULE LayerCache -----------------------------
(***************************************************************************)
(* What the layer resolver promises its callers (the LayerResolver         *)
(* interface of internal/gateway/layers.go): a layer is on the host either *)
(* not at all or as exactly the tree its digest names, it is installed in  *)
(* one step and stays, and Resolve succeeds only when every layer that was *)
(* asked for is there.                                                     *)
(***************************************************************************)
CONSTANTS
    Calls,    \* calls of Resolve
    Names,    \* the digests, as they are written in function definitions
    Payload,  \* the tree that a digest names, or Absent if it names none
    Absent

VARIABLES
    tree,     \* what is installed under each name
    wanted,   \* the names a call asks for
    answer    \* how far a call is: "none", "pending", "ok", "failed"

vars == <<tree, wanted, answer>>

Init ==
    /\ tree = [n \in Names |-> Absent]
    /\ wanted = [c \in Calls |-> {}]
    /\ answer = [c \in Calls |-> "none"]

Ask(c) ==
    /\ answer[c] = "none"
    /\ \E S \in SUBSET Names : wanted' = [wanted EXCEPT ![c] = S]
    /\ answer' = [answer EXCEPT ![c] = "pending"]
    /\ UNCHANGED tree

Install(n) ==
    /\ tree[n] = Absent
    /\ tree' = [tree EXCEPT ![n] = Payload[n]]
    /\ UNCHANGED <<wanted, answer>>

Succeed(c) ==
    /\ answer[c] = "pending"
    /\ \A n \in wanted[c] : tree[n] # Absent
    /\ answer' = [answer EXCEPT ![c] = "ok"]
    /\ UNCHANGED <<tree, wanted>>

\* Calls fail alone, or together when the process they run in dies.
Fail(C) ==
    /\ \A c \in C : answer[c] = "pending"
    /\ answer' = [c \in Calls |-> IF c \in C THEN "failed" ELSE answer[c]]
    /\ UNCHANGED <<tree, wanted>>

Next ==
    \/ \E c \in Calls : Ask(c) \/ Succeed(c)
    \/ \E C \in SUBSET Calls : Fail(C)
    \/ \E n \in Names : Install(n)

Spec == Init /\ [][Next]_vars
=============================================================================
