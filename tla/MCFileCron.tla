----------------------------- MODULE MCFileCron -----------------------------
(***************************************************************************)
(* Small instances of FileCron for TLC.                                    *)
(***************************************************************************)
EXTENDS FileCron, TLC

CONSTANTS c1, c2

Job(i, s) == [id |-> i, sched |-> s, body |-> "x"]

\* Schedules that agree on the next tick at one time and not at another.
Even == Job("a", {0})
Each == Job("a", {0, 1})
Bad  == Job("b", Invalid)
Good == Job("b", {1})

MCJobs   == {Even, Each, Bad, Good}
MCFiles  == {Absent, {Even, Bad}}

Add(j) == [op |-> "add", job |-> j]
Rm(i)  == [op |-> "rm", id |-> i]

\* Commands that add the same id, that undo each other's work, that edit
\* different jobs, that fail, and that only read.
MCPlans ==
    {(c1 :> pair[1]) @@ (c2 :> pair[2]) : pair \in
        {<<Add(Each), Add(Even)>>, <<Add(Each), Add(Good)>>, <<Rm("a"), Rm("b")>>,
         <<Rm("b"), Add(Good)>>, <<Rm("a"), [op |-> "run", id |-> "a"]>>,
         <<Add(Bad), [op |-> "list"]>>}}

Crashes == {"crash"}
=============================================================================
