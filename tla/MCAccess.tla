------------------------------ MODULE MCAccess ------------------------------
(***************************************************************************)
(* Small instances of Access for TLC.                                      *)
(***************************************************************************)
EXTENDS Access, TLC

CONSTANTS c1, c2, k1

KeyFor(p)  == [op |-> "key.create", key |-> k1, project |-> p, scopes |-> {"invoke"}]
DeployKey  == [KeyFor("a") EXCEPT !.scopes = {"deploy"}]
Revoke     == [op |-> "key.revoke", key |-> k1]
Project(o) == [op |-> o, project |-> "a"]
OfB(o)     == [op |-> o, project |-> "b"]
Quota      == [op |-> "quota.set", project |-> "a", value |-> 1]

\* A project with a key that then loses one of them, keys that cannot be,
\* changes of different tables, and reading.
MCPlans ==
    {(c1 :> pair[1]) @@ (c2 :> pair[2]) : pair \in
        {<<KeyFor("a"), Revoke>>, <<KeyFor("a"), Project("project.delete")>>,
         <<DeployKey, Project("project.create")>>, <<Quota, Project("project.delete")>>,
         <<OfB("cron.delete"), OfB("project.delete")>>, <<OfB("cron.put"), OfB("project.create")>>,
         <<KeyFor("*"), [op |-> "list"]>>}}

MCCalls  == {[token |-> t, project |-> p, name |-> "f"] : t \in {k1, Secret, None}, p \in {None}}
              \cup {[token |-> k1, project |-> "a", name |-> "f"]}
Admin(t, path, p, v) == [token |-> t, path |-> path, name |-> "f", project |-> p, valid |-> v]
MCAdmins == {Admin(Secret, "register", "a", TRUE), Admin(Secret, "register", "a", FALSE),
             Admin(Secret, "register", "default", TRUE), Admin(Secret, "delete", "a", TRUE),
             Admin(k1, "delete", "a", TRUE), Admin(Secret, "build", "a", TRUE),
             Admin(None, "static", "a", TRUE)}

\* Refuses to start, runs as a developer's, and runs with everything on.
MCConfigs == {[token |-> None, loopback |-> FALSE, guarded |-> TRUE],
              [token |-> None, loopback |-> TRUE, guarded |-> FALSE],
              [token |-> Secret, loopback |-> FALSE, guarded |-> TRUE]}
InProjectA == {[n \in Names |-> "a"]}
JobsInB    == {{"b"}}
MCFaults == {"crash", "db"}
BothBackends == {"postgres", "mem"}

\* What is written and never read, by a step or a property, does not tell
\* states apart: the answers at the admin port, audit entries other than those
\* of revoked keys, and the project that ServeHTTP has compared.
Relevant ==
    <<backend, schema, ddl, tables, audit \cap ({"key.revoke"} \X Keys), pc, input, at, history, revoked,
      configVars, cache, call, where, id, served, deadKeys,
      {a \in Admins : status[a] = "new"}, moved>>
=============================================================================
