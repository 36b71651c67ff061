------------------------------ MODULE Tenancy -------------------------------
(***************************************************************************)
(* Projects, API keys, quotas and the audit log: internal/state/           *)
(* postgres_tenancy.go and inmem_tenancy.go, the migrations that create    *)
(* the tables and their foreign keys, and the commands `cfunc project |    *)
(* key | quota | audit` of cmd/cfunc/tenancy.go.                           *)
(*                                                                         *)
(* Every command is a process that opens the database, which applies the   *)
(* missing migrations, makes one change, appends an audit entry whose      *)
(* failure it ignores, and exits.  The gateway opens the database too.     *)
(* The in-memory store has no migrations and no foreign keys.              *)
(***************************************************************************)
EXTENDS Integers, FiniteSets

CONSTANTS
    Commands,    \* processes of the command line tool
    Gateway,     \* the gateway process
    Plans,       \* what the commands may be asked to do: inputs by command
    Projects,    \* project names; "default" is one
    Keys,        \* API keys: id and token
    Names,       \* function names
    Scopes,      \* scopes of a key
    Limits,      \* values of a quota
    Legacy,      \* what cfunc_functions may hold before migration 2
    LegacyJobs,  \* the projects of cfunc_cron_jobs before migration 2
    Backends,    \* a subset of {"postgres", "mem"}
    Faults,      \* a subset of {"crash", "db"}
    None

Procs    == Commands \cup {Gateway}
Versions == 0..2    \* the table cfunc_schema itself, 0001_init, 0002_tenancy

ASSUME TenancyAssumption ==
    /\ Gateway \notin Commands
    /\ "default" \in Projects
    /\ None # "*" /\ None \notin Procs
    /\ None \notin Projects /\ None \notin Keys /\ None \notin Limits
    /\ Legacy \subseteq [Names -> Projects \cup {None}]
    /\ LegacyJobs \subseteq SUBSET Projects
    /\ Backends \subseteq {"postgres", "mem"}
    /\ Faults \subseteq {"crash", "db"}
    /\ \A plan \in Plans : \A c \in Commands :
          \/ /\ plan[c].op \in {"project.create", "project.delete", "cron.put", "cron.delete"}
             /\ plan[c].project \in Projects
          \/ /\ plan[c].op = "key.create"
             /\ plan[c].key \in Keys /\ plan[c].project \in Projects \cup {"*"}
             /\ plan[c].scopes \subseteq Scopes
          \/ plan[c].op = "key.revoke" /\ plan[c].key \in Keys
          \/ plan[c].op = "quota.set" /\ plan[c].project \in Projects /\ plan[c].value \in Limits
          \/ plan[c].op = "list"

\* Id and token of a key are random: no two commands create the same one.
ASSUME FreshKeys ==
    \A plan \in Plans : \A c, d \in Commands :
        /\ plan[c].op = "key.create" /\ plan[d].op = "key.create"
        /\ plan[c].key = plan[d].key
        => c = d

VARIABLES
    backend,     \* which store this is
    schema,      \* the versions in cfunc_schema
    ddl,         \* the process whose migration transaction is open
    projects,    \* the table cfunc_projects
    keys,        \* the table cfunc_api_keys: [project, scopes] by key
    quotas,      \* the table cfunc_quotas, for one kind, by project
    functions,   \* the project in each row of cfunc_functions
    cronJobs,    \* the projects in the rows of cfunc_cron_jobs
    audit,       \* the entries of cfunc_audit_log: <<action, target>>
    pc, input,   \* processes: where they are; what commands do
    at,          \* processes: the migration they are at
    by,          \* history: the process that applied a version, by version
    unlucky,     \* history: processes that failed because the database did
    revoked      \* history: keys revoked, or deleted with their project

tables  == <<projects, keys, quotas, functions, cronJobs>>
history == <<by, unlucky>>
tenancyVars == <<backend, schema, ddl, tables, audit, pc, input, at, history, revoked>>

NoRow == [project |-> None, scopes |-> {}]

\* A new database, one at version 1 that holds functions and jobs, or an
\* empty map.
TenancyInit ==
    /\ backend \in Backends
    /\ \/ backend = "postgres" /\ schema = {0, 1} /\ functions \in Legacy /\ cronJobs \in LegacyJobs
       \/ /\ schema = IF backend = "mem" THEN Versions ELSE {}
          /\ functions = [n \in Names |-> None] /\ cronJobs = {}
    /\ ddl = None
    /\ projects = {}
    /\ keys = [k \in Keys |-> NoRow]
    /\ quotas = [p \in Projects |-> None]
    /\ audit = {}
    /\ pc = [p \in Procs |-> "start"]
    /\ input \in Plans
    /\ at = [p \in Procs |-> 0]
    /\ by = [v \in Versions |-> None]
    /\ unlucky = {}
    /\ revoked = {}

Go(p, where) == pc' = [pc EXCEPT ![p] = where]

(***************************************************************************)
(* OpenPostgres: migrate                                                   *)
(***************************************************************************)
Open(p) ==
    /\ pc[p] = "start"
    /\ Go(p, IF backend = "postgres" THEN "check" ELSE "opened")
    /\ UNCHANGED <<backend, schema, ddl, tables, audit, input, at, history, revoked>>

\* Is this version applied?  If so the next one is looked at.
Check(p) ==
    /\ pc[p] = "check"
    /\ IF at[p] \notin schema THEN Go(p, "body") /\ UNCHANGED at
       ELSE IF at[p] + 1 \in Versions THEN at' = [at EXCEPT ![p] = @ + 1] /\ UNCHANGED pc
       ELSE Go(p, "opened") /\ UNCHANGED at
    /\ UNCHANGED <<backend, schema, ddl, tables, audit, input, history, revoked>>

\* The script runs in a transaction; nothing of it is visible yet.  CREATE
\* TABLE waits for the transaction that is creating the same table.
Body(p) ==
    /\ pc[p] = "body" /\ ddl = None
    /\ ddl' = p
    /\ Go(p, "record")
    /\ UNCHANGED <<backend, schema, tables, audit, input, at, history, revoked>>

\* Faulty variant: the projects of the jobs are forgotten.
BackfillFunctions == {"default"} \cup ({functions[n] : n \in Names} \ {None})

\* 0002_tenancy: the projects that functions and jobs refer to, and 'default'.
Backfill == {"default"} \cup ({functions[n] : n \in Names} \ {None}) \cup cronJobs

\* Faulty variant: a process gives up as soon as another is at work.
ConflictsAtOnce(p) == \E q \in Procs \ {p} : pc[q] \in {"body", "record"}

\* The primary key of cfunc_schema: another process has recorded the version.
Conflicts(p) == at[p] \in schema

\* What the script does and its version become visible together.
Commit(p) ==
    /\ schema' = schema \cup {at[p]}
    /\ projects' = IF at[p] = 2 THEN projects \cup Backfill ELSE projects
    /\ by' = [by EXCEPT ![at[p]] = p]

\* The version is recorded and the transaction committed, or the insert (or
\* the script before it) meets what another process has done: rolled back.
Record(p) ==
    /\ pc[p] = "record"
    /\ ddl' = None
    /\ IF Conflicts(p) THEN Go(p, "openFailed") /\ UNCHANGED <<schema, projects, by>>
       ELSE Commit(p) /\ Go(p, "check")
    /\ UNCHANGED <<backend, keys, quotas, functions, cronJobs, audit, input, at, unlucky, revoked>>

\* The transaction of a process that fails or dies is rolled back.
Rollback(p) == IF ddl = p THEN None ELSE ddl

\* The database is out of reach, the caller's context ends (while a script
\* waits for another one, too), or a statement fails, an ADD CONSTRAINT say.
\* An error of Commit leaves it open whether the transaction was committed.
DatabaseFails(p) ==
    /\ "db" \in Faults
    /\ pc[p] \in {"check", "body", "record"}
    /\ Go(p, "openFailed")
    /\ ddl' = Rollback(p)
    /\ unlucky' = unlucky \cup {p}
    /\ \/ UNCHANGED <<schema, projects, by>>
       \/ pc[p] = "record" /\ ~Conflicts(p) /\ Commit(p)
    /\ UNCHANGED <<backend, keys, quotas, functions, cronJobs, audit, input, at, revoked>>

(***************************************************************************)
(* The changes                                                             *)
(***************************************************************************)
In(c) == input[c]

\* REFERENCES cfunc_projects(name); the in-memory store checks nothing.
References(p) == backend = "mem" \/ p \in projects

\* ON DELETE RESTRICT, of the rows of cfunc_functions and cfunc_cron_jobs.
Restricted(p) == backend = "postgres" /\ (p \in cronJobs \/ \E n \in Names : functions[n] = p)

\* ON DELETE CASCADE: the keys that go with a project.  In memory none does.
Cascades(p) == IF backend = "postgres" THEN {k \in Keys : keys[k].project = p} ELSE {}

\* The primary key of cfunc_projects; "already exists" in memory.
Taken(p) == p \in projects

ProjectCreate(c) ==
    /\ In(c).op = "project.create"
    /\ IF Taken(In(c).project) THEN Go(c, "failed") /\ UNCHANGED projects
       ELSE projects' = projects \cup {In(c).project} /\ Go(c, "audit")
    /\ UNCHANGED <<keys, quotas, cronJobs, revoked>>

\* DeleteProject succeeds for an unknown name, too.
DeleteProject(p) ==
    /\ projects' = projects \ {p}
    /\ keys' = [k \in Keys |-> IF k \in Cascades(p) THEN NoRow ELSE keys[k]]
    /\ quotas' = IF backend = "postgres" THEN [quotas EXCEPT ![p] = None] ELSE quotas
    /\ revoked' = revoked \cup Cascades(p)

ProjectDelete(c) ==
    /\ In(c).op = "project.delete"
    /\ IF Restricted(In(c).project)
       THEN Go(c, "failed") /\ UNCHANGED <<projects, keys, quotas, revoked>>
       ELSE Go(c, "audit") /\ DeleteProject(In(c).project)
    /\ UNCHANGED cronJobs

\* Faulty variant: any project name is accepted.
ReservedNone(p) == FALSE

\* The project of the cluster admin's identity.
Reserved(p) == p = "*"

\* CreateAPIKey: id and token are random, so the row is new.
CreateAPIKey(k, p, scopes) ==
    keys' = [keys EXCEPT ![k] = [project |-> p, scopes |-> scopes]]

KeyCreate(c) ==
    /\ In(c).op = "key.create"
    /\ IF Reserved(In(c).project) \/ ~References(In(c).project)
       THEN Go(c, "failed") /\ UNCHANGED keys
       ELSE Go(c, "audit") /\ CreateAPIKey(In(c).key, In(c).project, In(c).scopes)
    /\ UNCHANGED <<projects, quotas, cronJobs, revoked>>

\* DeleteAPIKey of an unknown id succeeds, too.
DeleteAPIKey(k) == keys' = [keys EXCEPT ![k] = NoRow]

KeyRevoke(c) ==
    /\ In(c).op = "key.revoke"
    /\ DeleteAPIKey(In(c).key)
    /\ revoked' = IF keys[In(c).key] # NoRow THEN revoked \cup {In(c).key} ELSE revoked
    /\ Go(c, "audit")
    /\ UNCHANGED <<projects, quotas, cronJobs>>

SetQuota(p, v) == quotas' = [quotas EXCEPT ![p] = v]

QuotaSet(c) ==
    /\ In(c).op = "quota.set"
    /\ IF References(In(c).project)
       THEN Go(c, "audit") /\ SetQuota(In(c).project, In(c).value)
       ELSE Go(c, "failed") /\ UNCHANGED quotas
    /\ UNCHANGED <<projects, keys, cronJobs, revoked>>

\* project list, key list, quota list and audit tail only read.
ListRows(c) ==
    /\ In(c).op = "list"
    /\ Go(c, "done")
    /\ UNCHANGED <<projects, keys, quotas, cronJobs, revoked>>

\* PutCronJob, by a client of the package: no command of the tool does it.
CronPut(c) ==
    /\ In(c).op = "cron.put"
    /\ IF References(In(c).project)
       THEN Go(c, "done") /\ cronJobs' = cronJobs \cup {In(c).project}
       ELSE Go(c, "failed") /\ UNCHANGED cronJobs
    /\ UNCHANGED <<projects, keys, quotas, revoked>>

\* DeleteCronJob, of the last job of the project.
CronDelete(c) ==
    /\ In(c).op = "cron.delete"
    /\ cronJobs' = cronJobs \ {In(c).project}
    /\ Go(c, "done")
    /\ UNCHANGED <<projects, keys, quotas, revoked>>

Change(c) ==
    /\ c \in Commands /\ pc[c] = "opened"
    /\ \/ ProjectCreate(c) \/ ProjectDelete(c) \/ KeyCreate(c) \/ KeyRevoke(c)
       \/ QuotaSet(c) \/ ListRows(c) \/ CronPut(c) \/ CronDelete(c)
    /\ UNCHANGED <<backend, schema, ddl, functions, audit, input, at, history>>

\* What an audit entry names: a quota's kind is the only one there is here.
Target(c) ==
    CASE In(c).op \in {"key.create", "key.revoke"} -> In(c).key
      [] In(c).op = "quota.set" -> "requests_per_min"
      [] OTHER -> In(c).project

\* AppendAudit; its callers ignore that it fails.
AppendAudit(entry) ==
    \/ audit' = audit \cup {entry}
    \/ "db" \in Faults /\ UNCHANGED audit

Audit(c) ==
    /\ pc[c] = "audit"
    /\ AppendAudit(<<In(c).op, Target(c)>>)
    /\ Go(c, "done")
    /\ UNCHANGED <<backend, schema, ddl, tables, input, at, history, revoked>>

(***************************************************************************)
(* A process dies in the middle of its work.  (Elsewhere it leaves nothing *)
(* behind.)                                                                *)
(***************************************************************************)
Crash(p) ==
    /\ "crash" \in Faults
    /\ pc[p] \in {"body", "record", "audit"}
    /\ Go(p, "dead")
    /\ ddl' = Rollback(p)
    /\ UNCHANGED <<backend, schema, tables, audit, input, at, history, revoked>>

-----------------------------------------------------------------------------
TenancyTypeOK ==
    /\ backend \in Backends
    /\ schema \subseteq Versions
    /\ ddl \in Procs \cup {None}
    /\ projects \subseteq Projects
    /\ keys \in [Keys -> [project : Projects \cup {None}, scopes : SUBSET Scopes]]
    /\ quotas \in [Projects -> Limits \cup {None}]
    /\ functions \in [Names -> Projects \cup {None}]
    /\ cronJobs \subseteq Projects
    /\ pc \in [Procs -> {"start", "check", "body", "record", "openFailed", "opened", "up", "exited",
                         "audit", "done", "failed", "dead"}]
    /\ input \in Plans
    /\ at \in [Procs -> Versions]
    /\ by \in [Versions -> Procs \cup {None}]
    /\ unlucky \subseteq Procs
    /\ revoked \subseteq Keys

\* In the database every key, quota, function and job belongs to a project
\* that exists, whatever commands and registrations do at the same time: a
\* delete takes keys and quotas along and is refused while there are functions
\* or jobs, and migration 2 inserts the projects of the rows it finds.
ReferencesHold ==
    backend = "postgres" /\ 2 \in schema =>
        /\ \A k \in Keys : keys[k].project \in projects \cup {None}
        /\ \A p \in Projects : quotas[p] # None => p \in projects
        /\ \A n \in Names : functions[n] \in projects \cup {None}
        /\ cronJobs \subseteq projects

\* A start that fails, or a process that dies, stands in nobody's way: no
\* transaction outlives it and nothing of a migration that is not recorded is
\* visible.  And a process that fails although the database works has lost a
\* race to one that did not lose one itself: of the processes that start at
\* once, one that the database does not fail gets through.
FailedStartHarmsNobody ==
    /\ ddl # None => pc[ddl] = "record"
    /\ 2 \notin schema => projects = {}
    /\ \A p \in Procs : pc[p] = "openFailed" /\ p \notin unlucky =>
          \E v \in schema : /\ at[p] <= v /\ by[v] \in Procs
                            /\ pc[by[v]] = "openFailed" => by[v] \in unlucky

=============================================================================
