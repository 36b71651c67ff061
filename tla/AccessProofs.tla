---------------------------- MODULE AccessProofs ----------------------------
(***************************************************************************)
(* Tenancy and access, for any number of processes, projects, keys,        *)
(* functions and calls, both stores and every fault: the foreign keys hold *)
(* through racing migrations and commands (TenancyInv), and what a call    *)
(* may do follows from what it was when it was checked (CallInv).          *)
(***************************************************************************)
EXTENDS Access, TLAPS

\* How far the migrations are: what a process has passed is applied, and only
\* a process for which all of them are applied gets to work.
MigratedInv ==
    \A p \in Procs :
        /\ \A v \in Versions : v < at[p] => v \in schema
        /\ pc[p] \in {"opened", "up", "audit", "done", "failed"} => schema = Versions

\* Before migration 2 nothing refers to a project but the rows of functions,
\* and the in-memory store has no migrations.
UntouchedInv ==
    /\ backend = "mem" => schema = Versions
    /\ 2 \notin schema => /\ \A k \in Keys : keys[k] = NoRow
                          /\ \A p \in Projects : quotas[p] = None

\* A command that has not made its change yet.
Fresh(c) == pc[c] \in {"start", "check", "body", "record", "opened"}

\* The life of a key: no row before its creator's change, none of project "*",
\* and none again once it is revoked.
KeysInv ==
    /\ \A k \in Keys : keys[k].project # "*" /\ (keys[k].project = None => keys[k] = NoRow)
    /\ \A k \in revoked : keys[k] = NoRow
    /\ \A c \in Commands : In(c).op = "key.create" /\ Fresh(c) =>
           keys[In(c).key] = NoRow /\ In(c).key \notin revoked

\* A process between its look for a version and its own record of it, and one
\* that came too late with it.
AtWork(p) == pc[p] \in {"body", "record"}
Lost(p)   == pc[p] = "openFailed" /\ p \notin unlucky

\* The newest version that is applied.
Newest(v) == v \in schema /\ \A u \in schema : u <= v

\* Who applied what: versions are applied in order; those that are there when
\* a process gives up, or is at work, were applied by processes of this run;
\* and the one that applied the newest version is not behind it.
RaceInv ==
    /\ \A v \in schema : \A u \in Versions : u < v => u \in schema
    /\ \A p \in Procs : AtWork(p) \/ Lost(p) => \A v \in schema : at[p] <= v => by[v] \in Procs
    /\ \A p \in Procs : Lost(p) => at[p] \in schema
    /\ \A v \in schema : Newest(v) /\ by[v] \in Procs =>
           ~Lost(by[v]) /\ (AtWork(by[v]) => at[by[v]] \notin schema)

\* An open transaction belongs to a process that is at it, and what the
\* second migration inserts is not there before it.
WholeInv ==
    /\ ddl # None => pc[ddl] = "record"
    /\ 2 \notin schema => projects = {}

\* The inductive invariant of the tables and the processes that change them.
TenancyInv ==
    /\ TenancyTypeOK
    /\ MigratedInv
    /\ UntouchedInv
    /\ KeysInv
    /\ ReferencesHold
    /\ RaceInv
    /\ WholeInv

\* What a call that got past the authentication may count on: it has an
\* identity with the scope, and only the admin's is one of every project.
Authenticated(c) ==
    /\ id[c].key # None
    /\ id[c].key # Secret => "invoke" \in id[c].scopes /\ id[c].project # "*"

\* A call that was routed is still one for its own project, or its function
\* has been redefined since.
RoutedHome(c) ==
    /\ id[c].project \in {"*", project[c]}
    /\ cache[call[c].name] \in {None, project[c]} \/ c \in moved

\* The inductive invariant of the calls at the function port.
CallInv ==
    /\ TypeOK
    /\ ~Up => \A c \in Calls : where[c] = "new"
    /\ \A c \in Calls :
          /\ where[c] # "new" => call[c] \in CallInputs
          /\ deadKeys[c] \subseteq revoked
          /\ served[c] # None => where[c] = "200"
          /\ guarded /\ where[c] \in {"authed", "routed", "200"} => Authenticated(c)
          /\ guarded /\ where[c] = "routed" => RoutedHome(c)
          /\ guarded /\ call[c].token \in deadKeys[c] => where[c] \in {"new", "arrived", "401"}
    /\ CallsStayInProject

\* The inputs of commands are well-formed.
LEMMA PlanType ==
    ASSUME TenancyTypeOK, NEW c \in Commands
    PROVE  \/ /\ In(c).op \in {"project.create", "project.delete", "cron.put", "cron.delete"}
              /\ In(c).project \in Projects
           \/ /\ In(c).op = "key.create"
              /\ In(c).key \in Keys /\ In(c).project \in Projects \cup {"*"}
              /\ In(c).scopes \subseteq Scopes
           \/ In(c).op = "key.revoke" /\ In(c).key \in Keys
           \/ In(c).op = "quota.set" /\ In(c).project \in Projects /\ In(c).value \in Limits
           \/ In(c).op = "list"
BY TenancyAssumption DEF TenancyTypeOK, In

\* The row of a key that does not exist has no project.
LEMMA NoRowProject == NoRow.project = None /\ NoRow.project # "*"
BY TenancyAssumption DEF NoRow

\* At the start no table but cfunc_functions has a row.
LEMMA InitTenancy == TenancyInit => TenancyInv
<1>. SUFFICES ASSUME TenancyInit PROVE TenancyInv
  OBVIOUS
<1>1. TenancyTypeOK
  BY TenancyAssumption DEF TenancyInit, TenancyTypeOK, Versions, Procs, NoRow
<1>2. MigratedInv
  BY DEF TenancyInit, MigratedInv, Versions, Procs
<1>3. UntouchedInv /\ ReferencesHold /\ WholeInv
  BY TenancyAssumption DEF TenancyInit, UntouchedInv, ReferencesHold, WholeInv, Versions, Procs
<1>5. RaceInv
  <2>1. \A v \in Versions : by[v] = None /\ None \notin Procs
    BY TenancyAssumption DEF TenancyInit
  <2>2. \A p \in Procs : pc[p] = "start"
    BY DEF TenancyInit
  <2>3. schema \in {{}, {0, 1}, Versions}
    BY DEF TenancyInit
  <2>4. \A v \in schema : v \in Versions /\ \A u \in Versions : u < v => u \in schema
    BY <2>3 DEF Versions
  <2>. QED BY <2>1, <2>2, <2>4 DEF RaceInv, AtWork, Lost
<1>4. KeysInv
  <2>1. \A k \in Keys : keys[k].project = None /\ keys[k] = NoRow
    BY DEF TenancyInit, NoRow
  <2>2. None # "*"
    BY TenancyAssumption
  <2>. QED BY <2>1, <2>2, <1>1, PlanType DEF TenancyInit, KeysInv
<1>. QED BY <1>1, <1>2, <1>3, <1>4, <1>5 DEF TenancyInv

\* The tables and the processes are as before, but for positions before and
\* after the change a command makes.
LEMMA MoveOnly ==
    ASSUME TenancyInv, NEW p \in Procs,
           NEW w \in {"check", "body", "record", "openFailed", "opened", "up", "exited", "done", "dead"},
           Go(p, w),
           w \in {"opened", "up", "done"} => schema = Versions,
           w \in {"body", "record"} => AtWork(p) \/ at[p] \notin schema,
           w = "openFailed" => p \in unlucky' \/ (AtWork(p) /\ at[p] \in schema),
           ~Fresh(p) => w \in {"up", "exited", "done", "dead", "openFailed"},
           ddl' \in Procs \cup {None}, ddl' # None => pc'[ddl'] = "record",
           unlucky \subseteq unlucky', unlucky' \subseteq unlucky \cup {p},
           UNCHANGED <<backend, schema, projects, keys, quotas, functions, cronJobs, input, at, by, revoked>>
    PROVE  TenancyInv'
<1>1. TenancyTypeOK'
  BY DEF TenancyInv, TenancyTypeOK, Go
<1>2. MigratedInv'
  BY DEF TenancyInv, TenancyTypeOK, MigratedInv, Go
<1>3. KeysInv'
  <2>1. \A c \in Commands : Fresh(c)' => Fresh(c)
    BY DEF TenancyInv, TenancyTypeOK, Go, Fresh, Procs
  <2>. QED BY <2>1 DEF TenancyInv, KeysInv, In
<1>4. UntouchedInv' /\ ReferencesHold' /\ WholeInv'
  BY DEF TenancyInv, UntouchedInv, ReferencesHold, WholeInv
<1>5. RaceInv'
  <2>1. pc'[p] = w /\ \A q \in Procs \ {p} : pc'[q] = pc[q]
    BY DEF Go, TenancyInv, TenancyTypeOK
  <2>2. at[p] \in Versions /\ schema \subseteq Versions
    BY DEF TenancyInv, TenancyTypeOK
  <2>3. ASSUME at[p] \notin schema, NEW v \in schema PROVE ~(at[p] <= v)
    BY <2>2, <2>3 DEF TenancyInv, RaceInv, Versions
  <2>4. ASSUME NEW q \in Procs, AtWork(q)' \/ Lost(q)', NEW v \in schema, at[q] <= v
        PROVE  by[v] \in Procs
    <3>1. CASE q = p
      <4>1. AtWork(p) \/ Lost(p)
        BY <2>1, <2>3, <2>4, <3>1 DEF AtWork, Lost
      <4>. QED BY <2>4, <3>1, <4>1 DEF TenancyInv, RaceInv
    <3>2. CASE q # p
      <4>1. AtWork(q) \/ Lost(q)
        BY <2>1, <2>4, <3>2 DEF AtWork, Lost
      <4>. QED BY <2>4, <4>1 DEF TenancyInv, RaceInv
    <3>. QED BY <3>1, <3>2
  <2>5. ASSUME NEW q \in Procs, Lost(q)' PROVE at[q] \in schema
    BY <2>1, <2>5 DEF TenancyInv, RaceInv, Lost
  <2>6. ASSUME NEW v \in schema, Newest(v), by[v] \in Procs
        PROVE  ~Lost(by[v])' /\ (AtWork(by[v])' => at[by[v]] \notin schema)
    <3>1. ~Lost(by[v]) /\ (AtWork(by[v]) => at[by[v]] \notin schema)
      BY <2>6 DEF TenancyInv, RaceInv
    <3>2. CASE by[v] = p
      BY <2>1, <3>1, <3>2 DEF AtWork, Lost
    <3>3. CASE by[v] # p
      BY <2>1, <2>6, <3>1, <3>3 DEF AtWork, Lost
    <3>. QED BY <3>2, <3>3
  <2>7. \A v : Newest(v)' <=> Newest(v)
    BY DEF Newest
  <2>. QED BY <2>4, <2>5, <2>6, <2>7 DEF TenancyInv, RaceInv
<1>. QED BY <1>1, <1>2, <1>3, <1>4, <1>5 DEF TenancyInv

\* Versions, their authors and the places of the processes are as before.
LEMMA RaceKept ==
    ASSUME RaceInv, UNCHANGED <<schema, at, by, unlucky>>,
           \A q \in Procs : AtWork(q)' => AtWork(q),
           \A q \in Procs : Lost(q)' => Lost(q)
    PROVE  RaceInv'
BY DEF RaceInv, Newest

\* OpenPostgres begins with the migrations; the in-memory store has none.
LEMMA OpenStep ==
    ASSUME TenancyInv, NEW p \in Procs, Open(p)
    PROVE  TenancyInv'
<1>1. schema = Versions \/ backend = "postgres"
  BY TenancyAssumption DEF TenancyInv, TenancyTypeOK, UntouchedInv
<1>2. PICK w \in {"check", "opened"} : Go(p, w) /\ (w = "opened" => schema = Versions)
  BY <1>1 DEF Open
<1>3. ddl' # None => pc'[ddl'] = "record"
  BY <1>2 DEF Open, Go, TenancyInv, TenancyTypeOK, WholeInv
<1>4. Fresh(p)
  BY DEF Open, Fresh
<1>. QED BY <1>2, <1>3, <1>4, MoveOnly DEF Open, tables, history, TenancyInv, TenancyTypeOK

\* migrate passes a version only when it is applied.
LEMMA CheckStep ==
    ASSUME TenancyInv, NEW p \in Procs, Check(p)
    PROVE  TenancyInv'
<1>1. /\ at[p] \in Versions /\ pc[p] = "check" /\ Fresh(p)
      /\ UNCHANGED <<backend, schema, ddl, projects, keys, quotas, functions, cronJobs, input, by, unlucky, revoked>>
  BY DEF TenancyInv, TenancyTypeOK, Check, Fresh, tables, history
<1>5. ASSUME NEW w, Go(p, w) PROVE ddl' # None => pc'[ddl'] = "record"
  BY <1>1, <1>5 DEF Go, TenancyInv, TenancyTypeOK, WholeInv
<1>2. CASE at[p] \notin schema
  <2>1. Go(p, "body") /\ UNCHANGED at
    BY <1>2 DEF Check
  <2>. QED BY <1>1, <1>2, <1>5, <2>1, MoveOnly DEF TenancyInv, TenancyTypeOK
<1>3. CASE at[p] \in schema /\ at[p] + 1 \in Versions
  <2>1. at' = [at EXCEPT ![p] = @ + 1] /\ UNCHANGED pc
    BY <1>3 DEF Check
  <2>2. UNCHANGED <<backend, schema, ddl, projects, keys, quotas, functions, cronJobs, input, by, unlucky, revoked>>
    BY <1>1
  <2>3. TenancyTypeOK'
    BY <1>3, <2>1, <2>2 DEF TenancyInv, TenancyTypeOK
  <2>4. MigratedInv'
    <3>1. ASSUME NEW q \in Procs, NEW v \in Versions, v < at'[q] PROVE v \in schema
      <4>1. CASE q = p
        <5>1. v < at[p] \/ v = at[p]
          BY <1>1, <2>1, <3>1, <4>1 DEF TenancyInv, TenancyTypeOK, Versions
        <5>. QED BY <5>1, <1>3 DEF TenancyInv, MigratedInv
      <4>2. CASE q # p
        BY <2>1, <3>1, <4>2 DEF TenancyInv, TenancyTypeOK, MigratedInv
      <4>. QED BY <4>1, <4>2
    <3>. QED BY <3>1, <2>1, <2>2 DEF TenancyInv, MigratedInv
  <2>5. KeysInv' /\ UntouchedInv' /\ ReferencesHold' /\ WholeInv'
    BY <2>1, <2>2 DEF TenancyInv, KeysInv, UntouchedInv, ReferencesHold, WholeInv, In, Fresh
  <2>6. RaceInv'
    <3>1. \A q \in Procs : /\ (AtWork(q)' <=> AtWork(q)) /\ (Lost(q)' <=> Lost(q))
                           /\ AtWork(q) \/ Lost(q) => at'[q] = at[q]
      BY <1>1, <2>1, <2>2 DEF AtWork, Lost, TenancyInv, TenancyTypeOK
    <3>2. \A v : Newest(v)' <=> Newest(v)
      BY <2>2 DEF Newest
    <3>. QED BY <3>1, <3>2, <2>2 DEF TenancyInv, RaceInv
  <2>. QED BY <2>3, <2>4, <2>5, <2>6 DEF TenancyInv
<1>4. CASE at[p] \in schema /\ at[p] + 1 \notin Versions
  <2>1. Go(p, "opened") /\ UNCHANGED at
    BY <1>4 DEF Check
  <2>2. at[p] = 2
    BY <1>1, <1>4 DEF Versions
  <2>3. 0 \in schema /\ 1 \in schema /\ 2 \in schema
    BY <1>4, <2>2 DEF TenancyInv, MigratedInv, Versions
  <2>4. schema = Versions
    <3>1. \A v \in Versions : v \in schema
      BY <2>3 DEF Versions
    <3>. QED BY <3>1 DEF TenancyInv, TenancyTypeOK
  <2>. QED BY <1>1, <1>5, <2>1, <2>4, MoveOnly DEF TenancyInv, TenancyTypeOK
<1>. QED BY <1>2, <1>3, <1>4

\* The script of a migration shows nothing before its transaction commits.
LEMMA BodyStep ==
    ASSUME TenancyInv, NEW p \in Procs, Body(p)
    PROVE  TenancyInv'
<1>1. Go(p, "record") /\ Fresh(p) /\ AtWork(p)
  BY DEF Body, Fresh, AtWork
<1>2. ddl' = p /\ pc'[p] = "record"
  BY DEF Body, Go, TenancyInv, TenancyTypeOK
<1>. QED BY <1>1, <1>2, MoveOnly DEF Body, tables, history

\* A migration is recorded together with what it does; the second one inserts
\* every project that functions and jobs refer to, so the new foreign keys
\* hold.  The process that records it has the newest version, and goes on.
LEMMA CommitStep ==
    ASSUME TenancyInv, NEW p \in Procs, pc[p] = "record", ~Conflicts(p), Commit(p),
           NEW w \in {"check", "openFailed"}, Go(p, w), w = "openFailed" => p \in unlucky',
           unlucky \subseteq unlucky', unlucky' \subseteq unlucky \cup {p},
           ddl' \in Procs \cup {None}, ddl' # None => pc'[ddl'] = "record",
           UNCHANGED <<backend, keys, quotas, functions, cronJobs, input, at, revoked>>
    PROVE  TenancyInv'
<1>1. /\ at[p] \in Versions /\ at[p] \notin schema /\ Fresh(p)
      /\ schema' = schema \cup {at[p]} /\ by' = [by EXCEPT ![at[p]] = p]
      /\ projects' = IF at[p] = 2 THEN projects \cup Backfill ELSE projects
  BY DEF TenancyInv, TenancyTypeOK, Fresh, Conflicts, Commit
<1>2. Backfill \subseteq Projects
  BY TenancyAssumption DEF TenancyInv, TenancyTypeOK, Backfill
<1>3. TenancyTypeOK'
  BY <1>1, <1>2 DEF TenancyInv, TenancyTypeOK, Go
<1>4. MigratedInv'
  BY <1>1 DEF TenancyInv, TenancyTypeOK, MigratedInv, Go
<1>5. UntouchedInv' /\ WholeInv'
  BY <1>1 DEF TenancyInv, TenancyTypeOK, UntouchedInv, WholeInv
<1>6. KeysInv'
  <2>1. \A c \in Commands : Fresh(c)' => Fresh(c)
    BY <1>1 DEF TenancyInv, TenancyTypeOK, Go, Fresh, Procs
  <2>. QED BY <2>1 DEF TenancyInv, KeysInv, In
<1>7. ReferencesHold'
  <2>1. CASE 2 \in schema
    <3>1. projects \subseteq projects'
      BY <1>1
    <3>. QED BY <2>1, <3>1 DEF TenancyInv, ReferencesHold
  <2>2. CASE 2 \notin schema /\ at[p] = 2
    <3>1. \A k \in Keys : keys[k].project = None
      BY <2>2 DEF TenancyInv, UntouchedInv, NoRow
    <3>2. (\A n \in Names : functions[n] \in projects' \cup {None}) /\ cronJobs \subseteq projects'
      BY <1>1, <2>2 DEF Backfill
    <3>. QED BY <2>2, <3>1, <3>2 DEF TenancyInv, UntouchedInv, ReferencesHold
  <2>3. CASE 2 \notin schema /\ at[p] # 2
    BY <2>3, <1>1 DEF ReferencesHold
  <2>. QED BY <2>1, <2>2, <2>3
<1>8. RaceInv'
  <2>1. /\ pc'[p] = w /\ \A q \in Procs \ {p} : pc'[q] = pc[q]
        /\ by'[at[p]] = p /\ \A v \in schema : by'[v] = by[v]
        /\ schema \subseteq Versions /\ \A q \in Procs : at[q] \in Versions
    BY <1>1 DEF Go, TenancyInv, TenancyTypeOK
  <2>2. \A v \in schema : v < at[p]
    BY <1>1, <2>1 DEF TenancyInv, RaceInv, Versions
  <2>3. \A u \in Versions : u < at[p] => u \in schema
    BY DEF TenancyInv, MigratedInv
  <2>4. \A v \in schema' : \A u \in Versions : u < v => u \in schema'
    BY <1>1, <2>3 DEF TenancyInv, RaceInv
  <2>5. ~Lost(p)' /\ ~AtWork(p)'
    BY <2>1 DEF Lost, AtWork
  <2>6. \A q \in Procs \ {p} : (AtWork(q)' => AtWork(q)) /\ (Lost(q)' => Lost(q))
    BY <2>1 DEF AtWork, Lost
  <2>7. ASSUME NEW q \in Procs, AtWork(q)' \/ Lost(q)', NEW v \in schema', at[q] <= v
        PROVE  by'[v] \in Procs
    <3>1. q # p /\ (AtWork(q) \/ Lost(q))
      BY <2>5, <2>6, <2>7
    <3>2. CASE v = at[p]
      BY <2>1, <3>2
    <3>3. CASE v \in schema
      BY <2>1, <2>7, <3>1, <3>3 DEF TenancyInv, RaceInv
    <3>. QED BY <1>1, <3>2, <3>3
  <2>8. \A q \in Procs : Lost(q)' => at[q] \in schema'
    BY <1>1, <2>5, <2>6 DEF TenancyInv, RaceInv
  <2>9. ASSUME NEW v \in schema', Newest(v)' PROVE v = at[p]
    <3>1. at[p] <= v
      BY <1>1, <2>9 DEF Newest
    <3>2. v \notin schema
      <4>. SUFFICES ASSUME v \in schema PROVE FALSE
        OBVIOUS
      <4>1. v \in 0..2 /\ at[p] \in 0..2 /\ v < at[p]
        BY <1>1, <2>1, <2>2 DEF Versions
      <4>. QED BY <3>1, <4>1
    <3>. QED BY <1>1, <3>2
  <2>. QED BY <2>1, <2>4, <2>5, <2>7, <2>8, <2>9 DEF RaceInv
<1>. QED BY <1>3, <1>4, <1>5, <1>6, <1>7, <1>8 DEF TenancyInv

\* The insert into cfunc_schema succeeds, or comes too late.
LEMMA RecordStep ==
    ASSUME TenancyInv, NEW p \in Procs, Record(p)
    PROVE  TenancyInv'
<1>1. /\ pc[p] = "record" /\ AtWork(p) /\ Fresh(p) /\ ddl' = None
      /\ UNCHANGED <<backend, keys, quotas, functions, cronJobs, input, at, unlucky, revoked>>
  BY DEF Record, AtWork, Fresh
<1>2. CASE Conflicts(p)
  <2>1. Go(p, "openFailed") /\ at[p] \in schema /\ UNCHANGED <<schema, projects, by>>
    BY <1>2 DEF Record, Conflicts
  <2>. QED BY <1>1, <2>1, MoveOnly
<1>3. CASE ~Conflicts(p)
  <2>1. Go(p, "check") /\ Commit(p)
    BY <1>3 DEF Record
  <2>. QED BY <1>1, <1>3, <2>1, CommitStep
<1>. QED BY <1>2, <1>3

\* A process that rolls back has no transaction, and nobody else's changes.
LEMMA RolledBack ==
    ASSUME TenancyInv, NEW p \in Procs, NEW w, Go(p, w), ddl' = Rollback(p)
    PROVE  ddl' \in Procs \cup {None} /\ (ddl' # None => pc'[ddl'] = "record")
BY DEF TenancyInv, TenancyTypeOK, WholeInv, Go, Rollback

\* migrate returns an error of the database: nothing is changed, or all of it.
LEMMA DatabaseFailsStep ==
    ASSUME TenancyInv, NEW p \in Procs, DatabaseFails(p)
    PROVE  TenancyInv'
<1>1. /\ Go(p, "openFailed") /\ Fresh(p) /\ unlucky' = unlucky \cup {p} /\ ddl' = Rollback(p)
      /\ UNCHANGED <<backend, keys, quotas, functions, cronJobs, input, at, revoked>>
  BY DEF DatabaseFails, Fresh
<1>2. ddl' \in Procs \cup {None} /\ (ddl' # None => pc'[ddl'] = "record")
  BY <1>1, RolledBack
<1>3. CASE UNCHANGED <<schema, projects, by>>
  BY <1>1, <1>2, <1>3, MoveOnly
<1>4. CASE pc[p] = "record" /\ ~Conflicts(p) /\ Commit(p)
  BY <1>1, <1>2, <1>4, CommitStep
<1>. QED BY <1>3, <1>4 DEF DatabaseFails

\* A crash rolls the open transaction back.
LEMMA TenancyCrashStep ==
    ASSUME TenancyInv, NEW p \in Procs, Crash(p)
    PROVE  TenancyInv'
<1>1. Go(p, "dead") /\ ddl' = Rollback(p)
  BY DEF Crash
<1>2. ddl' \in Procs \cup {None} /\ (ddl' # None => pc'[ddl'] = "record")
  BY <1>1, RolledBack
<1>. QED BY <1>1, <1>2, MoveOnly DEF Crash, tables, history

\* An audit entry is written after the change.
LEMMA AuditStep ==
    ASSUME TenancyInv, NEW c \in Commands, Audit(c)
    PROVE  TenancyInv'
<1>1. Go(c, "done") /\ c \in Procs /\ schema = Versions /\ ~Fresh(c)
  BY DEF Audit, Procs, TenancyInv, MigratedInv, Fresh
<1>2. ddl' # None => pc'[ddl'] = "record"
  BY <1>1 DEF Audit, Go, TenancyInv, TenancyTypeOK, WholeInv
<1>. QED BY <1>1, <1>2, MoveOnly DEF Audit, tables, history, TenancyInv, TenancyTypeOK

\* What is left to show of a command's change: where it goes, that the keys'
\* rows keep their life cycle, and that the references hold.
LEMMA ChangeStep ==
    ASSUME TenancyInv, NEW c \in Commands, Change(c)
    PROVE  TenancyInv'
<1>. DEFINE Where == {"audit", "failed", "done"}
<1>1. /\ pc[c] = "opened" /\ c \in Procs /\ schema = Versions /\ 2 \in schema
      /\ UNCHANGED <<backend, schema, ddl, functions, input, at, by, unlucky>>
  BY DEF Change, Procs, TenancyInv, MigratedInv, Versions, history
<1>2. ASSUME NEW w \in Where, Go(c, w),
             projects' \subseteq Projects,
             keys' \in [Keys -> [project : Projects \cup {None}, scopes : SUBSET Scopes]],
             quotas' \in [Projects -> Limits \cup {None}],
             cronJobs' \subseteq Projects, revoked' \subseteq Keys, KeysInv', ReferencesHold'
      PROVE  TenancyInv'
  <2>1. TenancyTypeOK'
    BY <1>1, <1>2 DEF TenancyInv, TenancyTypeOK, Go
  <2>2. MigratedInv' /\ UntouchedInv' /\ WholeInv'
    BY <1>1, <1>2 DEF TenancyInv, TenancyTypeOK, MigratedInv, UntouchedInv, WholeInv, Go
  <2>3. RaceInv'
    <3>1. \A q \in Procs : (AtWork(q)' => AtWork(q)) /\ (Lost(q)' => Lost(q))
      BY <1>1, <1>2 DEF AtWork, Lost, Go, TenancyInv, TenancyTypeOK
    <3>. QED BY <1>1, <3>1, RaceKept DEF TenancyInv
  <2>. QED BY <2>1, <2>2, <2>3, <1>2 DEF TenancyInv
<1>3. ASSUME NEW w \in Where, Go(c, w)
      PROVE  /\ ~Fresh(c)'
             /\ \A d \in Commands : Fresh(d)' => d # c /\ Fresh(d)
  BY <1>1, <1>3 DEF TenancyInv, TenancyTypeOK, Go, Fresh, Procs
<1>4. ASSUME NEW w \in Where, Go(c, w), UNCHANGED <<projects, keys, quotas, cronJobs, revoked>>
      PROVE  TenancyInv'
  <2>1. KeysInv'
    BY <1>1, <1>3, <1>4 DEF TenancyInv, KeysInv, In
  <2>2. ReferencesHold'
    BY <1>1, <1>4 DEF TenancyInv, ReferencesHold
  <2>. QED BY <1>2, <1>4, <2>1, <2>2 DEF TenancyInv, TenancyTypeOK
<1>5. CASE ProjectCreate(c)
  <2>1. In(c).op = "project.create" /\ In(c).project \in Projects
    BY <1>5, PlanType DEF ProjectCreate, TenancyInv
  <2>2. CASE Taken(In(c).project)
    BY <1>4, <1>5, <2>2 DEF ProjectCreate
  <2>3. CASE ~Taken(In(c).project)
    <3>1. /\ projects' = projects \cup {In(c).project} /\ Go(c, "audit")
          /\ UNCHANGED <<keys, quotas, cronJobs, revoked>>
      BY <1>5, <2>3 DEF ProjectCreate
    <3>2. KeysInv'
      BY <1>1, <1>3, <3>1 DEF TenancyInv, KeysInv, In
    <3>3. ReferencesHold'
      BY <1>1, <3>1 DEF TenancyInv, ReferencesHold
    <3>. QED BY <1>2, <2>1, <3>1, <3>2, <3>3 DEF TenancyInv, TenancyTypeOK
  <2>. QED BY <2>2, <2>3
<1>6. CASE ProjectDelete(c)
  <2>. DEFINE p == In(c).project
  <2>1. In(c).op = "project.delete" /\ p \in Projects
    BY <1>6, PlanType DEF ProjectDelete, TenancyInv
  <2>2. CASE Restricted(p)
    BY <1>4, <1>6, <2>2 DEF ProjectDelete
  <2>3. CASE ~Restricted(p)
    <3>. HIDE DEF p
    <3>1. Go(c, "audit") /\ DeleteProject(p) /\ UNCHANGED cronJobs
      BY <1>6, <2>3 DEF ProjectDelete, p
    <3>2. /\ Cascades(p) \subseteq Keys
          /\ projects' = projects \ {p} /\ revoked' = revoked \cup Cascades(p)
      BY <3>1 DEF DeleteProject, Cascades
    <3>3. \A k \in Keys : keys'[k] = IF k \in Cascades(p) THEN NoRow ELSE keys[k]
      BY <3>1 DEF DeleteProject
    <3>4. keys' \in [Keys -> [project : Projects \cup {None}, scopes : SUBSET Scopes]]
      BY <3>1 DEF DeleteProject, TenancyInv, TenancyTypeOK, NoRow
    <3>5. /\ quotas' \in [Projects -> Limits \cup {None}]
          /\ backend = "postgres" => \A q \in Projects : quotas'[q] = IF q = p THEN None ELSE quotas[q]
      BY <3>1, <2>1 DEF DeleteProject, TenancyInv, TenancyTypeOK
    <3>6. KeysInv'
      <4>1. \A k \in Keys : keys'[k].project # "*" /\ (keys'[k].project = None => keys'[k] = NoRow)
        BY <3>3, NoRowProject DEF TenancyInv, KeysInv
      <4>2. \A k \in revoked' : keys'[k] = NoRow
        BY <3>2, <3>3 DEF TenancyInv, TenancyTypeOK, KeysInv
      <4>3. ASSUME NEW d \in Commands, In(d).op = "key.create", Fresh(d)
            PROVE  keys'[In(d).key] = NoRow /\ In(d).key \notin revoked'
        <5>1. In(d).key \in Keys /\ keys[In(d).key] = NoRow /\ In(d).key \notin revoked
          BY <4>3, PlanType DEF TenancyInv, KeysInv
        <5>2. In(d).key \notin Cascades(p)
          BY <5>1, <2>1, TenancyAssumption DEF Cascades, NoRow, p
        <5>. QED BY <5>1, <5>2, <3>2, <3>3
      <4>. QED BY <4>1, <4>2, <4>3, <1>1, <1>3, <3>1 DEF KeysInv, In
    <3>7. ReferencesHold'
      <4>. SUFFICES ASSUME backend = "postgres"
                    PROVE  /\ \A k \in Keys : keys'[k].project \in projects' \cup {None}
                           /\ \A q \in Projects : quotas'[q] # None => q \in projects'
                           /\ \A n \in Names : functions[n] \in projects' \cup {None}
                           /\ cronJobs \subseteq projects'
        BY <1>1, <3>1 DEF ReferencesHold
      <4>1. \A k \in Keys : keys'[k].project \in projects' \cup {None}
        BY <1>1, <3>2, <3>3 DEF TenancyInv, ReferencesHold, Cascades, NoRow
      <4>2. \A q \in Projects : quotas'[q] # None => q \in projects'
        BY <1>1, <3>2, <3>5 DEF TenancyInv, ReferencesHold
      <4>3. (\A n \in Names : functions[n] \in projects' \cup {None}) /\ cronJobs \subseteq projects'
        BY <1>1, <2>3, <3>2 DEF TenancyInv, ReferencesHold, Restricted
      <4>. QED BY <4>1, <4>2, <4>3
    <3>. QED BY <1>2, <3>1, <3>2, <3>4, <3>5, <3>6, <3>7 DEF TenancyInv, TenancyTypeOK
  <2>. QED BY <2>2, <2>3
<1>7. CASE KeyCreate(c)
  <2>. DEFINE k == In(c).key
  <2>1. /\ In(c).op = "key.create" /\ k \in Keys /\ In(c).project \in Projects \cup {"*"}
        /\ In(c).scopes \subseteq Scopes
    BY <1>7, PlanType DEF KeyCreate, TenancyInv
  <2>2. CASE Reserved(In(c).project) \/ ~References(In(c).project)
    BY <1>4, <1>7, <2>2 DEF KeyCreate
  <2>3. CASE ~Reserved(In(c).project) /\ References(In(c).project)
    <3>1. /\ Go(c, "audit") /\ UNCHANGED <<projects, quotas, cronJobs, revoked>>
          /\ keys' = [keys EXCEPT ![k] = [project |-> In(c).project, scopes |-> In(c).scopes]]
      BY <1>7, <2>3 DEF KeyCreate, CreateAPIKey
    <3>2. In(c).project \in Projects /\ In(c).project # "*"
      BY <2>1, <2>3 DEF Reserved
    <3>3. keys' \in [Keys -> [project : Projects \cup {None}, scopes : SUBSET Scopes]]
      BY <2>1, <3>1, <3>2 DEF TenancyInv, TenancyTypeOK
    <3>4. /\ \A j \in Keys \ {k} : keys'[j] = keys[j]
          /\ keys'[k].project = In(c).project
      BY <2>1, <3>1 DEF TenancyInv, TenancyTypeOK
    <3>5. k \notin revoked
      BY <1>1, <2>1 DEF TenancyInv, KeysInv, Fresh
    <3>6. \A d \in Commands \ {c} : In(d).op = "key.create" => In(d).key \in Keys \ {k}
      BY <2>1, FreshKeys, PlanType DEF TenancyInv, TenancyTypeOK, In
    <3>. HIDE DEF k
    <3>7. KeysInv'
      <4>1. \A j \in Keys : keys'[j].project # "*" /\ (keys'[j].project = None => keys'[j] = NoRow)
        BY <3>2, <3>4, TenancyAssumption DEF TenancyInv, KeysInv
      <4>2. \A j \in revoked' : keys'[j] = NoRow
        BY <3>1, <3>4, <3>5 DEF TenancyInv, TenancyTypeOK, KeysInv
      <4>3. ASSUME NEW d \in Commands \ {c}, In(d).op = "key.create", Fresh(d)
            PROVE  keys'[In(d).key] = NoRow /\ In(d).key \notin revoked
        BY <4>3, <3>4, <3>6 DEF TenancyInv, KeysInv
      <4>. QED BY <4>1, <4>2, <4>3, <1>1, <1>3, <3>1 DEF KeysInv, In
    <3>8. ReferencesHold'
      BY <1>1, <2>3, <3>1, <3>4 DEF TenancyInv, ReferencesHold, References
    <3>. QED BY <1>2, <3>1, <3>3, <3>7, <3>8 DEF TenancyInv, TenancyTypeOK
  <2>. QED BY <2>2, <2>3
<1>8. CASE KeyRevoke(c)
  <2>. DEFINE k == In(c).key
  <2>1. /\ In(c).op = "key.revoke" /\ k \in Keys
    BY <1>8, PlanType DEF KeyRevoke, TenancyInv
  <2>2. /\ Go(c, "audit") /\ UNCHANGED <<projects, quotas, cronJobs>>
        /\ keys' = [keys EXCEPT ![k] = NoRow]
        /\ revoked' = IF keys[k] # NoRow THEN revoked \cup {k} ELSE revoked
    BY <1>8 DEF KeyRevoke, DeleteAPIKey
  <2>. HIDE DEF k
  <2>3. keys' \in [Keys -> [project : Projects \cup {None}, scopes : SUBSET Scopes]]
    BY <2>2 DEF TenancyInv, TenancyTypeOK, NoRow
  <2>4. \A j \in Keys : keys'[j] = IF j = k THEN NoRow ELSE keys[j]
    BY <2>1, <2>2 DEF TenancyInv, TenancyTypeOK
  <2>5. KeysInv'
    <3>1. \A j \in Keys : keys'[j].project # "*" /\ (keys'[j].project = None => keys'[j] = NoRow)
      BY <2>4, NoRowProject DEF TenancyInv, KeysInv
    <3>2. \A j \in revoked' : keys'[j] = NoRow
      BY <2>2, <2>4, <2>1 DEF TenancyInv, TenancyTypeOK, KeysInv
    <3>3. ASSUME NEW d \in Commands, In(d).op = "key.create", Fresh(d)
          PROVE  keys'[In(d).key] = NoRow /\ In(d).key \notin revoked'
      <4>1. In(d).key \in Keys /\ keys[In(d).key] = NoRow /\ In(d).key \notin revoked
        BY <3>3, PlanType DEF TenancyInv, KeysInv
      <4>. QED BY <4>1, <2>2, <2>4
    <3>. QED BY <3>1, <3>2, <3>3, <1>1, <1>3, <2>2 DEF KeysInv, In
  <2>6. ReferencesHold'
    BY <1>1, <2>2, <2>4 DEF TenancyInv, ReferencesHold, NoRow
  <2>. QED BY <1>2, <2>1, <2>2, <2>3, <2>5, <2>6 DEF TenancyInv, TenancyTypeOK
<1>9. CASE QuotaSet(c)
  <2>1. In(c).op = "quota.set" /\ In(c).project \in Projects /\ In(c).value \in Limits
    BY <1>9, PlanType DEF QuotaSet, TenancyInv
  <2>2. CASE ~References(In(c).project)
    BY <1>4, <1>9, <2>2 DEF QuotaSet
  <2>3. CASE References(In(c).project)
    <3>1. /\ Go(c, "audit") /\ UNCHANGED <<projects, keys, cronJobs, revoked>>
          /\ quotas' = [quotas EXCEPT ![In(c).project] = In(c).value]
      BY <1>9, <2>3 DEF QuotaSet, SetQuota
    <3>2. KeysInv'
      BY <1>1, <1>3, <3>1 DEF TenancyInv, KeysInv, In
    <3>3. ReferencesHold'
      BY <1>1, <2>1, <2>3, <3>1 DEF TenancyInv, TenancyTypeOK, ReferencesHold, References
    <3>. QED BY <1>2, <2>1, <3>1, <3>2, <3>3 DEF TenancyInv, TenancyTypeOK
  <2>. QED BY <2>2, <2>3
<1>10. CASE ListRows(c)
  BY <1>4, <1>10 DEF ListRows
<1>11. CASE CronPut(c) \/ CronDelete(c)
  <2>1. In(c).project \in Projects
    BY <1>11, PlanType DEF CronPut, CronDelete, TenancyInv
  <2>2. /\ \E w \in Where : Go(c, w)
        /\ cronJobs' \subseteq cronJobs \cup {p \in Projects : References(p)}
        /\ UNCHANGED <<projects, keys, quotas, revoked>>
    BY <1>11, <2>1 DEF CronPut, CronDelete
  <2>3. KeysInv'
    BY <1>1, <1>3, <2>2 DEF TenancyInv, KeysInv, In
  <2>4. ReferencesHold'
    BY <1>1, <2>2 DEF TenancyInv, ReferencesHold, References
  <2>. QED BY <1>2, <2>2, <2>3, <2>4 DEF TenancyInv, TenancyTypeOK
<1>. QED BY <1>5, <1>6, <1>7, <1>8, <1>9, <1>10, <1>11 DEF Change

\* Rows and audit entries that requests at the admin port write.
LEMMA AdminTenancy ==
    ASSUME TenancyInv, NEW a \in Admins, AdminRequest(a)
    PROVE  TenancyInv'
<1>1. /\ UNCHANGED <<backend, schema, ddl, projects, keys, quotas, cronJobs, pc, input, at, by, unlucky, revoked>>
      /\ schema = Versions
  BY DEF AdminRequest, Up, TenancyInv, MigratedInv, Procs, history
<1>2. PICK n \in Names, p \in Projects :
         \/ functions' = functions
         \/ functions' = [functions EXCEPT ![n] = None]
         \/ References(p) /\ functions' = [functions EXCEPT ![n] = p]
  <2>1. PICK r \in AdminInputs :
           \/ UNCHANGED functions
           \/ RegisterFunction(a, r) \/ UnregisterFunction(a, r) \/ Forward(a, r)
    BY DEF AdminRequest
  <2>2. r.name \in Names /\ r.project \in Projects
    BY AccessAssumption
  <2>. QED BY <2>1, <2>2 DEF RegisterFunction, UnregisterFunction, Forward
<1>3. functions' \in [Names -> Projects \cup {None}]
  BY <1>2 DEF TenancyInv, TenancyTypeOK
<1>4. TenancyTypeOK'
  BY <1>1, <1>3 DEF TenancyInv, TenancyTypeOK
<1>5. MigratedInv' /\ UntouchedInv' /\ KeysInv' /\ WholeInv'
  BY <1>1 DEF TenancyInv, MigratedInv, UntouchedInv, KeysInv, WholeInv, In, Fresh
<1>6. RaceInv'
  BY <1>1, RaceKept DEF TenancyInv, AtWork, Lost
<1>7. ReferencesHold'
  BY <1>1, <1>2 DEF TenancyInv, TenancyTypeOK, ReferencesHold, References
<1>. QED BY <1>4, <1>5, <1>6, <1>7 DEF TenancyInv

\* Steps that leave the tables and processes alone.
LEMMA TenancyStutter ==
    ASSUME TenancyInv, UNCHANGED tenancyVars
    PROVE  TenancyInv'
<1>1. RaceInv'
  BY RaceKept DEF TenancyInv, AtWork, Lost, tenancyVars, history
<1>2. UNCHANGED <<backend, schema, ddl, projects, keys, quotas, functions, cronJobs, pc, input, at, by, unlucky, revoked>>
  BY DEF tenancyVars, tables, history
<1>3. TenancyTypeOK' /\ MigratedInv' /\ UntouchedInv' /\ KeysInv' /\ ReferencesHold' /\ WholeInv'
  BY <1>2 DEF TenancyInv, TenancyTypeOK, MigratedInv, UntouchedInv, KeysInv, ReferencesHold, WholeInv, In, Fresh
<1>. QED BY <1>1, <1>3 DEF TenancyInv

\* The gateway opens the database as a command does, and then listens.
LEMMA GatewayTenancy ==
    ASSUME TenancyInv, GatewayOpens \/ GatewayListens
    PROVE  TenancyInv'
<1>1. Gateway \in Procs
  BY DEF Procs
<1>2. CASE GatewayOpens /\ MayListen
  BY <1>1, <1>2, OpenStep DEF GatewayOpens
<1>3. CASE GatewayOpens /\ ~MayListen
  <2>1. Go(Gateway, "exited") /\ Fresh(Gateway)
    BY <1>3 DEF GatewayOpens, Fresh
  <2>2. ddl' # None => pc'[ddl'] = "record"
    BY <1>1, <1>3, <2>1 DEF GatewayOpens, Go, TenancyInv, TenancyTypeOK, WholeInv
  <2>. QED BY <1>1, <1>3, <2>1, <2>2, MoveOnly DEF GatewayOpens, tables, history, TenancyInv, TenancyTypeOK
<1>4. CASE GatewayListens
  <2>1. schema = Versions /\ Fresh(Gateway)
    BY <1>1, <1>4 DEF GatewayListens, TenancyInv, MigratedInv, Fresh
  <2>2. \E w \in {"up", "exited"} : Go(Gateway, w)
    BY <1>4 DEF GatewayListens
  <2>3. ddl' # None => pc'[ddl'] = "record"
    BY <1>1, <1>4, <2>2 DEF GatewayListens, Go, TenancyInv, TenancyTypeOK, WholeInv
  <2>. QED BY <1>1, <1>4, <2>1, <2>2, <2>3, MoveOnly DEF GatewayListens, tables, history, TenancyInv, TenancyTypeOK
<1>. QED BY <1>2, <1>3, <1>4

\* TenancyInv is inductive: every step of processes, admin requests and calls
\* preserves it.
LEMMA NextTenancy == TenancyInv /\ [Next]_vars => TenancyInv'
<1>. SUFFICES ASSUME TenancyInv, [Next]_vars PROVE TenancyInv'
  OBVIOUS
<1>1. CASE GatewayOpens \/ GatewayListens
  BY <1>1, GatewayTenancy
<1>2. ASSUME NEW p \in Procs, ProcStep(p) PROVE TenancyInv'
  BY <1>2, OpenStep, CheckStep, BodyStep, RecordStep, DatabaseFailsStep, ChangeStep, AuditStep DEF ProcStep
<1>3. ASSUME NEW p \in Procs, ProcCrash(p) PROVE TenancyInv'
  BY <1>3, TenancyCrashStep DEF ProcCrash
<1>4. ASSUME NEW a \in Admins, AdminRequest(a) PROVE TenancyInv'
  BY <1>4, AdminTenancy
<1>5. ASSUME NEW c \in Calls, CallStep(c) PROVE TenancyInv'
  BY <1>5, TenancyStutter DEF CallStep, Arrive, APIKeyAuth, Route, Invoke
<1>6. CASE UNCHANGED vars
  BY <1>6, TenancyStutter DEF vars
<1>. QED BY <1>1, <1>2, <1>3, <1>4, <1>5, <1>6 DEF Next

-----------------------------------------------------------------------------
\* No call has arrived at the start.
LEMMA InitCalls == Init => CallInv
<1>. SUFFICES ASSUME Init PROVE CallInv
  OBVIOUS
<1>1. TenancyTypeOK
  BY InitTenancy DEF Init, TenancyInv
<1>2. TypeOK
  BY <1>1, AccessAssumption DEF Init, TypeOK, TenancyInv
<1>. QED BY <1>2 DEF Init, CallInv, CallsStayInProject

\* Steps of processes: tables change, and revoked grows; a gateway that is up
\* stays up, and its cache is only loaded before it is.
LEMMA ProcessCalls ==
    ASSUME CallInv, TenancyInv, TenancyInv',
           UNCHANGED <<configVars, callVars, status, moved>>,
           revoked \subseteq revoked', Up => Up' /\ UNCHANGED cache,
           cache' \in [Names -> Projects \cup {None}]
    PROVE  CallInv'
<1>1. TypeOK'
  BY DEF CallInv, TenancyInv, TypeOK, configVars, callVars
<1>2. UNCHANGED <<guarded, call, where, id, project, served, deadKeys, moved>>
  BY DEF configVars, callVars
<1>3. \A c \in Calls : Authenticated(c)' <=> Authenticated(c)
  BY <1>2 DEF Authenticated
<1>4. \A c \in Calls : where[c] = "routed" => (RoutedHome(c)' <=> RoutedHome(c))
  BY <1>2 DEF RoutedHome, CallInv
<1>5. CallsStayInProject'
  BY <1>2 DEF CallInv, CallsStayInProject
<1>. QED BY <1>1, <1>2, <1>3, <1>4, <1>5 DEF CallInv

\* A step of the calls leaves everything else alone.
LEMMA ArriveStep ==
    ASSUME CallInv, TenancyInv, NEW c \in Calls, Arrive(c)
    PROVE  CallInv'
<1>1. PICK i \in CallInputs : call' = [call EXCEPT ![c] = i]
  BY DEF Arrive
<1>2. /\ UNCHANGED <<guarded, pc, revoked, cache, id, project, served, moved>>
      /\ where' = [where EXCEPT ![c] = "arrived"] /\ where[c] = "new" /\ Up
      /\ deadKeys' = [deadKeys EXCEPT ![c] = revoked]
  BY DEF Arrive, To, tenancyVars, configVars
<1>3. TypeOK'
  BY <1>1, <1>2 DEF Arrive, CallInv, TypeOK, TenancyTypeOK, tenancyVars, tables, history, configVars
<1>4. \A d \in Calls \ {c} : where'[d] = where[d] /\ deadKeys'[d] = deadKeys[d] /\ call'[d] = call[d]
  BY <1>1, <1>2 DEF CallInv, TypeOK
<1>5. where'[c] = "arrived" /\ deadKeys'[c] = revoked /\ call'[c] \in CallInputs
  BY <1>1, <1>2 DEF CallInv, TypeOK
<1>6. \A d \in Calls : Authenticated(d)' <=> Authenticated(d)
  BY <1>2 DEF Authenticated
<1>7. \A d \in Calls \ {c} : RoutedHome(d)' <=> RoutedHome(d)
  BY <1>2, <1>4 DEF RoutedHome
<1>8. CallsStayInProject' /\ Up'
  BY <1>2 DEF CallInv, CallsStayInProject, Up
<1>9. ASSUME NEW d \in Calls
      PROVE  /\ where'[d] # "new" => call'[d] \in CallInputs
             /\ deadKeys'[d] \subseteq revoked'
             /\ served'[d] # None => where'[d] = "200"
             /\ guarded' /\ where'[d] \in {"authed", "routed", "200"} => Authenticated(d)'
             /\ guarded' /\ where'[d] = "routed" => RoutedHome(d)'
             /\ guarded' /\ call'[d].token \in deadKeys'[d] => where'[d] \in {"new", "arrived", "401"}
  <2>1. CASE d = c
    BY <1>2, <1>5, <2>1 DEF CallInv
  <2>2. CASE d # c
    BY <1>2, <1>4, <1>6, <1>7, <2>2 DEF CallInv
  <2>. QED BY <2>1, <2>2
<1>. QED BY <1>3, <1>8, <1>9 DEF CallInv

\* What a call is given by APIKeyAuth: the admin's identity, or the one of a
\* key that has a row.
LEMMA ResolvedIdentity ==
    ASSUME TypeOK, TenancyInv, NEW c \in Calls, call[c] \in CallInputs, NEW i \in Resolved(c), i # Nobody
    PROVE  \/ i = AdminIdentity
           \/ /\ call[c].token \in Keys /\ keys[call[c].token] # NoRow
              /\ i \in [key : Keys, project : Projects, scopes : SUBSET Scopes]
              /\ i.project # "*"
<1>1. call[c].token \in Keys \cup {Secret, None}
  BY AccessAssumption DEF TypeOK
<1>2. CASE call[c].token \in {Secret, None}
  BY <1>2, AccessAssumption DEF Resolved
<1>3. CASE call[c].token \in Keys
  <2>. DEFINE k == call[c].token
  <2>1. i = LookupAPIKey(k)
    BY <1>3, AccessAssumption, TenancyAssumption DEF Resolved
  <2>2. /\ keys[k] # NoRow
        /\ i = [key |-> k, project |-> keys[k].project, scopes |-> keys[k].scopes]
    BY <2>1 DEF LookupAPIKey
  <2>3. keys[k] \in [project : Projects \cup {None}, scopes : SUBSET Scopes] /\ keys[k].project # "*"
    BY <1>3 DEF TenancyInv, TenancyTypeOK, KeysInv
  <2>4. keys[k].project # None
    BY <1>3, <2>2 DEF TenancyInv, KeysInv
  <2>. QED BY <1>3, <2>2, <2>3, <2>4
<1>. QED BY <1>1, <1>2, <1>3

\* APIKeyAuth lets nobody pass whose key has no row, or lacks the scope.
LEMMA APIKeyAuthStep ==
    ASSUME CallInv, TenancyInv, NEW c \in Calls, APIKeyAuth(c)
    PROVE  CallInv'
<1>. DEFINE Idents == {Nobody, AdminIdentity} \cup [key : Keys, project : Projects, scopes : SUBSET Scopes]
<1>1. /\ UNCHANGED <<guarded, pc, revoked, cache, call, project, served, deadKeys, moved>>
      /\ where[c] = "arrived" /\ Up /\ call[c] \in CallInputs
  BY DEF APIKeyAuth, tenancyVars, configVars, CallInv
<1>2. PICK w \in {"authed", "401", "403"}, i \in Idents :
         /\ where' = [where EXCEPT ![c] = w] /\ id' = [id EXCEPT ![c] = i]
         /\ guarded /\ w = "authed" =>
               /\ i \in Resolved(c) /\ i # Nobody /\ HasScope(i, "invoke")
         /\ guarded /\ w # "401" => i \in Resolved(c) /\ i # Nobody
  <2>1. id = [id EXCEPT ![c] = id[c]] /\ id[c] \in Idents
    BY DEF CallInv, TypeOK
  <2>2. CASE ~guarded
    BY <2>1, <2>2 DEF APIKeyAuth, To
  <2>3. CASE guarded
    <3>1. PICK i \in Resolved(c) :
             IF i = Nobody THEN To(c, "401") /\ UNCHANGED id
             ELSE Identify(c, i) /\ To(c, IF HasScope(i, "invoke") THEN "authed" ELSE "403")
      BY <2>3 DEF APIKeyAuth
    <3>2. CASE i = Nobody
      BY <2>1, <3>1, <3>2 DEF To
    <3>3. CASE i # Nobody
      <4>1. i \in Idents
        BY <1>1, <3>3, ResolvedIdentity DEF CallInv
      <4>. QED BY <3>1, <3>3, <4>1 DEF To, Identify
    <3>. QED BY <3>2, <3>3
  <2>. QED BY <2>2, <2>3
<1>. HIDE DEF Idents
<1>3. TypeOK'
  BY <1>2 DEF APIKeyAuth, CallInv, TypeOK, TenancyTypeOK, tenancyVars, tables, history, configVars, Idents
<1>4. \A d \in Calls \ {c} : where'[d] = where[d] /\ id'[d] = id[d]
  BY <1>2 DEF CallInv, TypeOK
<1>5. where'[c] = w /\ id'[c] = i
  BY <1>2 DEF CallInv, TypeOK
<1>6. \A d \in Calls \ {c} : /\ Authenticated(d)' <=> Authenticated(d)
                             /\ RoutedHome(d)' <=> RoutedHome(d)
  BY <1>1, <1>4 DEF Authenticated, RoutedHome
<1>7. ASSUME guarded, w = "authed" PROVE Authenticated(c)'
  <2>1. i # Nobody /\ HasScope(i, "invoke") /\ i \in Resolved(c)
    BY <1>2, <1>7
  <2>2. CASE i = AdminIdentity
    BY <1>5, <2>2, AccessAssumption DEF Authenticated, AdminIdentity
  <2>3. CASE i # AdminIdentity
    <3>1. i.key \in Keys /\ i.project # "*"
      BY <1>1, <2>1, <2>3, ResolvedIdentity DEF CallInv
    <3>2. i.key # None /\ "invoke" \in i.scopes
      BY <2>1, <3>1, TenancyAssumption, AccessAssumption DEF HasScope
    <3>. QED BY <1>5, <3>1, <3>2 DEF Authenticated
  <2>. QED BY <2>2, <2>3
<1>8. ASSUME guarded, call[c].token \in deadKeys[c] PROVE w = "401"
  <2>1. call[c].token \in Keys /\ keys[call[c].token] = NoRow
    BY <1>8 DEF CallInv, TenancyInv, TenancyTypeOK, KeysInv
  <2>2. call[c].token # Secret /\ call[c].token # None
    BY <2>1, AccessAssumption, TenancyAssumption
  <2>3. \A r \in Resolved(c) : r = Nobody
    BY <2>1, <2>2 DEF Resolved, LookupAPIKey
  <2>. QED BY <1>2, <1>8, <2>3
<1>9. CallsStayInProject'
  <2>1. served[c] = None
    BY <1>1 DEF CallInv
  <2>. QED BY <1>1, <1>4, <2>1 DEF CallInv, CallsStayInProject
<1>10. Up'
  BY <1>1 DEF Up
<1>11. ASSUME NEW d \in Calls
       PROVE  /\ where'[d] # "new" => call'[d] \in CallInputs
              /\ deadKeys'[d] \subseteq revoked'
              /\ served'[d] # None => where'[d] = "200"
              /\ guarded' /\ where'[d] \in {"authed", "routed", "200"} => Authenticated(d)'
              /\ guarded' /\ where'[d] = "routed" => RoutedHome(d)'
              /\ guarded' /\ call'[d].token \in deadKeys'[d] => where'[d] \in {"new", "arrived", "401"}
  <2>1. CASE d = c
    BY <1>1, <1>2, <1>5, <1>7, <1>8, <2>1 DEF CallInv
  <2>2. CASE d # c
    BY <1>1, <1>4, <1>6, <2>2 DEF CallInv
  <2>. QED BY <2>1, <2>2
<1>. QED BY <1>3, <1>9, <1>10, <1>11 DEF CallInv

\* ServeHTTP compares the projects as they are at this moment.
LEMMA RouteStep ==
    ASSUME CallInv, TenancyInv, NEW c \in Calls, Route(c)
    PROVE  CallInv'
<1>. DEFINE p == RegisteredProject(call[c].name)
<1>1. /\ UNCHANGED <<guarded, pc, revoked, cache, call, id, served, deadKeys, moved>>
      /\ where[c] = "authed" /\ Up /\ project' = [project EXCEPT ![c] = p]
  BY DEF Route, tenancyVars, configVars
<1>2. PICK w \in {"routed", "429", "404"} : where' = [where EXCEPT ![c] = w] /\ (w = "routed" => MayCall(c, p))
  BY DEF Route, To
<1>3. call[c].name \in Names /\ p \in Projects
  BY <1>1, AccessAssumption, TenancyAssumption DEF CallInv, TypeOK, RegisteredProject
<1>4. cache[call[c].name] \in {None, p}
  BY DEF RegisteredProject
<1>. HIDE DEF p
<1>5. TypeOK'
  BY <1>1, <1>2, <1>3 DEF Route, CallInv, TypeOK, TenancyTypeOK, tenancyVars, tables, history, configVars
<1>6. \A d \in Calls \ {c} : where'[d] = where[d] /\ project'[d] = project[d]
  BY <1>1, <1>2 DEF CallInv, TypeOK
<1>7. where'[c] = w /\ project'[c] = p
  BY <1>1, <1>2 DEF CallInv, TypeOK
<1>8. \A d \in Calls : Authenticated(d)' <=> Authenticated(d)
  BY <1>1 DEF Authenticated
<1>9. \A d \in Calls \ {c} : RoutedHome(d)' <=> RoutedHome(d)
  BY <1>1, <1>6 DEF RoutedHome
<1>10. ASSUME guarded, w = "routed" PROVE RoutedHome(c)'
  <2>1. id[c] # Nobody
    BY <1>1, <1>10 DEF CallInv, Authenticated, Nobody
  <2>2. id[c].project \in {"*", p}
    BY <1>2, <1>10, <2>1 DEF MayCall
  <2>. QED BY <1>1, <1>4, <1>7, <2>2 DEF RoutedHome
<1>11. CallsStayInProject' /\ Up'
  BY <1>1 DEF CallInv, CallsStayInProject, Up
<1>12. ASSUME NEW d \in Calls
       PROVE  /\ where'[d] # "new" => call'[d] \in CallInputs
              /\ deadKeys'[d] \subseteq revoked'
              /\ served'[d] # None => where'[d] = "200"
              /\ guarded' /\ where'[d] \in {"authed", "routed", "200"} => Authenticated(d)'
              /\ guarded' /\ where'[d] = "routed" => RoutedHome(d)'
              /\ guarded' /\ call'[d].token \in deadKeys'[d] => where'[d] \in {"new", "arrived", "401"}
  <2>1. CASE d = c
    BY <1>1, <1>2, <1>7, <1>8, <1>10, <2>1 DEF CallInv
  <2>2. CASE d # c
    BY <1>1, <1>6, <1>8, <1>9, <2>2 DEF CallInv
  <2>. QED BY <2>1, <2>2
<1>. QED BY <1>5, <1>11, <1>12 DEF CallInv

\* acquire finds the function that was routed to, or one that has moved.
LEMMA InvokeStep ==
    ASSUME CallInv, TenancyInv, NEW c \in Calls, Invoke(c)
    PROVE  CallInv'
<1>. DEFINE p == cache[call[c].name]
<1>1. /\ UNCHANGED <<guarded, pc, revoked, cache, call, id, project, deadKeys, moved>>
      /\ where[c] = "routed" /\ Up
  BY DEF Invoke, tenancyVars, configVars
<1>2. \/ p = None /\ where' = [where EXCEPT ![c] = "500"] /\ UNCHANGED served
      \/ /\ p # None /\ where' = [where EXCEPT ![c] = "200"]
         /\ served' = [served EXCEPT ![c] = p]
  BY DEF Invoke, To
<1>3. call[c].name \in Names /\ p \in Projects \cup {None}
  BY <1>1, AccessAssumption DEF CallInv, TypeOK
<1>. HIDE DEF p
<1>4. TypeOK'
  BY <1>1, <1>2, <1>3 DEF Invoke, CallInv, TypeOK, TenancyTypeOK, tenancyVars, tables, history, configVars
<1>5. \A d \in Calls \ {c} : where'[d] = where[d] /\ served'[d] = served[d]
  BY <1>2 DEF CallInv, TypeOK
<1>6. \A d \in Calls : /\ Authenticated(d)' <=> Authenticated(d)
                       /\ RoutedHome(d)' <=> RoutedHome(d)
  BY <1>1 DEF Authenticated, RoutedHome
<1>7. /\ served[c] = None
      /\ where'[c] \in {"200", "500"} /\ served'[c] \in {None, p}
      /\ served'[c] # None => where'[c] = "200"
  BY <1>1, <1>2 DEF CallInv, TypeOK
<1>8. CallsStayInProject'
  <2>1. ASSUME NEW d \in Calls, guarded, served'[d] # None
        PROVE  /\ id[d].key # None
               /\ id[d].key # Secret => "invoke" \in id[d].scopes /\ id[d].project # "*"
               /\ id[d].project \in {"*", served'[d]} \/ d \in moved
    <3>1. CASE d = c
      <4>1. Authenticated(c) /\ RoutedHome(c)
        BY <1>1, <2>1 DEF CallInv
      <4>. QED BY <1>7, <2>1, <3>1, <4>1 DEF Authenticated, RoutedHome, p
    <3>2. CASE d # c
      BY <1>5, <2>1, <3>2 DEF CallInv, CallsStayInProject
    <3>. QED BY <3>1, <3>2
  <2>. QED BY <1>1, <2>1 DEF CallsStayInProject
<1>9. Up'
  BY <1>1 DEF Up
<1>10. ASSUME NEW d \in Calls
       PROVE  /\ where'[d] # "new" => call'[d] \in CallInputs
              /\ deadKeys'[d] \subseteq revoked'
              /\ served'[d] # None => where'[d] = "200"
              /\ guarded' /\ where'[d] \in {"authed", "routed", "200"} => Authenticated(d)'
              /\ guarded' /\ where'[d] = "routed" => RoutedHome(d)'
              /\ guarded' /\ call'[d].token \in deadKeys'[d] => where'[d] \in {"new", "arrived", "401"}
  <2>1. CASE d = c
    BY <1>1, <1>6, <1>7, <2>1 DEF CallInv
  <2>2. CASE d # c
    BY <1>1, <1>5, <1>6, <2>2 DEF CallInv
  <2>. QED BY <2>1, <2>2
<1>. QED BY <1>4, <1>8, <1>9, <1>10 DEF CallInv

\* A request at the admin port redefines a function only under the eyes of the
\* calls that were routed to it: they count as moved.
LEMMA AdminStep ==
    ASSUME CallInv, TenancyInv, TenancyInv', NEW a \in Admins, AdminRequest(a)
    PROVE  CallInv'
<1>1. UNCHANGED <<guarded, pc, revoked, call, where, id, project, served, deadKeys>>
  BY DEF AdminRequest, configVars, callVars
<1>2. PICK r \in AdminInputs :
         \/ RegisterFunction(a, r) \/ UnregisterFunction(a, r) \/ Forward(a, r)
         \/ Answer(a, "401") /\ UNCHANGED <<cache, moved>>
  BY DEF AdminRequest
<1>. DEFINE n == r.name
<1>3. /\ n \in Names
      /\ \/ UNCHANGED <<cache, moved>>
         \/ \E p \in Projects \cup {None} :
               cache' = [cache EXCEPT ![n] = p] /\ moved' = moved \cup InFlight(n)
  BY <1>2, AccessAssumption DEF RegisterFunction, UnregisterFunction, Forward, Define
<1>4. cache' \in [Names -> Projects \cup {None}] /\ moved \subseteq moved' /\ moved' \subseteq Calls
  BY <1>3 DEF CallInv, TypeOK, InFlight
<1>5. status' \in [Admins -> {"new", "200", "201", "204", "400", "401", "404", "413", "502"}]
  <2>1. \E s \in {"200", "201", "204", "400", "401", "404", "413", "502"} : Answer(a, s)
    BY <1>2 DEF RegisterFunction, UnregisterFunction, Forward
  <2>. QED BY <2>1 DEF CallInv, TypeOK, Answer
<1>. HIDE DEF n
<1>6. TypeOK'
  <2>1. UNCHANGED <<token, loopback, guarded, call, where, id, project, served, deadKeys>>
    BY DEF AdminRequest, configVars, callVars
  <2>. QED BY <1>4, <1>5, <2>1 DEF CallInv, TypeOK, TenancyInv
<1>7. ASSUME NEW c \in Calls, where[c] = "routed", RoutedHome(c) PROVE RoutedHome(c)'
  <2>1. CASE UNCHANGED <<cache, moved>>
    BY <1>1, <1>7, <2>1 DEF RoutedHome
  <2>2. CASE call[c].name = n /\ moved' = moved \cup InFlight(n)
    BY <1>1, <1>7, <2>2 DEF RoutedHome, InFlight
  <2>3. CASE call[c].name # n /\ moved \subseteq moved' /\ \E p : cache' = [cache EXCEPT ![n] = p]
    <3>1. call[c].name \in Names
      BY <1>7, AccessAssumption DEF CallInv
    <3>2. cache'[call[c].name] = cache[call[c].name]
      BY <2>3, <3>1 DEF CallInv, TypeOK
    <3>. QED BY <1>1, <1>4, <1>7, <3>2 DEF RoutedHome
  <2>. QED BY <1>3, <1>4, <2>1, <2>2, <2>3
<1>8. \A c \in Calls : Authenticated(c)' <=> Authenticated(c)
  BY <1>1 DEF Authenticated
<1>9. CallsStayInProject'
  BY <1>1, <1>4 DEF CallInv, CallsStayInProject
<1>10. Up' <=> Up
  BY <1>1 DEF Up
<1>. QED BY <1>1, <1>6, <1>7, <1>8, <1>9, <1>10 DEF CallInv

\* Steps of processes only add to the revoked keys.
LEMMA RevokedGrows ==
    ASSUME NEW p \in Procs, ProcStep(p) \/ ProcCrash(p)
    PROVE  revoked \subseteq revoked'
BY DEF ProcStep, ProcCrash, Check, Body, Record, DatabaseFails, Open, Change, ProjectCreate, ProjectDelete,
       DeleteProject, KeyCreate, KeyRevoke, QuotaSet, ListRows, CronPut, CronDelete, Audit, Crash

\* A gateway that is up takes no more steps of a process that starts.
LEMMA StaysUp ==
    ASSUME TenancyTypeOK, NEW p \in Procs, ProcStep(p) \/ ProcCrash(p), Up
    PROVE  Up'
<1>1. Gateway \in Procs /\ Gateway \notin Commands
  BY TenancyAssumption DEF Procs
<1>2. p # Gateway
  <2>1. pc[p] # "up"
    BY <1>1, TenancyAssumption DEF ProcStep, ProcCrash, Check, Body, Record, DatabaseFails, Open, Change, Audit, Crash
  <2>. QED BY <2>1 DEF Up
<1>3. pc' = pc \/ \E w : pc' = [pc EXCEPT ![p] = w]
  BY DEF ProcStep, ProcCrash, Check, Body, Record, DatabaseFails, Open, Change, ProjectCreate, ProjectDelete,
         KeyCreate, KeyRevoke, QuotaSet, ListRows, CronPut, CronDelete, Audit, Crash, Go
<1>. QED BY <1>1, <1>2, <1>3 DEF Up, TenancyTypeOK

\* CallInv is inductive relative to TenancyInv.
LEMMA NextCalls == CallInv /\ TenancyInv /\ [Next]_vars => CallInv'
<1>. SUFFICES ASSUME CallInv, TenancyInv, [Next]_vars PROVE CallInv'
  OBVIOUS
<1>1. TenancyInv'
  BY NextTenancy
<1>2. CASE GatewayOpens
  <2>1. /\ UNCHANGED <<configVars, cache, callVars, status, moved, revoked>> /\ ~Up
    BY <1>2 DEF GatewayOpens, Open, Up
  <2>. QED BY <1>1, <2>1, ProcessCalls DEF CallInv, TypeOK
<1>3. CASE GatewayListens
  <2>1. /\ UNCHANGED <<configVars, callVars, status, moved, revoked>> /\ ~Up
        /\ cache' \in {cache, functions}
    BY <1>3 DEF GatewayListens, Up
  <2>. QED BY <1>1, <2>1, ProcessCalls DEF CallInv, TypeOK, TenancyTypeOK
<1>4. ASSUME NEW p \in Procs, ProcStep(p) \/ ProcCrash(p) PROVE CallInv'
  <2>1. UNCHANGED <<configVars, cache, callVars, status, moved>>
    BY <1>4 DEF ProcStep, ProcCrash
  <2>2. revoked \subseteq revoked' /\ (Up => Up')
    BY <1>4, RevokedGrows, StaysUp DEF TenancyInv
  <2>. QED BY <1>1, <2>1, <2>2, ProcessCalls DEF CallInv, TypeOK
<1>5. ASSUME NEW a \in Admins, AdminRequest(a) PROVE CallInv'
  BY <1>1, <1>5, AdminStep
<1>6. ASSUME NEW c \in Calls, CallStep(c) PROVE CallInv'
  BY <1>6, ArriveStep, APIKeyAuthStep, RouteStep, InvokeStep DEF CallStep
<1>7. CASE UNCHANGED vars
  <2>1. UNCHANGED <<configVars, cache, callVars, status, moved, revoked, pc>>
    BY <1>7 DEF vars, tenancyVars
  <2>. QED BY <1>1, <2>1, ProcessCalls DEF CallInv, TypeOK, Up
<1>. QED BY <1>2, <1>3, <1>4, <1>5, <1>6, <1>7 DEF Next

\* Tables, processes and calls fit together in every reachable state.
THEOREM AccessInvariant == Spec => [](TenancyInv /\ CallInv)
<1>1. Init => TenancyInv /\ CallInv
  BY InitTenancy, InitCalls DEF Init
<1>2. (TenancyInv /\ CallInv) /\ [Next]_vars => (TenancyInv /\ CallInv)'
  BY NextTenancy, NextCalls
<1>. QED BY <1>1, <1>2, PTL DEF Spec

\* Type correctness of tables, processes, requests and calls.
THEOREM AccessTypeCorrect == Spec => []TypeOK
<1>1. TenancyInv /\ CallInv => TypeOK
  BY DEF CallInv
<1>. QED BY <1>1, AccessInvariant, PTL

\* The foreign keys of 0002_tenancy hold from the moment they exist, whichever
\* process applied the migration and whatever commands and the gateway do.
THEOREM ReferencesHoldAlways == Spec => []ReferencesHold
<1>1. TenancyInv /\ CallInv => ReferencesHold
  BY DEF TenancyInv
<1>. QED BY <1>1, AccessInvariant, PTL

\* Processes that start at once on a database, whatever it does to them: one
\* that fails or dies leaves no transaction and no part of a migration behind,
\* and one that loses the race in migrate loses it to one that does not.
THEOREM FailedStartHarmsNobodyHolds == Spec => []FailedStartHarmsNobody
<1>1. ASSUME TenancyInv PROVE FailedStartHarmsNobody
  <2>1. ASSUME NEW p \in Procs, Lost(p)
        PROVE  \E v \in schema : at[p] <= v /\ by[v] \in Procs /\ ~Lost(by[v])
    <3>1. at[p] \in schema /\ schema \subseteq Versions
      BY <1>1, <2>1 DEF TenancyInv, TenancyTypeOK, RaceInv
    <3>2. PICK v \in schema : Newest(v)
      <4>1. CASE 2 \in schema
        BY <3>1, <4>1 DEF Newest, Versions
      <4>2. CASE 2 \notin schema /\ 1 \in schema
        BY <3>1, <4>2 DEF Newest, Versions
      <4>3. CASE 2 \notin schema /\ 1 \notin schema
        <5>1. ASSUME NEW u \in schema PROVE u = 0
          <6>1. u \in 0..2 /\ u # 1 /\ u # 2
            BY <3>1, <4>3 DEF Versions
          <6>. QED BY <6>1
        <5>2. at[p] = 0
          BY <3>1, <5>1
        <5>. QED BY <3>1, <5>1, <5>2 DEF Newest
      <4>. QED BY <4>1, <4>2, <4>3
    <3>3. at[p] <= v
      BY <3>1, <3>2 DEF Newest
    <3>4. by[v] \in Procs
      BY <1>1, <2>1, <3>3 DEF TenancyInv, RaceInv
    <3>. QED BY <1>1, <3>2, <3>3, <3>4 DEF TenancyInv, RaceInv
  <2>. QED BY <1>1, <2>1 DEF FailedStartHarmsNobody, TenancyInv, WholeInv, Lost
<1>. QED BY <1>1, AccessInvariant, PTL

\* A key that was revoked, or that the database deleted with its project,
\* authenticates no later call.
THEOREM RevokedKeysAreDeadHolds == Spec => []RevokedKeysAreDead
<1>1. TenancyInv /\ CallInv => RevokedKeysAreDead
  BY DEF TenancyInv, CallInv, KeysInv, RevokedKeysAreDead
<1>. QED BY <1>1, AccessInvariant, PTL

\* ServeHTTP serves an authenticated call from its own project only, up to
\* functions that move between its check and its second look.
THEOREM CallsStayInProjectHolds == Spec => []CallsStayInProject
<1>1. TenancyInv /\ CallInv => CallsStayInProject
  BY DEF CallInv
<1>. QED BY <1>1, AccessInvariant, PTL
=============================================================================
