------------------------------- MODULE Access -------------------------------
(***************************************************************************)
(* Who may do what at the gateway: the admin port with its token (internal *)
(* /auth/token.go, cmd/gateway, internal/dashboard/admin.go) and the       *)
(* function port with API keys (internal/auth/apikey.go) and routing by    *)
(* project (ServeHTTP of internal/gateway/gateway.go), on top of Tenancy.  *)
(*                                                                         *)
(* A call to a function reads the key, then the function's project, then   *)
(* the function again: keys may be revoked and functions re-registered in  *)
(* between.  cmd/gateway does not wrap the function port in APIKeyAuth     *)
(* itself; both ways to build it are initial states.                       *)
(***************************************************************************)
EXTENDS Tenancy

CONSTANTS
    Configs,     \* [token, loopback, guarded]: see the variables
    Calls,       \* calls of functions
    CallInputs,  \* [token, project, name]: credentials and path of a call
    Admins,      \* requests at the admin port
    AdminInputs, \* [token, path, name, project, valid]
    Secret       \* the admin token, when there is one

ASSUME AccessAssumption ==
    /\ Secret \notin Keys \cup {None}
    /\ Configs \subseteq [token : {None, Secret}, loopback : BOOLEAN, guarded : BOOLEAN]
    /\ \A i \in CallInputs : /\ i.token \in Keys \cup {Secret, None}
                             /\ i.project \in Projects \cup {None} /\ i.name \in Names
    /\ \A i \in AdminInputs : /\ i.token \in {Secret, None} \cup Keys
                              /\ i.path \in {"register", "delete", "build", "static"}
                              /\ i.name \in Names /\ i.project \in Projects
                              /\ i.valid \in BOOLEAN

VARIABLES
    token,       \* the configured admin token, or None
    loopback,    \* the admin port is bound to loopback
    guarded,     \* the function port is wrapped in APIKeyAuth
    cache,       \* the gateway's g.functions: the project by name
    call,        \* calls: their inputs, once they have arrived
    where,       \* calls: "new", "arrived", "authed", "routed", or a status
    id,          \* calls: the Identity in the request's context
    project,     \* calls: registeredProject as ServeHTTP read it
    served,      \* calls: the project of the function that was invoked
    status,      \* admin requests: the answer
    deadKeys,    \* history: keys revoked before a call arrived
    moved        \* history: calls whose function was re-registered meanwhile

configVars == <<token, loopback, guarded>>
callVars   == <<call, where, id, project, served, deadKeys>>
vars == <<tenancyVars, configVars, cache, callVars, status, moved>>

Nobody == [key |-> None, project |-> None, scopes |-> {}]
NoCall == [token |-> None, project |-> None, name |-> None]
AdminIdentity == [key |-> Secret, project |-> "*", scopes |-> {"admin"}]

Init ==
    /\ TenancyInit
    /\ \E c \in Configs : token = c.token /\ loopback = c.loopback /\ guarded = c.guarded
    /\ cache = [n \in Names |-> None]
    /\ call = [c \in Calls |-> NoCall]
    /\ where = [c \in Calls |-> "new"]
    /\ id = [c \in Calls |-> Nobody]
    /\ project = [c \in Calls |-> None]
    /\ served = [c \in Calls |-> None]
    /\ status = [a \in Admins |-> "new"]
    /\ deadKeys = [c \in Calls |-> {}]
    /\ moved = {}

(***************************************************************************)
(* The gateway starts                                                      *)
(***************************************************************************)
\* Without a token the admin port must be on loopback.
MayListen == loopback \/ token # None

Up == pc[Gateway] = "up"

\* The token is loaded and checked before the database is opened.
GatewayOpens ==
    /\ pc[Gateway] = "start"
    /\ IF MayListen THEN Open(Gateway)
       ELSE /\ Go(Gateway, "exited")
            /\ UNCHANGED <<backend, schema, ddl, tables, audit, input, at, history, revoked>>
    /\ UNCHANGED <<configVars, cache, callVars, status, moved>>

\* The functions are loaded and both ports listen; without a certificate or
\* the builder's token, where they are asked for, the process exits.
GatewayListens ==
    /\ pc[Gateway] = "opened"
    /\ \/ Go(Gateway, "up") /\ cache' = functions
       \/ Go(Gateway, "exited") /\ UNCHANGED cache
    /\ UNCHANGED <<backend, schema, ddl, tables, audit, input, at, history, revoked,
                   configVars, callVars, status, moved>>

(***************************************************************************)
(* The admin port                                                          *)
(***************************************************************************)
\* dashboardAuthSplit: the API needs the token, the login page does not.
NeedsToken(r) == r.path # "static"

\* TokenAuth: the right token, or none is configured.
TokenAuth(r) == token = None \/ r.token = token

Answer(a, s) == status' = [status EXCEPT ![a] = s]

InFlight(n) == {c \in Calls : call[c].name = n /\ where[c] = "routed"}

\* The function n now belongs to p, or is gone: calls on their way may notice.
Define(n, p) ==
    /\ cache' = [cache EXCEPT ![n] = p]
    /\ moved' = moved \cup InFlight(n)

\* serveFunctions: checks of method and body (refused with 400 or 405, which
\* are one answer here), then RegisterDef: row, cache and audit log.
RegisterFunction(a, r) ==
    /\ r.path = "register"
    /\ \/ /\ r.valid /\ References(r.project)
          /\ functions' = [functions EXCEPT ![r.name] = r.project]
          /\ Define(r.name, r.project)
          /\ AppendAudit(<<"function.put", r.name>>)
          /\ Answer(a, "201")
       \/ /\ ~r.valid \/ ~References(r.project) \/ "db" \in Faults
          /\ Answer(a, "400")
          /\ UNCHANGED <<functions, cache, moved, audit>>

\* serveFunction: Unregister deletes the row, ignoring a failure, and the
\* cached definition in any case.
UnregisterFunction(a, r) ==
    /\ r.path = "delete"
    /\ \/ functions' = [functions EXCEPT ![r.name] = None]
       \/ "db" \in Faults /\ UNCHANGED functions
    /\ Define(r.name, None)
    /\ IF cache[r.name] # None
       THEN AppendAudit(<<"function.delete", r.name>>) /\ Answer(a, "204")
       ELSE Answer(a, "404") /\ UNCHANGED audit

\* serveLayerBuild: the builder's answer is passed on; the page and its assets.
Forward(a, r) ==
    /\ r.path \in {"build", "static"}
    /\ \E s \in IF r.path = "build" THEN {"200", "404", "413", "502"} ELSE {"200"} : Answer(a, s)
    /\ UNCHANGED <<functions, cache, moved, audit>>

AdminRequest(a) ==
    /\ Up /\ status[a] = "new"
    /\ \E r \in AdminInputs :
          IF NeedsToken(r) /\ ~TokenAuth(r)
          THEN Answer(a, "401") /\ UNCHANGED <<functions, cache, moved, audit>>
          ELSE RegisterFunction(a, r) \/ UnregisterFunction(a, r) \/ Forward(a, r)
    /\ UNCHANGED <<backend, schema, ddl, projects, keys, quotas, cronJobs, pc, input, at, history, revoked,
                   configVars, callVars>>

(***************************************************************************)
(* Calls of functions                                                      *)
(***************************************************************************)
To(c, w) == where' = [where EXCEPT ![c] = w]

Arrive(c) ==
    /\ Up /\ where[c] = "new"
    /\ \E i \in CallInputs : call' = [call EXCEPT ![c] = i]
    /\ To(c, "arrived")
    /\ deadKeys' = [deadKeys EXCEPT ![c] = revoked]
    /\ UNCHANGED <<tenancyVars, configVars, cache, id, project, served, status, moved>>

Identify(c, i) == id' = [id EXCEPT ![c] = i]

\* HasScope: a cluster admin has every scope.
HasScope(i, s) == i.key = Secret \/ s \in i.scopes

\* Faulty variant: what was looked up once is remembered.
LookupAPIKeyCached(k) ==
    IF keys[k] # NoRow THEN [key |-> k, project |-> keys[k].project, scopes |-> keys[k].scopes]
    ELSE IF k \in revoked THEN [key |-> k, project |-> "default", scopes |-> {"invoke"}]
    ELSE Nobody

\* LookupAPIKey: the row with this token, if any.
LookupAPIKey(k) == IF keys[k] = NoRow THEN Nobody
                   ELSE [key |-> k, project |-> keys[k].project, scopes |-> keys[k].scopes]

\* The identity that the credentials of a call stand for; Nobody: 401.  A
\* failing database makes nobody of everybody but the admin.
Resolved(c) ==
    CASE call[c].token = None -> {Nobody}
      [] call[c].token = Secret -> IF token = Secret THEN {AdminIdentity} ELSE {Nobody}
      [] OTHER -> {LookupAPIKey(call[c].token)} \cup (IF "db" \in Faults THEN {Nobody} ELSE {})

\* APIKeyAuth, with requireScope = "invoke"; a passthrough when not configured.
APIKeyAuth(c) ==
    /\ Up /\ where[c] = "arrived"
    /\ IF ~guarded THEN To(c, "authed") /\ UNCHANGED id
       ELSE \E i \in Resolved(c) :
               IF i = Nobody THEN To(c, "401") /\ UNCHANGED id
               ELSE Identify(c, i) /\ To(c, IF HasScope(i, "invoke") THEN "authed" ELSE "403")
    /\ UNCHANGED <<tenancyVars, configVars, cache, call, project, served, status, deadKeys, moved>>

\* registeredProject: an unknown function counts as one of 'default'.
RegisteredProject(n) == IF cache[n] = None THEN "default" ELSE cache[n]

\* Faulty variant: the identity's project is not compared.
MayCallOnPath(c, p) == call[c].project \in {None, p}

\* The path's project and the identity's both are the function's.
MayCall(c, p) ==
    /\ call[c].project \in {None, p}
    /\ id[c] = Nobody \/ id[c].project \in {"*", p}

\* ServeHTTP up to the quota, which may refuse the call.
Route(c) ==
    /\ Up /\ where[c] = "authed"
    /\ LET p == RegisteredProject(call[c].name) IN
        /\ project' = [project EXCEPT ![c] = p]
        /\ IF MayCall(c, p) THEN \E w \in {"routed", "429"} : To(c, w) ELSE To(c, "404")
    /\ UNCHANGED <<tenancyVars, configVars, cache, call, id, served, status, deadKeys, moved>>

\* acquire looks the function up again and ServeHTTP invokes that one.
Invoke(c) ==
    /\ Up /\ where[c] = "routed"
    /\ LET p == cache[call[c].name] IN
        IF p = None THEN To(c, "500") /\ UNCHANGED served
        ELSE served' = [served EXCEPT ![c] = p] /\ To(c, "200")
    /\ UNCHANGED <<tenancyVars, configVars, cache, call, id, project, status, deadKeys, moved>>

(***************************************************************************)
(* Specification                                                           *)
(***************************************************************************)
CallStep(c) == Arrive(c) \/ APIKeyAuth(c) \/ Route(c) \/ Invoke(c)

ProcStep(p) ==
    /\ \/ Check(p) \/ Body(p) \/ Record(p) \/ DatabaseFails(p)
       \/ p \in Commands /\ (Open(p) \/ Change(p) \/ Audit(p))
    /\ UNCHANGED <<configVars, cache, callVars, status, moved>>

ProcCrash(p) == Crash(p) /\ UNCHANGED <<configVars, cache, callVars, status, moved>>

Next ==
    \/ GatewayOpens \/ GatewayListens
    \/ \E p \in Procs : ProcStep(p) \/ ProcCrash(p)
    \/ \E a \in Admins : AdminRequest(a)
    \/ \E c \in Calls : CallStep(c)

Spec == Init /\ [][Next]_vars

-----------------------------------------------------------------------------
(***************************************************************************)
(* Type invariant.                                                         *)
(***************************************************************************)
TypeOK ==
    /\ TenancyTypeOK
    /\ token \in {None, Secret} /\ loopback \in BOOLEAN /\ guarded \in BOOLEAN
    /\ cache \in [Names -> Projects \cup {None}]
    /\ call \in [Calls -> CallInputs \cup {NoCall}]
    /\ where \in [Calls -> {"new", "arrived", "authed", "routed", "200", "401", "403", "404", "429", "500"}]
    /\ id \in [Calls -> {Nobody, AdminIdentity}
                        \cup [key : Keys, project : Projects, scopes : SUBSET Scopes]]
    /\ project \in [Calls -> Projects \cup {None}]
    /\ served \in [Calls -> Projects \cup {None}]
    /\ status \in [Admins -> {"new", "200", "201", "204", "400", "401", "404", "413", "502"}]
    /\ deadKeys \in [Calls -> SUBSET Keys]
    /\ moved \subseteq Calls

\* A key that was revoked, or that the database deleted with its project, gets
\* no call past the authentication that arrives later, and the audit log says
\* of no key that still works that it was revoked.  (In memory DeleteProject
\* deletes no key: the keys of a deleted project go on working there.)
RevokedKeysAreDead ==
    /\ \A c \in Calls : guarded /\ call[c].token \in deadKeys[c] =>
           where[c] \in {"new", "arrived", "401"}
    /\ \A k \in revoked : <<"key.revoke", k>> \in audit => keys[k] = NoRow

\* An authenticated call runs a function of its own project, in spite of the
\* time between the check and the second look-up, unless the function was
\* re-registered in just that time; it needs a key that has the scope "invoke"
\* itself (HasScope: no scope of a key implies another, not even "admin"), and
\* only the admin token, never a key, counts as one of every project ("*").
CallsStayInProject ==
    \A c \in Calls : guarded /\ served[c] # None =>
        /\ id[c].key # None
        /\ id[c].key # Secret => "invoke" \in id[c].scopes /\ id[c].project # "*"
        /\ id[c].project \in {"*", served[c]} \/ c \in moved

=============================================================================
