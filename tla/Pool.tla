-------------------------------- MODULE Pool --------------------------------
(***************************************************************************)
(* The instance pool of one function in the gateway                        *)
(* (internal/gateway/gateway.go): request goroutines running acquire,      *)
(* Invoke and release; the idle reaper; and the goroutines that replace or *)
(* delete the definition (applyPut, applyDelete, Gateway.Close) and tear   *)
(* the old pool down with closeAll.                                        *)
(*                                                                         *)
(* Every critical section under g.mu or p.mu is one action; nothing the    *)
(* code does outside those locks (spawning, invoking, closing a process)   *)
(* is merged with it.  Functions share nothing but g.mu, so one name       *)
(* suffices.  A request allocates at most one pool and one instance, so    *)
(* both are named by the request that allocated them, and a definition by  *)
(* the goroutine that applied it.                                          *)
(***************************************************************************)
EXTENDS Integers, FiniteSets, FiniteSetsExt

CONSTANTS
    Requests,               \* request goroutines (ServeHTTP), each served once
    Updaters,               \* goroutines in applyPut, applyDelete or Close
    Sizes,                  \* values of max_concurrency that are registered
    DefaultMaxConcurrency,  \* what a non-positive max_concurrency becomes
    None

ASSUME PoolAssumption ==
    /\ None \notin Requests \cup Updaters
    /\ Sizes \subseteq Int
    /\ DefaultMaxConcurrency \in Nat \ {0}

VARIABLES
    pc, rpool, rdef, held,               \* requests
    def, cur,                            \* g.functions[name], g.pools[name]
    instances, spawning, maxSize,        \* pools
    lifetimeInvokes, lifetimeErrors,     \*   (totals of reaped instances)
    ist, invokes, errors, busy, stale,   \* instances
    upc, upool, closing,                 \* updaters
    late,                                \*   (requests a teardown came too early for)
    victims, stopped                     \* the reaper

reqVars  == <<pc, rpool, rdef, held>>
gwVars   == <<def, cur>>
poolVars == <<instances, spawning, maxSize, lifetimeInvokes, lifetimeErrors>>
instVars == <<ist, invokes, errors, busy, stale>>
updVars  == <<upc, upool, closing, late>>
reapVars == <<victims, stopped>>
vars     == <<reqVars, gwVars, poolVars, instVars, updVars, reapVars>>

\* Faulty variant: only the missing value is replaced.
NormaliseZero(m) == IF m = 0 THEN DefaultMaxConcurrency ELSE m

\* A non-positive MaxConcurrency is replaced before it reaches the cache.
Normalise(m) == IF m <= 0 THEN DefaultMaxConcurrency ELSE m

Definition(u, m) == [by |-> u, max |-> Normalise(m)]
NoDef == [by |-> None, max |-> 0]

(***************************************************************************)
(* Initial states: a gateway whose bootstrap found no definition, or one.  *)
(***************************************************************************)
Init ==
    /\ pc = [r \in Requests |-> "start"]
    /\ rpool = [r \in Requests |-> None]
    /\ rdef = [r \in Requests |-> NoDef]
    /\ held = [r \in Requests |-> None]
    /\ def \in {NoDef} \cup {Definition(None, m) : m \in Sizes}
    /\ cur = None
    /\ instances = [p \in Requests |-> {}]
    /\ spawning = [p \in Requests |-> 0]
    /\ maxSize = [p \in Requests |-> 0]
    /\ lifetimeInvokes = [p \in Requests |-> 0]
    /\ lifetimeErrors = [p \in Requests |-> 0]
    /\ ist = [i \in Requests |-> "none"]
    /\ invokes = [i \in Requests |-> 0]
    /\ errors = [i \in Requests |-> 0]
    /\ busy = {}
    /\ stale = {}
    /\ upc = [u \in Updaters |-> "idle"]
    /\ upool = [u \in Updaters |-> None]
    /\ closing = [u \in Updaters |-> {}]
    /\ late = {}
    /\ victims = {}
    /\ stopped = FALSE

(***************************************************************************)
(* acquire                                                                 *)
(***************************************************************************)
\* Faulty variant: the busy mutex is not looked at.
Listed(p) == instances[p]

\* Instances of p on which busy.TryLock() would succeed.
Free(p) == instances[p] \ busy

\* Faulty variant: the size test forgets the spawns that are under way.
HasRoomNow(p) == Cardinality(instances[p]) < maxSize[p]

\* len(p.instances)+p.spawning < p.maxSize
HasRoom(p) == Cardinality(instances[p]) + spawning[p] < maxSize[p]

\* Faulty variant: nobody is woken.
WakeNone(p) == pc

\* p.cond.Broadcast(): every request waiting on p will look at p again.
WakeAll(p) == [r \in Requests |->
                  IF pc[r] = "wait" /\ rpool[r] = p THEN "scan" ELSE pc[r]]

\* The name is not (or, since ServeHTTP looked it up, no longer) registered.
AcquireMissing(r) ==
    /\ pc[r] = "start"
    /\ def = NoDef
    /\ pc' = [pc EXCEPT ![r] = "done"]
    /\ UNCHANGED <<rpool, rdef, held, gwVars, poolVars, instVars, updVars, reapVars>>

\* The g.mu section: fix the definition and the pool, creating the latter.
AcquirePool(r) ==
    LET p == IF cur = None THEN r ELSE cur IN
    /\ pc[r] = "start"
    /\ def # NoDef
    /\ cur' = p
    /\ maxSize' = IF cur = None THEN [maxSize EXCEPT ![r] = def.max] ELSE maxSize
    /\ rpool' = [rpool EXCEPT ![r] = p]
    /\ rdef' = [rdef EXCEPT ![r] = def]
    /\ pc' = [pc EXCEPT ![r] = "scan"]
    /\ UNCHANGED <<held, def, instances, spawning, lifetimeInvokes,
                   lifetimeErrors, instVars, updVars, reapVars>>

\* Take a free instance.  (The code takes the first in slice order; the
\* model, which keeps the slice as a set, lets it be any of them.)
Grab(r) ==
    /\ pc[r] = "scan"
    /\ \E i \in Free(rpool[r]) :
          /\ held' = [held EXCEPT ![r] = i]
          /\ busy' = busy \cup {i}
    /\ pc' = [pc EXCEPT ![r] = "invoke"]
    /\ UNCHANGED <<rpool, rdef, gwVars, poolVars, ist, invokes, errors,
                   stale, updVars, reapVars>>

\* Nothing free but room left: reserve a slot and go spawning.
Reserve(r) ==
    LET p == rpool[r] IN
    /\ pc[r] = "scan"
    /\ Free(p) = {}
    /\ HasRoom(p)
    /\ spawning' = [spawning EXCEPT ![p] = @ + 1]
    /\ pc' = [pc EXCEPT ![r] = "spawn"]
    /\ UNCHANGED <<rpool, rdef, held, gwVars, instances, maxSize,
                   lifetimeInvokes, lifetimeErrors, instVars, updVars, reapVars>>

\* Pool full and all busy: p.cond.Wait().
Block(r) ==
    LET p == rpool[r] IN
    /\ pc[r] = "scan"
    /\ Free(p) = {}
    /\ ~HasRoom(p)
    /\ pc' = [pc EXCEPT ![r] = "wait"]
    /\ UNCHANGED <<rpool, rdef, held, gwVars, poolVars, instVars,
                   updVars, reapVars>>

\* LayerResolver.Resolve or Spawn returned an error.
SpawnFailed(r) ==
    LET p == rpool[r] IN
    /\ pc[r] = "spawn"
    /\ spawning' = [spawning EXCEPT ![p] = @ - 1]
    /\ pc' = [WakeAll(p) EXCEPT ![r] = "done"]
    /\ UNCHANGED <<rpool, rdef, held, gwVars, instances, maxSize,
                   lifetimeInvokes, lifetimeErrors, instVars, updVars, reapVars>>

\* Faulty variant: the spawned process is not entered in the pool.
Unlisted(p, i) == UNCHANGED instances

\* p.instances = append(p.instances, mi)
Enter(p, i) == instances' = [instances EXCEPT ![p] = @ \cup {i}]

\* The instance came up: it enters p locked, whatever became of p meanwhile.
Spawned(r) ==
    LET p == rpool[r] IN
    /\ pc[r] = "spawn"
    /\ spawning' = [spawning EXCEPT ![p] = @ - 1]
    /\ Enter(p, r)
    /\ ist' = [ist EXCEPT ![r] = "live"]
    /\ busy' = busy \cup {r}
    /\ held' = [held EXCEPT ![r] = r]
    /\ pc' = [pc EXCEPT ![r] = "invoke"]
    /\ UNCHANGED <<rpool, rdef, gwVars, maxSize, lifetimeInvokes,
                   lifetimeErrors, invokes, errors, stale, updVars, reapVars>>

(***************************************************************************)
(* ServeHTTP after acquire, and the deferred release                       *)
(***************************************************************************)
\* The body could not be read: no Invoke, and no counter moves.
BodyRejected(r) ==
    /\ pc[r] = "invoke"
    /\ pc' = [pc EXCEPT ![r] = "unlock"]
    /\ UNCHANGED <<rpool, rdef, held, gwVars, poolVars, instVars, updVars, reapVars>>

\* The process of an instance ends by itself.  Nobody watches for that: the
\* instance keeps its place in its pool, and is handed out again.
Die(i) ==
    /\ ist[i] = "live"
    /\ ist' = [ist EXCEPT ![i] = "dead"]
    /\ UNCHANGED <<reqVars, gwVars, poolVars, invokes, errors, busy, stale,
                   updVars, reapVars>>

\* Invoke returned an error, the process being alive or not: the instance
\* keeps its place in the pool and its old lastUsed.
InvokeFailed(r) ==
    /\ pc[r] = "invoke"
    /\ pc' = [pc EXCEPT ![r] = "unlock"]
    /\ errors' = [errors EXCEPT ![held[r]] = @ + 1]
    /\ UNCHANGED <<rpool, rdef, held, gwVars, poolVars, ist, invokes, busy, stale,
                   updVars, reapVars>>

\* A reply was read, which takes a live process.
InvokeOk(r) ==
    /\ pc[r] = "invoke"
    /\ ist[held[r]] = "live"
    /\ pc' = [pc EXCEPT ![r] = "unlock"]
    /\ invokes' = [invokes EXCEPT ![held[r]] = @ + 1]
    /\ stale' = stale \ {held[r]}
    /\ UNCHANGED <<rpool, rdef, held, gwVars, poolVars, ist, errors, busy,
                   updVars, reapVars>>

\* release: mi.busy.Unlock() ...
Unlock(r) ==
    /\ pc[r] = "unlock"
    /\ busy' = busy \ {held[r]}
    /\ held' = [held EXCEPT ![r] = None]
    /\ pc' = [pc EXCEPT ![r] = "signal"]
    /\ UNCHANGED <<rpool, rdef, gwVars, poolVars, ist, invokes, errors,
                   stale, updVars, reapVars>>

\* ... and then, under p.mu, p.cond.Broadcast().
Signal(r) ==
    /\ pc[r] = "signal"
    /\ pc' = [WakeAll(rpool[r]) EXCEPT ![r] = "done"]
    /\ UNCHANGED <<rpool, rdef, held, gwVars, poolVars, instVars, updVars,
                   reapVars>>

(***************************************************************************)
(* The idle reaper                                                         *)
(***************************************************************************)
\* IdleTTL has passed since mi.lastUsed(), for an instance that the reaper
\* will look at (nothing depends on the age of the others).
Age(i) ==
    /\ cur # None
    /\ i \in instances[cur] \ stale
    /\ stale' = stale \cup {i}
    /\ UNCHANGED <<reqVars, gwVars, poolVars, ist, invokes, errors, busy, updVars,
                   reapVars>>

InvokesOf(S) == MapThenSumSet(LAMBDA i : invokes[i], S)
ErrorsOf(S)  == MapThenSumSet(LAMBDA i : errors[i], S)

\* Faulty variant: the counters of an evicted instance are dropped.
Forget(V) == UNCHANGED <<lifetimeInvokes, lifetimeErrors>>

\* The counters of evicted instances are rolled into the pool's totals.
RollUp(V) ==
    /\ lifetimeInvokes' = [lifetimeInvokes EXCEPT ![cur] = @ + InvokesOf(V)]
    /\ lifetimeErrors' = [lifetimeErrors EXCEPT ![cur] = @ + ErrorsOf(V)]

\* What reapOnce does to the mapped pool when V is what it evicts.
Evict(V) ==
    /\ V # {}
    /\ instances' = [instances EXCEPT ![cur] = @ \ V]
    /\ busy' = busy \cup V
    /\ victims' = V
    /\ RollUp(V)
    /\ pc' = WakeAll(cur)
    /\ UNCHANGED <<rpool, rdef, held, gwVars, spawning, maxSize, ist,
                   invokes, errors, stale, updVars, stopped>>

\* Faulty variant: instances that serve a request are not skipped.
ExpiredOrBusy(p) == instances[p] \cap stale

\* The instances of p that can be locked and are idle for IdleTTL.
Expired(p) == Free(p) \cap stale

\* reapOnce under g.mu and p.mu: evict free instances whose IdleTTL is over,
\* keep them locked, roll their counters up, wake the waiters.  An instance
\* may be missed: now is read before the locks, and busy is tried for one
\* instance after the other, while release unlocks without p.mu.
Reap ==
    /\ ~stopped
    /\ victims = {}
    /\ cur # None
    /\ \E V \in SUBSET Expired(cur) : Evict(V)

\* reapOnce after the locks: close one victim, then unlock it.
CloseVictim(i) ==
    /\ i \in victims
    /\ ist' = [ist EXCEPT ![i] = "closed"]
    /\ victims' = victims \ {i}
    /\ busy' = busy \ {i}
    /\ UNCHANGED <<reqVars, gwVars, poolVars, invokes, errors, stale, updVars, stopped>>

(***************************************************************************)
(* Replacing the definition and tearing the old pool down                  *)
(***************************************************************************)
\* The g.mu section common to applyPut, applyDelete and Close: the pool
\* leaves the map and is remembered for closeAll.
Unmap(u) ==
    /\ upc[u] = "idle"
    /\ upool' = [upool EXCEPT ![u] = cur]
    /\ cur' = None
    /\ upc' = [upc EXCEPT ![u] = IF cur = None THEN "close" ELSE "detach"]
    /\ UNCHANGED <<reqVars, poolVars, instVars, closing, late, victims>>

\* Faulty variant: the new definition is cached but the old pool stays mapped.
ApplyPutKeepingPool(u, m) ==
    /\ upc[u] = "idle"
    /\ upc' = [upc EXCEPT ![u] = "close"]
    /\ def' = Definition(u, m)
    /\ UNCHANGED <<reqVars, cur, poolVars, instVars, upool, closing, late, reapVars>>

ApplyPut(u, m) ==
    /\ Unmap(u)
    /\ def' = Definition(u, m)
    /\ UNCHANGED stopped

ApplyDelete(u) ==
    /\ Unmap(u)
    /\ def' = NoDef
    /\ UNCHANGED stopped

\* Gateway.Close: the reaper has finished its last pass; the definitions stay.
Close(u) ==
    /\ ~stopped
    /\ victims = {}
    /\ Unmap(u)
    /\ stopped' = TRUE
    /\ UNCHANGED def

\* Requests that are in acquire on pool p and have no instance yet.
Acquiring(p) == {r \in Requests : rpool[r] = p /\ pc[r] \in {"scan", "wait", "spawn"}}

\* closeAll under p.mu: take the instances out of the pool ...  It neither
\* marks p as closed nor waits: `late` records the requests that may still
\* enter an instance in p afterwards.
Detach(u) ==
    /\ upc[u] = "detach"
    /\ late' = late \cup Acquiring(upool[u])
    /\ closing' = [closing EXCEPT ![u] = instances[upool[u]]]
    /\ instances' = [instances EXCEPT ![upool[u]] = {}]
    /\ upc' = [upc EXCEPT ![u] = "close"]
    /\ UNCHANGED <<reqVars, gwVars, spawning, maxSize, lifetimeInvokes,
                   lifetimeErrors, instVars, upool, reapVars>>

\* ... and close them one after the other, in use or not.
CloseInstance(u, i) ==
    /\ i \in closing[u]
    /\ ist' = [ist EXCEPT ![i] = "closed"]
    /\ closing' = [closing EXCEPT ![u] = @ \ {i}]
    /\ UNCHANGED <<reqVars, gwVars, poolVars, invokes, errors, busy, stale, upc,
                   upool, late, reapVars>>

-----------------------------------------------------------------------------
RequestStep(r) ==
    \/ AcquireMissing(r) \/ AcquirePool(r)
    \/ Grab(r) \/ Reserve(r) \/ Block(r)
    \/ SpawnFailed(r) \/ Spawned(r)
    \/ BodyRejected(r) \/ InvokeFailed(r) \/ InvokeOk(r)
    \/ Unlock(r) \/ Signal(r)

UpdaterStep(u) ==
    \/ \E m \in Sizes : ApplyPut(u, m)
    \/ ApplyDelete(u)
    \/ Close(u)
    \/ Detach(u)
    \/ \E i \in Requests : CloseInstance(u, i)

ReaperStep ==
    \/ Reap
    \/ \E i \in Requests : CloseVictim(i)

\* Every request has been answered; there is nothing left that must happen.
Quiescent ==
    /\ \A r \in Requests : pc[r] = "done"
    /\ UNCHANGED vars

Next ==
    \/ \E r \in Requests : RequestStep(r)
    \/ \E u \in Updaters : UpdaterStep(u)
    \/ \E i \in Requests : Age(i) \/ Die(i)
    \/ ReaperStep
    \/ Quiescent

Spec == Init /\ [][Next]_vars

\* Goroutines make progress (p.mu and g.mu sections are short and sync.Mutex
\* does not starve); a spawn ends by its dial timeout; functions answer or
\* their connection breaks; a Close that was begun runs to its end.
Fairness ==
    /\ \A r \in Requests : WF_vars(RequestStep(r))
    /\ \A u \in Updaters :
          WF_vars(Detach(u) \/ \E i \in Requests : CloseInstance(u, i))
    /\ WF_vars(\E i \in Requests : CloseVictim(i))

FairSpec == Spec /\ Fairness

-----------------------------------------------------------------------------
Pcs == {"start", "scan", "wait", "spawn", "invoke", "unlock", "signal", "done"}
\* An instance on which Close was not called, whether its process runs or died.
Open == {"live", "dead"}
Defs == [by : Updaters \cup {None}, max : Nat]

(***************************************************************************)
(* Type invariant of the gateway's pool bookkeeping.                       *)
(***************************************************************************)
TypeOK ==
    /\ pc \in [Requests -> Pcs]
    /\ rpool \in [Requests -> Requests \cup {None}]
    /\ rdef \in [Requests -> Defs]
    /\ held \in [Requests -> Requests \cup {None}]
    /\ def \in Defs
    /\ cur \in Requests \cup {None}
    /\ instances \in [Requests -> SUBSET Requests]
    /\ spawning \in [Requests -> Nat]
    /\ maxSize \in [Requests -> Nat]
    /\ lifetimeInvokes \in [Requests -> Nat]
    /\ lifetimeErrors \in [Requests -> Nat]
    /\ ist \in [Requests -> {"none", "closed"} \cup Open]
    /\ invokes \in [Requests -> Nat]
    /\ errors \in [Requests -> Nat]
    /\ busy \in SUBSET Requests
    /\ stale \in SUBSET Requests
    /\ upc \in [Updaters -> {"idle", "detach", "close"}]
    /\ upool \in [Updaters -> Requests \cup {None}]
    /\ closing \in [Updaters -> SUBSET Requests]
    /\ late \in SUBSET Requests
    /\ victims \in SUBSET Requests
    /\ stopped \in BOOLEAN

\* acquire's promise: the warm instances of a pool and the spawns under way
\* never exceed its max_concurrency, however requests, the reaper, failed
\* spawns and a concurrent closeAll interleave.
Capacity ==
    \A p \in Requests : Cardinality(instances[p]) + spawning[p] <= maxSize[p]

Holding(r) == pc[r] \in {"invoke", "unlock"}

\* A managedInstance serves one request at a time: no two requests hold the
\* same instance, and the reaper's victims are held by none.
Exclusive ==
    \A r \in Requests : Holding(r) =>
        /\ held[r] \notin victims
        /\ \A s \in Requests : Holding(s) /\ held[s] = held[r] => s = r

\* acquire never returns an instance that was closed: what a pool lists is
\* open, even while closeAll or the reaper is closing what it used to list.
\* (Its process may have died by itself; see Die.)
ListedAreOpen ==
    \A p \in Requests : \A i \in instances[p] : ist[i] \in Open

\* As long as the definition is not replaced, nobody closes the instance of a
\* request before its invocation is over: the reaper never takes it away.
NotReapedInUse ==
    \A r \in Requests : Holding(r) /\ rpool[r] = cur => ist[held[r]] \in Open

\* Whoever uses the mapped pool runs the definition in the cache: its limit,
\* its waiters, its spawns and (named by their spawners) its instances.
MappedPoolIsFresh ==
    cur # None =>
        /\ maxSize[cur] = def.max
        /\ \A r \in Requests : rpool[r] = cur => rdef[r] = def

\* Instance i is in its pool p and a closeAll of p is about to run.
AwaitsTeardown(i) ==
    /\ i \in instances[rpool[i]]
    /\ \E u \in Updaters : upc[u] = "detach" /\ upool[u] = rpool[i]

\* Which instances a gateway can still close: an instance on which Close was
\* not called is listed by the mapped pool, or by one that closeAll is about to
\* empty, or a goroutine is closing it.  The only others are those of requests
\* that were still in acquire when closeAll emptied their pool (`late`).
Accounted ==
    \A i \in Requests : ist[i] \in Open =>
        \/ cur # None /\ i \in instances[cur]
        \/ AwaitsTeardown(i)
        \/ i \in victims
        \/ \E u \in Updaters : i \in closing[u]
        \/ i \in late /\ i \in instances[rpool[i]]

\* No request and no teardown is under way.
Settled ==
    /\ \A r \in Requests : pc[r] \in {"start", "done"}
    /\ \A u \in Updaters : upc[u] # "detach" /\ closing[u] = {}
    /\ victims = {}

\* "applyPut updates the cache and tears down any pool from the previous
\* version", and "Close terminates everything: watcher, reaper, all warm
\* pools" (gateway.go): once requests and teardowns are over, every instance
\* that was not closed belongs to the mapped pool.  Violated: a request that
\* acquire left spawning lists its instance in the pool that closeAll has
\* already emptied, where neither reaper nor Close will find it.
TornDownIsClosed ==
    Settled => \A i \in Requests : ist[i] \in Open => cur # None /\ i \in instances[cur]

\* The counts that Stats reports for the function: with warm instances, theirs
\* and the pool's; without, the pool's, if it has answered anything.
StatsOf(perInstance, lifetime) ==
    IF cur = None THEN 0
    ELSE IF instances[cur] # {} THEN perInstance + lifetime[cur]
    ELSE IF lifetimeInvokes[cur] > 0 THEN lifetime[cur] ELSE 0

StatsInvokes == StatsOf(InvokesOf(instances[cur]), lifetimeInvokes)
StatsErrors  == StatsOf(ErrorsOf(instances[cur]), lifetimeErrors)

\* gateway.go: counters are rolled up "so dashboard metrics don't reset when
\* warm instances expire": as long as the pool stays, the invocations that
\* Stats reports never drop, nor do the errors of a function that answered.
StatsNeverReset ==
    [][cur' = cur => /\ StatsInvokes' >= StatsInvokes
                     /\ StatsInvokes > 0 => StatsErrors' >= StatsErrors]_vars

\* No lost wake-up: a request that got a pool is answered, provided functions
\* answer and spawns end.
Answered == \A r \in Requests : pc[r] = "scan" ~> pc[r] = "done"

-----------------------------------------------------------------------------
(***************************************************************************)
(* The inductive invariant behind the safety properties                    *)
(***************************************************************************)
Spawners(p) == {r \in Requests : pc[r] = "spawn" /\ rpool[r] = p}

\* A pool is known (mapped, used by a request, or being torn down) only once
\* the request that allocates it has run; a pool being torn down is unmapped.
PoolsAllocated ==
    /\ cur # None => pc[cur] # "start"
    /\ \A r \in Requests :
          /\ pc[r] = "start" => rpool[r] = None
          /\ pc[r] \notin {"start", "done"} => rpool[r] \in Requests
          /\ rpool[r] # None => pc[rpool[r]] # "start"
    /\ \A u \in Updaters :
          /\ upool[u] # None => pc[upool[u]] # "start"
          /\ upc[u] = "detach" => upool[u] \in Requests /\ upool[u] # cur
          /\ upc[u] # "close" => closing[u] = {}

\* spawning counts the goroutines between Reserve and the end of the spawn.
SpawnsCounted ==
    \A p \in Requests :
        /\ IsFiniteSet(instances[p]) /\ IsFiniteSet(Spawners(p))
        /\ spawning[p] = Cardinality(Spawners(p))

\* Where a process is: nowhere before it is spawned; then in the pool of its
\* spawner or with exactly one goroutine that will close it; then closed.
ProcessPlaced ==
    /\ \A r \in Requests :
          pc[r] \in {"start", "scan", "wait", "spawn"} => ist[r] = "none"
    /\ \A p \in Requests : \A i \in instances[p] :
          rpool[i] = p /\ ist[i] \in Open /\ i \notin victims
    /\ \A i \in victims : ist[i] \in Open /\ i \in busy
    /\ \A u \in Updaters : \A i \in closing[u] :
          /\ ist[i] \in Open /\ i \notin victims
          /\ \A p \in Requests : i \notin instances[p]
          /\ \A v \in Updaters : i \in closing[v] => v = u

\* A request without an instance is on the mapped pool, or on one that a
\* closeAll will empty, or that closeAll came too early for it.
AcquiringPlaced ==
    /\ \A r \in Requests : pc[r] \in {"scan", "wait", "spawn"} =>
          \/ rpool[r] = cur
          \/ \E u \in Updaters : upc[u] = "detach" /\ upool[u] = rpool[r]
          \/ r \in late
    /\ \A r \in late : rpool[r] \in Requests

\* A request holds a locked instance of its own pool; if that pool is mapped
\* the instance is still listed.
HeldPlaced ==
    \A r \in Requests : Holding(r) =>
        /\ held[r] \in busy
        /\ rpool[held[r]] = rpool[r]
        /\ ist[held[r]] # "none"
        /\ rpool[r] = cur => held[r] \in instances[cur]

\* The inductive invariant: together these facts are preserved by every step
\* of requests, reaper and teardowns, and imply the safety properties above.
IInv ==
    /\ TypeOK
    /\ PoolsAllocated
    /\ SpawnsCounted
    /\ ProcessPlaced
    /\ HeldPlaced
    /\ Capacity
    /\ Exclusive
    /\ MappedPoolIsFresh
    /\ AcquiringPlaced
    /\ Accounted
=============================================================================
