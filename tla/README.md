# cfunc in TLA+

A verification project for cfunc, a small function-as-a-service platform in Go:
TLA+ modules of its parts, TLC configurations that check them on small
instances, and TLAPS proofs of all its safety properties, and of a refinement,
for every size of the system.

All paths are relative to the repository; `internal/gateway/gateway.go` is meant
where only `gateway.go` is named.

## 1. The system and its parts

A **gateway** process answers `/fn/...` requests. For every function it keeps a
pool of warm processes, each of which serves one request at a time over a
socket. Definitions come from a **store** (in memory, or Postgres shared by
several gateways), of which every gateway keeps a cache that it refreshes from
the store's change events. A **rate limiter** counts requests per project
against limits in the store. **Schedulers** fire cron jobs through the gateway;
of several instances on one Postgres only the leader may fire. **Layers**
(read-only file trees) are content-addressed and pulled on demand. The rest is
command line, dashboard, builder, container plumbing and SDKs.

| part | state | operations | interacts with | hard about it |
|---|---|---|---|---|
| instance pool (`gateway.go`, `stats.go`) | `g.functions`, `g.pools`; per pool `instances`, `spawning`, lifetime counters; per instance `busy`, `lastUsed`, counters | `acquire`, `release`, `reapOnce`, `applyPut`, `applyDelete`, `closeAll`, `Close`, `Stats` | request goroutines, reaper and updaters share `g.mu`, `p.mu`, `p.cond` and the `busy` mutexes | spawning, invoking and closing happen outside the locks; a request keeps a pool that may be replaced under it; wake-ups |
| definition cache (`gateway.go` on `internal/state`) | each replica's `g.functions`, the store's rows, Watch channels, LISTEN connections | `RegisterDefAs`, `UnregisterAs`, `bootstrapCacheFromStore`, `watchStore`/`applyEvent`, `dispatch`, `broadcast`, `listen` | replicas through the store and its notifications | the cache is written both by the call itself and by the event; events are dropped, lost or late; start-up races |
| rate limiter (`internal/quota`) | `local` counters, `remote` aggregates, `limits`; usage rows by minute | `Allow`, `flush` | gateways through the usage table | decisions on stale aggregates; minute boundary; failing pushes |
| cluster scheduler (`internal/scheduler/state.go`) | cron entries, `isLeader`, the advisory lock, Watch channel | `Start`, `run`, `reconcile`, `tryLeader`, `fire`, `Stop` | instances through a session lock and cron events | leader failover; lost sessions; dropped events; a reconcile that stops half-way |
| file scheduler (`internal/scheduler/scheduler.go`, `cmd/scheduler`) | jobs file, cron entries, calls in flight, signal channel | `Store.Add/Remove/List`, `Start`, `Reload`, `Stop`, `FireNow` | commands and daemon through a file and a shared `.tmp`; signals | commands do not exclude each other; reload that stops half-way; dropped signals; crash between system calls |
| layer resolver (`internal/gateway/layers.go`) | in-flight map, cache directory | `Resolve`, `ensureLocal` | requests through a single-flight map; processes through the directory; object storage | a waiter of a failed pull; crash while extracting; two processes |
| layer store (`internal/layers/store.go`) | blobs, manifests, tag index | `Open`, `Add`, `Resolve`, `List` | CLI processes through the file system | crash between the three writes; lost index updates; shared `.incoming` and `.tmp` |
| function process (`internal/spawn`, `internal/wire`, `sdks/go`) | process, socket, reader/writer position | start and accept, `Invoke`, `Close`; the SDK's `Serve` | gateway and function over one socket | `Close` uses the socket without the lock of `Invoke`; start timeout racing a late dial; dropped replies |
| routing, keys, tokens (`gateway.go`, `internal/auth`) | none (keys in the store) | project and scope checks | every request | a key or function that changes between check and use |
| tenancy (`internal/state/*tenancy*`) | projects, keys, quotas, audit log | create, delete, revoke, set | CLI, admin API | deletion of a project in use; change and audit entry are two steps |
| migrations (`internal/state/postgres.go`) | applied versions | `migrate` | processes that start together | two processes apply one migration |
| dashboard (`internal/dashboard`) | log ring, subscribers | log fan-out, admin API | web sockets | snapshot and subscription are two steps |
| builder, manifest, OCI, runc, TLS, CLI, templates | none of their own that is shared | generate, parse, execute | external programs | — |

What makes the parts correct, in short: a pool never exceeds its limit, shares
an instance or hands out a closed one, loses a count or a wake-up; caches hold
only what the store accepted and come to equal it; a limit is overshot by a
bounded amount and every admission counted once; one scheduler leads, someone
takes over, engines follow the store, each up to the exceptions its property names; a layer on the host is whole or absent;
request and reply pair up and a closed process leaves nothing; an acknowledged
edit of a file is not lost and a crash breaks nothing; a dead key opens nothing
and a call stays in its project.

`PROJECT.json` lists every component with its status, and the hazards: the
places where the code could go wrong in a way a test would hardly reach, each
with the properties that watch it.

## 2. Modules

Every module is written from the code; `PROJECT.json` maps each definition to
its lines. Definitions called "Faulty variant" are never part of a
specification: each is a plausible mistake in the code, kept to show that a
property would notice it (`PROJECT.json`, "mutants").

### Pool — the instance pool of one function

One action per critical section of `g.mu` or `p.mu`, and one for each thing done
outside them. A request goroutine goes through the phases of `pc`:

    start -AcquirePool-> scan -Grab------------------> invoke -BodyRejected / InvokeFailed / InvokeOk-> unlock
                         scan -Reserve-> spawn -Spawned-> invoke                unlock -Unlock-> signal -Signal-> done
                         scan -Block--> wait (until a Broadcast)                spawn -SpawnFailed-> done

* `Grab`, `Reserve`, `Block` are the three ways one turn of `acquire`'s loop
  ends, with `Free` (TryLock succeeds) and `HasRoom` (`len(instances)+spawning <
  maxSize`). `Block` releases `p.mu` and waits in one step, as `cond.Wait` does.
* `SpawnFailed` covers a failing layer resolution and a failing spawn: both give
  the reservation back and Broadcast.
* `release` is two steps, `Unlock` (no lock held) and `Signal` (under `p.mu`).
* `Reap` is the locked part of `reapOnce`, `CloseVictim` what follows. It may
  miss an expired instance: `now` is read before the locks and `busy` tried for
  one instance after the other while `release` unlocks freely. `Age` lets
  `IdleTTL` pass; `InvokeOk` refreshes `lastUsed`.
* `ApplyPut`, `ApplyDelete`, `Close` unmap the pool under `g.mu`; `Detach` and
  `CloseInstance` are `closeAll`. The history variable `late` has the requests
  that were still in `acquire` when `Detach` emptied their pool.
* An instance is live, dead (`Die`: its process ended, which nobody watches for)
  or closed (`Close` was called on it). A dead one keeps its place in the pool and
  is handed out again; an invocation fails or succeeds on its own account.
* `StatsOf` is what `Stats` reports, with its special case for a pool without
  warm instances.

Names share only `g.mu`, so one function is enough. The slice of instances is a
set: the code takes the first free one, the model any. A request allocates at
most one pool and one instance, so both carry its name; no identifier is reused.

### StateSync — the cache of one definition on every replica

`PutStore`/`ReadHadDef`+`DeleteStore` change the row, `ApplyOwn` is the call's
own update of the cache, `AppendAudit` the step in which it appends its audit
row (what is in the log is Access's subject). In Postgres the trigger
announces in commit order into the LISTEN connection of each replica (`pipe`),
`Dispatch` offers it to the Watch channel, which drops it when full. In the
in-memory store mutation and `Broadcast` are two critical sections. The Watch
loop takes an event (`NextEvent`), re-reads the row (`Fetch`) and applies it
(`ApplyFetched`) as separate steps. Replicas start in two steps (`Bootstrap`
lists, `Subscribe` watches), crash, lose and redial their connection; queries
fail. `disturbed` is a history variable: the replicas that missed an
announcement, or had a write of their own overtaken, since they last listed.

### Quota — `Allow` and `flush`

`ReadLimits` is `Allow`'s section under the lock; `Admit`, `Deny` and
`AdmitUnlimited` decide on the current counter but on the limit and aggregate
read before. `flush` is cut at every point where something else can happen:
choice of the bucket, swap, push, limits, usage, publish; pushes and refreshes
fail. `NewMinute` is the clock. There is no timing assumption: a flush may begin
right after another, as it does when one outlasts the interval (the ticker keeps
one tick) and in `Close`. `passed` has the calls that have looked at an aggregate
older than the one published when a flush begins, `overtaken` counts those of them
that were admitted; both are history, like `admitted`, `total`, `misdated`, `lost`
and `impaired`. There are
finitely many gateways, so that what they count has a sum (`QuotaAssumption`).
The specification is called `QuotaSpec`: the proofs about Quota and Pool share
a module and the lemmas on sums.

### CronLeader — the cluster scheduler

`Start` subscribes, lists, reconciles and tries to lead, in this order; `run`
then handles events (`TakeEvent`, `ListJobs`, `Reconcile` or `ReconcileFails`)
and leader ticks. `reconcile` reads outside its lock and stops at the first
schedule that does not parse, after an arbitrary part of the others (Go's map
order). The advisory lock belongs to a session; `LoseSession` takes it away
without telling the instance (`orphaned`). `Stop` leaves running triggers
running. A Watch channel carries the events of functions too (`EditFunction`,
`SkipEvent`), which take room in it and lead to no reconcile; `missed` has the
instances that lost a cron event with no listing ahead, `behind` those whose last
reconcile stopped half-way. Events reach the channels with the edit: their delay
and loss on the way is StateSync's subject.

### LayerCache and LayerResolver — layers on the host

`LayerCache` is an abstract specification: a layer is installed in one step, as
exactly the tree its digest names, and never changes; a call succeeds only when
all its layers are there. `LayerResolver` is `ensureLocal` step by step: the
first look (`Stat`), the slot in `r.pulling` (`LockSlot`: take it or wait for
its channel), the second look (`Recheck`), `Get`, one tar entry at a time
(`ExtractEntry`, with `Acceptable` for what `safeJoin` and the symlink rule
refuse and `Written` for what is unpacked), `Verify`, `Rename`, and the deferred
functions (`Unwind`: `Cleanup`, `FreeSlot`). Several processes share the cache
directory, each with its own `r.pulling`; they die and restart and leave what is
on disk. A tree is a function from paths to contents, an archive a hash and a
list of entries. `Cache` instantiates `LayerCache` with the refinement mapping:
`target` is the abstract tree, `wantedBar` the layers among a call's mounts, and
`answerBar` its answer; a call that has waited for a failed pull (`Misled`) counts
as failed, whatever it was told.

### FuncProcess — one instance from spawn to Close

The socket is two sequences of half frames, because `WriteFrame` makes two writes
and `ReadFrame` two reads and `Close` shares the connection with a running
`Invoke` without a lock. `gw[x]` is the position of a caller, or of `Close` with
its drain goroutine, in that exchange; `Bitten` is what happens when four bytes
of a payload are taken for a length. `MakeSocket`, `Launch`, `Accepted`,
`Deliver`, `Ready`, `AcceptFails`, `DialTimeout`, `CleanUpStart` are
`Start`/`StartRunc` with `acceptOrKill` and its goroutine; `CloseStop`,
`CloseWait`, `CloseFinish` the rest of `Close`; `Dial` to `FnWriteBody` the SDK.
Both ways to run a function (`mode`) are initial states. `Refuse` is `WriteFrame`'s
own check of the size of a request; handlers may hang, die or produce a reply that
is too large. A process that was killed and not waited for is `exited`, one that
was is `reaped`; `rootfs` is the root directory that `EnsureBaseRootfs` makes for a
container.

### AtomicFile, LayerStore — files that processes share

`AtomicFile` is the way `atomicWrite` and `save` replace a file: truncate the
`.tmp`, write it, rename it. Processes share the `.tmp`, and a descriptor that
was opened before a rename writes to wherever the file is now. `LayerStore`
instantiates it for manifests and index; `Add` is cut at every system call, the
copy of the tree file by file. `s.mu` serialises one process only. `overlap` and
`raced` are history: which operations really had the index, or one blob, in
hands at the same time.

### FileCron — the single-host scheduler

Commands and the daemon are processes on one jobs file (`AtomicFile` again, and
`Create`/`Fill` for `OpenStore`, which creates the file in place). The daemon's
`Reload` is three steps, `ReloadList`, `RemoveEntries`, `ReloadAdd`: the file is
read before the lock on the entries is taken, and adding stops at the first
schedule that does not parse. Time is a cycle of ticks, a schedule the set of
ticks at which it fires; `SameSchedule` compares next ticks, as the code does.
Signals go through a channel of capacity one.

### Tenancy and Access — who may do what

`Tenancy` has the tables with their foreign keys, `migrate` as processes that
start at once run it (`Check`, `Body`, `Record`, and `DatabaseFails` for an error of
any of its queries, a context that ends, or a Commit of which nobody knows whether
it succeeded), and the commands `project`, `key`, `quota`, `audit`: one change,
then an audit entry whose failure is ignored. `CronPut` and `CronDelete` change the
jobs that restrict the deletion of a project; no command of the tool calls them.
`by` and `unlucky` are history: who applied a version, and whom the database failed. `Access` extends it with the gateway: start-up, the admin port (token,
registration, removal), and calls of functions, in the steps between which
something can change: `APIKeyAuth` (look the key up), `Route` (compare projects),
`Invoke` (look the function up again). At the admin port a registration is one
step; row, cache and audit entry are apart in StateSync. The store is Postgres or
memory. At this
commit `cmd/gateway` does not wrap the function port in `APIKeyAuth`; both ways
are initial states (`guarded`), and the properties speak of the guarded one.

### Other modules

`GatewayProofs` (about Pool and Quota), `SyncProofs`, `CronProofs`,
`AccessProofs`, `LayerStoreProofs`, `FuncProcessProofs`, `FileCronProofs` and
`ResolverProofs` hold the proofs, each about the modules it extends (section 4). The `MC` modules give TLC values.
Components are composed where they share state: `Access` with `Tenancy`,
`LayerStore` and `FileCron` with `AtomicFile`. The others meet only at an
interface that both sides contain (a spawn that succeeds or fails, an instance
that is live, dead or closed, an event channel).

## 3. Runs

### Passing

| run | instance | checks |
|---|---|---|
| `pool` | 3 requests, 1 replacement/deletion/shutdown, `max_concurrency` 1 or defaulted (2) | `TypeOK`, `Capacity`, `Exclusive`, `NotReapedInUse`, `MappedPoolIsFresh`, `Accounted`, no deadlock |
| `pool_live` | 2 requests, 1 updater, fairness | `Answered`, `StatsNeverReset` |
| `sync` | 2 replicas, 2 overlapping calls, both stores, all faults, channel of 1, fairness | `TypeOK`, `NoPhantom`, `Converged`, `EventuallyMirrored`, no deadlock |
| `quota` | 2 callers, limit 2, one minute boundary, first flush included, flushes at any distance, all faults | `OvershootBound`, `Conserved` |
| `cron` | 2 schedulers, 2 jobs, a good and a bad schedule, 2 edits of jobs or functions, channel of 1, all faults, fairness | `TypeOK`, `OneLeader`, `SchedulesConverged`, `Takeover` |
| `resolver` | 2 calls in 1 or 2 processes, 3 archives (good, refused, damaged), one digest in two spellings, all faults, fairness | `TypeOK`, `RefinesLayerCache`, `EveryCallAnswered`, no deadlock |
| `process` | 2 requests and Close, process and container, all faults, fairness | `TypeOK`, `OwnReply`, `FailedStartCleansUp`, `CloseCompletes`, `InvokeReturns` |
| `layer_store` | 3 operations (add, show, list) in 2 processes, 2 digests, 2 versions, crashes | `TypeOK`, `IndexedIsComplete`, `AckedStaysIndexed`, `CrashIsHarmless` |
| `file_cron` | 2 commands and the daemon, 2 ids, 2 signals, 2 starts, crashes, fairness | `TypeOK`, `AckedStays`, `FailureHasCause`, `SettledStaysScheduled`, `HupTakesEffect` |
| `access` | 2 commands, 1 gateway, 1 admin request, 1 call, 3 projects, new and old database (with a function and a job in projects of their own) and memory, all faults | `TypeOK`, `ReferencesHold`, `FailedStartHarmsNobody`, `RevokedKeysAreDead`, `CallsStayInProject` |

Why the bounds are enough. *Pool*: two requests fill a pool of one and one waits;
with a pool of two, three requests let two spawns race for the last slot while a
third waits; one updater under three requests reaches old and new pool at once
(the third request may allocate the new one). Requests are symmetric, and in `pool`
and `pool_teardown`, whose properties do not speak of counters, states that differ in
counters only are one (`Uncounted`): no guard reads a counter. Any number of updaters is in the proofs. *StateSync*: a stale cache needs two calls, or one
call and a start; a channel of one overflows with two events. *Quota*: with a
limit of 2 the two windows of the bound are 4 admissions, 6 are explored, which
leaves room to exceed it; callers are symmetric. *CronLeader*: two edits overflow a
channel of one, with a cron event behind another or behind one of a function; with
two jobs a bad schedule keeps a good one out, and they need not be created first,
since any contents of the table are initial. *LayerResolver*: one call pulls and one
waits, or both pull in different processes; lists of mounts let a call fail at
its second layer; an archive with a path that occurs twice tells the order of
extraction. *FuncProcess*: an Invoke under Close and one after another; more
callers wait at the mutex. *LayerStore*: two operations in one process and one
beside it, so that one overlaps and the other comes after a crash. *FileCron*:
two commands overlap; two signals fill the channel during a reload; two starts
are a crash and a restart; two ticks let schedules agree on the next one and not
on the one after. *Access*: three processes race for a migration; a call, a
command and an admin request are one of each party of every race named below;
the plans pair commands that depend on each other. States that differ only in what
is never read (answers at the admin port, other audit entries) are one (`Relevant`).
`file_cron`, `process` and `access` do not check deadlock: their commands end,
and a function whose handler hangs may stop for good.

What each property means:

* `Capacity`, `Exclusive`, `NotReapedInUse`, and `ListedAreOpen` (proved only): the pool's
  promises to a request: instances within the limit, its own, and not closed
  under it. (That its process is alive the gateway cannot promise.)
  `MappedPoolIsFresh`: although definition and pool are fixed long before they are
  used, whoever is on the mapped pool has the cached definition. `Accounted`: an
  instance that was not closed is in the mapped pool, in one about to be emptied,
  or being closed, but for those of requests that were in `acquire` when `closeAll`
  ran (`late`); `pool_teardown` shows that these are lost.
* `StatsNeverReset`: counters survive the reaper, as the comment in `reapOnce`
  promises, with a reservation the code forces:
  `Stats` shows the lifetime errors of a pool without instances only if it ever
  answered (`stats.go:153`), so the errors of a function that has only failed do
  drop to zero with its last instance.
* `Answered`: no lost wake-up. `closeAll` sends no Broadcast, yet a waiter on a
  torn-down pool is woken by the release of the request whose slot it waits for.
* `NoPhantom`: a failing store call never leaves a version in a cache.
  `Converged`, `EventuallyMirrored`: a replica that missed nothing equals the
  store when things calm down. The condition `disturbed` is the precise list of
  what breaks this: an event dropped at a full channel, a mutation while the
  LISTEN connection was down or between listing and subscribing, a failed
  query, a write of its own that was overtaken.
* `OvershootBound`: operations.md allows "one bucket-window" of overshoot. It
  holds with two more terms, the requests that a minute boundary inside `flush`
  dates back (`misdated`) and the calls that one flush and the beginning of the next
  passed by between their look and their decision (`overtaken`; TLC refutes the bound
  without it), and not for a gateway before its first flush (no limit is known,
  everything is admitted) or with failing pushes (`impaired`). `Conserved`:
  every admission is in exactly one place, and only a failed push loses some.
* `OneLeader`: how far the advisory lock excludes. Two instances lead or have
  triggers under way at the same time only if one was stopped while its triggers
  ran or lost its session; without either exception it is false. `Takeover`: the
  lock always finds a new owner. `SchedulesConverged`: every handled cron event makes
  up for dropped ones, since `reconcile` lists everything, unless an event was
  dropped behind events of functions or its listing failed (`missed`); a reconcile
  that met a bad schedule may lack jobs but keeps none that is outdated.
* `RefinesLayerCache`: whatever crashes, breaks off or races, a directory under
  the cache root is a whole, verified layer from the step in which it appears,
  and a call that succeeds has all its layers, unless it waited for a pull that
  failed. `TreeOf` is the reference for extraction, written without the loop.
  `EveryCallAnswered`: a waiter is woken however the pull ends, without having to
  rely on its own deadline.
* `OwnReply`: ids are never compared, only the order on the socket pairs request
  and reply, also under `Close`, and frames mix only then; a request that is refused
  for its size leaves no half frame. `FailedStartCleansUp`: nothing runs or listens
  after a failed start, and what stays is stated: a killed host process that nobody
  waits for, the root directory of a container. `CloseCompletes`: Close ends and the
  process is reaped, whatever the function does. `InvokeReturns`
  names the two ways an Invoke can wait for ever: a handler that hangs, and a
  reply the SDK drops because it is too large.
* `IndexedIsComplete`, `CrashIsHarmless`: the order blob, manifest, index makes
  every crash leave at most garbage. `AckedStaysIndexed`, `AckedStays`: read,
  change, write back loses nothing as long as processes do not really overlap;
  `overlap` is the exact condition, and without it both are false. Both speak of each
  acknowledged edit by itself: it stays in effect until a later one of the same id,
  in a file that parses. Overlapping operations do harm to others only by leaving a
  file that does not parse (they share one `.tmp`), which both properties state.
  `FailureHasCause`: the one harmful crash is between creating and filling the
  jobs file; a daemon that fails to start for another reason met an invalid
  schedule, which is still in the file or was edited away by an acknowledged
  command since. `SettledStaysScheduled`: a `Reload`, even a failing one, never
  unschedules a job that did not change. `HupTakesEffect`: a dropped SIGHUP is
  made up for by the one that fills the channel.
* `ReferencesHold`: keys, quotas, functions and jobs never outlive their project, also
  through the second migration's backfill. `FailedStartHarmsNobody`: a start that
  fails in `migrate`, or dies there, leaves no transaction open and no half migration
  visible; and one that fails although the database works has lost a race to one that
  did not lose, so of processes that start at once somebody gets through.
  `RevokedKeysAreDead`, `CallsStayInProject`: authentication and routing against
  concurrent revocation, deletion and registration. A key needs scope `invoke` itself
  and never counts as one of every project, and the only gap is a function that
  changes its project between `Route` and `Invoke` (`moved`).

### Violations: where a comment and the code disagree

`sync_concurrent` checks `NeverLeftBehind`, which follows from "there's exactly
one code path that mutates gateway state" (`gateway.go:388`). TLC finds it
violated: calls apply their own write after the store call (`RegisterDefAs` at
`gateway.go:411`, `UnregisterAs` at `gateway.go:434`), unordered with each other and
with the Watch loop, so of two overlapping calls on one replica the older may stay
in its cache for good. In TLC's trace it is the `applyDelete` of an older delete.

`pool_teardown` checks `TornDownIsClosed`, which follows from "applyPut updates the
cache and tears down any pool from the previous version" (`gateway.go:317`) and "Close
terminates everything: watcher, reaper, all warm pools" (`gateway.go:450`). TLC finds
it violated: a request whose spawn ends after `closeAll` emptied its pool puts the
instance into that pool (`gateway.go:654`), which is not in `g.pools` any more; neither
reaper nor `Close` finds it.

Further disagreements, seen in the models but without a run of their own:

* `gateway.go:263` says "Watch will catch up": a mutation between listing and
  subscribing is never seen (`disturbed` in `Converged` names it).
* operations.md:369 says every state-changing call appends an audit row:
  `UnregisterAs` asks its own cache, which may lag, whether there was anything to
  delete.
* STRATEGY.md:115 says exactly one scheduler may fire ("Genau **einer** darf
  feuern"): a leader never notices that its session, and the lock with it, is gone
  (`scheduler/state.go:154`), and `Stop` (`state.go:118`) releases the lock without
  waiting for the triggers it leaves running. `OneLeader` excepts both.
* `internal/state/state.go:148` says subscribers see every mutation, `inmem.go:11` that
  they receive every one: both stores drop events at a full channel (`inmem.go:161`,
  `postgres.go:420`) and Postgres loses those of a broken connection. A cron event that
  is dropped behind events of functions, on which `run` does not reconcile
  (`scheduler/state.go:149`), is not made up for until the next cron event.
* `gateway.go:433` ignores an error of `DeleteFunction`: the replica clears its own
  cache and answers as if the function were gone, which the store still has.
* `gateway.go:540`: after a failed Invoke the instance stays in the pool, also if its
  process is dead; it fails every request it is handed to until the reaper takes it.
* operations.md:326 says scope `admin` "implies the others": `HasScope`
  (`auth/apikey.go:27`) looks for the named scope only, so a key with `admin` alone may
  not call a function.
* The in-memory `DeleteProject` (`inmem_tenancy.go:66`) deletes the project and nothing
  else: its keys go on authenticating, which in Postgres are deleted with it.
* `spawn.go:77`: a process that did not dial in time is killed and never waited for,
  so it stays a zombie until the gateway ends.
* A body of up to 8 MiB is accepted and may exceed the 16 MiB of a frame once it is
  quoted (`gateway.go:742`): `WriteFrame` refuses it (`wire.go:58`) and the client is
  told 502, as if the function had failed.
* Overlapping commands share the `.tmp` of the index and of the jobs file: one may
  rename what the other is still writing, and the file does not parse. For the jobs
  file `scheduler.go:7` says that there is no locking yet; for layers nothing does.
* `state.go:185` of the scheduler says reconcile syncs the engine with the store,
  `scheduler.go:235` that modified jobs are reseated: the first replaces an entry
  only if its schedule changed, the second only if the next tick differs at that
  moment. A changed body or function keeps the old entry in both.
* `layers.go:99` says ensureLocal returns the path after pulling: a waiter is
  told so although the pull it waited for failed (`layers.go:116`, `Misled`).
* `layers/store.go:92` says an Add of known content returns the existing manifest:
  it overwrites that manifest, so the older name now shows the newer's data.
  `store.go:165` says an omitted version is the most recently added one: it is
  the one that sorts last.
* `tenancy.go:7` (state) says `default` cannot be deleted while it holds
  resources: the in-memory store checks nothing.
* `spawn/runc.go:23` promises a root file system in one temporary directory per
  process: a new one is made for every container (`runc.go:65`) and never removed.
* A replacement closes instances that are serving a request (developer.md:211 calls
  it graceful); one bad schedule keeps other new jobs out of the engine, although
  `scheduler/state.go:185` says that new jobs are added.

### Fairness

* *Pool*: every request goroutine keeps running (mutexes do not starve, a spawn
  ends by its dial timeout, an invocation ends when the function answers or its
  connection breaks), and a teardown or a reaper pass that was begun ends. No
  fairness for the reaper to begin, for updaters, or for time.
* *StateSync*: a call that was begun ends, listener and Watch loop drain their
  queues, a starting replica subscribes, a broken connection is redialled. None
  for calls to be made, replicas to start, or faults.
* *CronLeader*: the queries of a reconcile end; the `select` of `run` is served
  fairly between its ready cases (strong fairness, as Go chooses at random), and
  of infinitely many leader ticks that could get the lock one does. None for
  starting, stopping or faults.
* *LayerResolver*: a call that was begun keeps running; its download has the two
  minutes' deadline that `acquire` sets. None for calls to be made, for timeouts
  of waiters, crashes or restarts.
* *FuncProcess*: the gateway's goroutines and the SDK's loop run, timers expire.
  A handler that hangs is a step after which the function owes nothing, and the
  function may die at any time. None for requests, Close or faults.
* *FileCron*: the daemon's main loop runs, and every call it fired ends by its
  five minutes' timeout. None for commands, signals, the clock or restarts.

## 4. Proofs

All are checked by TLAPS, for any (even infinite) sets of requests, updaters,
replicas, calls, schedulers, commands, processes, keys, layers and jobs; only
the limiter's gateways must be finitely many. They rest on the modules' `ASSUME`s only, which TLC evaluates on every run; most say
that values which stand for "nothing" (`None`, `Absent`, `Garbled`) are no
members of the sets they are compared with, and that inputs are well-formed.
Those with content are named below.

Every inductive invariant was checked by TLC on the run's instance before it was
proved. A proof has one lemma per action, or per kind of step where many actions
look the same to an invariant (in `ResolverProofs` a call `Begins`, `Walks`,
`Joins`, `Takes`, `Works`, `Ends`; in `FileCronProofs` a step is `Aside`, `Opens`,
`Edits` or one of five writes); the last theorem of each component combines them.

**GatewayProofs: the pool.** From `PoolAssumption` (`None` is no goroutine, sizes are
integers, the default is positive). `Capacity` and the other properties are not
inductive: that a finished spawn fits depends on `spawning` really counting the
goroutines that are spawning, that the reaper takes nothing in use on where a
held instance is listed. `IInv` adds

* `PoolsAllocated` — a pool is known only after the request that allocates it
  ran, and a pool being torn down is not mapped;
* `SpawnsCounted` — `spawning[p]` is the number of requests between reservation
  and end of spawn, and the sets are finite;
* `ProcessPlaced` — an instance is nowhere, in its spawner's pool, or with exactly
  one goroutine that will close it;
* `AcquiringPlaced` — a request without an instance is on the mapped pool, on one
  that a `closeAll` will empty, or on record as `late`;
* `HeldPlaced` — a request holds a locked instance of its own pool, still listed
  if that pool is mapped.

`InductiveInvariant` gives `TypeCorrect`, `CapacityHolds`, `ExclusiveHolds`,
`ListedAreOpenHolds`, `NotReapedInUseHolds`, `MappedPoolIsFreshHolds` and
`AccountedHolds`.

*Wake-ups.* `Answered` needs, besides fairness, that `acquire` never waits for
nothing, although the last user of a full pool may be serving a pool that was
replaced, and `closeAll` wakes nobody. `NoLostWakeupHolds`: as long as a request
waits, another is spawning, invoking or releasing on the same pool and will
`Broadcast` there. `WakeInv` gives the reason: a pool has room for at least one
instance (`SizesPositive`), and what is listed and locked is held by a request
(`LockedIsHeld`), so a request that finds no room finds somebody to wait for.

*What Stats reports.* `StatsNeverResetHolds`: as long as a pool stays mapped its
invocations never decrease, nor do the errors of a function that has answered,
whatever is spawned, reaped or released; what an instance that leaves has counted
is added to the lifetime counters in the step that takes it from the sum. This is
an action property about sums over the set of instances.

*Sums.* `SumOver` (and Quota's sums) are folds, and what a fold computes for every
finite set takes induction, which the library offers only with an operator as
parameter. The proof takes its least-element theorem instead (`WFMin`, on the
numbers and on the subsets of a finite set): of the counterexamples, as a set,
consider a least one. From it come `SumPick`, `SumType`, `SumSame`, `SumMonotone`,
`SumSplit`, `SumMember` and `SumChange`, which say how a sum moves when one term
moves or one member comes or goes.

**GatewayProofs: the limiter.** From `QuotaAssumption`. `OvershootBound` is about
decisions on numbers that are old: the invariant must say how old. `Taken` is
what a gateway has admitted in this minute and swapped out of its counter.
`PushedInv`: it is in the row of this minute, or in the swapped count about to be
added, and a flush that publishes has read at least that much (`UsageSince` is at
least the row of this minute, by `SumMember`). `LagInv`: between flushes the
published aggregate has all of it; during a flush it misses at most one full
counter, and so does what a call has read that is about to decide, unless a second
flush began since (`passed`); such calls are counted in `overtaken` when they are
admitted. All this for a gateway that no fault has impaired. Hence `OvershootBoundHolds`, for any number of
gateways, callers and minutes and any limit. `ConservedHolds`: counters, swapped
counts, lost ones and rows always sum up to what was admitted, so no request is
counted twice or forgotten but by a push that failed.

**SyncProofs.** `AcceptedInv`: every place that holds a version on its way into
a cache (the row, what a Watch loop has read, what a call will apply) holds one
the store accepted. Hence `NoPhantomHolds`, and `SyncTypeCorrect` with the bound
of the channels. `Converged` says something only of a replica at rest; the
invariant must say why it gets there. `MirrorInv`, for a replica that missed
nothing: the last event queued, in the connection or in the channel, announces
the row as it is; what the Watch loop has read is the row, or more events follow;
calls at this replica are about to apply the row as it is; and with nothing under
way the cache equals the row. `LinkInv` says what a replica that is down, or the
in-memory store, cannot have. Hence `ConvergedHolds`.

**CronProofs.** `LeadershipInv`: who holds the lock believes it leads; who
believes it leads holds the lock or lost its session; only such an instance has
triggers under way between Start and Stop (what Stop leaves running is the other
exception of `OneLeader`). Hence `OneLeaderHolds`,
`LockReleasedHolds` and `CronTypeCorrect`. `MirrorInv`: an instance with no
event left has listed the jobs as they are, and after a reconcile that succeeded
its engine has their schedules, after one that did not a part of them; a cron event
that is dropped leaves a cron event or a listing ahead, or the instance on record as
`missed`. Hence `SchedulesConvergedHolds`.

**AccessProofs.** Besides well-formed inputs this uses `FreshKeys`: two commands
do not create the same key, whose id `cfunc key create` draws at random
(`cmd/cfunc/tenancy.go:150`). `TenancyInv` has
the order of migrations (`MigratedInv`: whatever a process has passed is applied),
that nothing refers to a project before the second one (`UntouchedInv`), without
which its foreign keys could fail to hold when they come into being, and the life
of a key (`KeysInv`: no row before its creator's change, none again once it is
revoked). `WholeInv` says that no transaction outlives its process and none of it is
visible before it is recorded, `RaceInv` that who applied a version has not lost a
race itself. `CallInv` carries what was true when a call was authenticated and
routed up to the step that serves it. Hence `ReferencesHoldAlways`,
`FailedStartHarmsNobodyHolds`, `RevokedKeysAreDeadHolds`, `CallsStayInProjectHolds`
and `AccessTypeCorrect`.

**LayerStoreProofs.** The history variables are first shown to record what they
should: `OverlapInv`, two operations on the index at the same time are in
`overlap`; `RacedInv`, a digest stored twice at the same time is in `raced`. An
operation that is not on record then finds its files as it left them (`BlobInv`
for blob and manifest, `IndexInv` for the shared `.tmp` of the index), every
index, written, being written or in memory, names only what is complete
(`CompleteInv`), and each of them keeps every acknowledged entry but the one its
writer is about to change (`AckedInv`). Hence `IndexedIsCompleteHolds`,
`CrashIsHarmlessHolds`, `AckedStaysIndexedHolds`, `LayerStoreTypeCorrect`.

**FuncProcessProofs.** `StartInv`: how far a start is, and which process,
directories and listener exist then; hence `FailedStartCleansUpHolds`.
`OwnReply` needs two arguments. Until `Close`, gateway and function take turns
strictly (`QuietInv`), so a caller finds a whole reply or the beginning of one.
With `Close` on the socket frames may mix, and what remains is `MatchInv`:
whatever is under way in either direction, and what the function works on, is no
request or reply of anybody but the holder of the lock. `LoadInv` counts half
frames, written and still to be written, which bounds the socket. Hence
`OwnReplyHolds` and `FuncProcessTypeCorrect`. `ClosedLeavesNothingHolds` is the
safety part of `CloseCompletes`: the process is reaped and the bundle gone before
`Close` goes on to the socket, and once it has returned nothing comes back.

**FileCronProofs.** `OverlapInv` as above; it leaves a process that is not on
record alone with the temporary file (`AloneInv`). From there: the file parses
unless somebody is filling it or a crash cut that short (`CauseInv`); the file,
and every list that is going to replace it, keeps all acknowledged edits
(`AckedInv`); as long as nobody is on record, jobs leave it by such an edit only
(`LastingInv`); and a job that stays in the file is in every list the daemon
compares its entries with (`SettledInv`). Hence `AckedStaysHolds`,
`FailureHasCauseHolds`, `SettledStaysScheduledHolds`, `FileCronTypeCorrect`.
`HangupKeptHolds` is the safety part of `HupTakesEffect`: after a SIGHUP, and as
long as the file stays as it is, a signal is in the channel, or the Reload under
way has yet to read the file or has read it as it is, or the file is loaded
(`HangupInv`; `AddMatches` says that the second half of a Reload makes the entries
those of its list).

**ResolverProofs.** That the detailed specification implements the abstract one,
`ResolverRefinesLayerCache`: initial states map to initial states, and every step
to `Ask`, `Install`, `Succeed`, `Fail` of some calls, or a stutter. Three facts
carry it. *Extraction*: the loop over entries leaves exactly `TreeOf` of the
archive (`WrittenIsTree`, `ExtractionCorrect`); this is proved for every archive,
since a tree is described entry by entry (`IsTreeOf`) and each step adds one, so
no induction over the archive is needed. It uses that a digest belongs to one
archive (`LayerResolverAssumption`: SHA-256 does not collide). *Slots*: a slot in
`r.pulling` is held by exactly one call, which is pulling that layer in that
process (`SlotInv`). *Waiting*: a call waits for a pull of its own layer in its
own process, which cannot be over without the layer being there or the pull on
record as failed (`JoinInv`, `WaitInv`); so the mounts a call is done with are
there unless it was misled (`PresentInv`). Lists of mounts may have any length
(`MaxMounts`). `ResolverTypeCorrect` says also that trees on disk hold nothing but
regular files. `WaitersHaveAPullHolds` is the safety part of `EveryCallAnswered`:
a call that waits has been woken, or waits for the channel of a pull that is
under way in its own process, which will close it.

**Only model-checked.** Liveness under fairness: `Answered`, `EventuallyMirrored`,
`Takeover`, `EveryCallAnswered`, `CloseCompletes`, `InvokeReturns`,
`HupTakesEffect`. The installed provers have no rule for fairness or ENABLED. Where
the danger is a state from which nothing more can follow, that such a state is
not reached is proved: `NoLostWakeupHolds`, `WaitersHaveAPullHolds`,
`ClosedLeavesNothingHolds`, `HangupKeptHolds`, and both theorems `MirrorInvariant`.

## 5. Not modelled

* **Builder**: a request is one run of external tools in a directory of its own;
  it keeps no state and two builds share nothing. The admin API sees one of a few
  answers, which `Access` has.
* **Manifest, OCI, TLS, web front end, templates, the Python and Node SDKs**:
  static documents, third-party code, presentation, repetition of the Go SDK.
* **The dashboard's log ring and web socket**: lossy by design, nothing depends
  on them.
* **Command line**: flags, output, and the commands that only drive external
  tools or make one HTTP call (`init`, `layer build-python`'s build, `deploy`).
* **Inside the modelled parts**: durations and their sums, log texts, `Observe` of
  the limiter (nothing calls it), limits that change at run time, the text of
  paths and tokens, file modes, and the deadlock of a function that calls itself
  through its own full pool, which developer.md documents as a limitation.

## 6. Plan

Done: all modules above; every safety property of every run is proved, and so is
the refinement. What may follow, in order:

1. The deadlock of a function that calls itself through its own full pool, as a
   property of Pool with nested requests.
2. Limits that change at run time, and the dashboard's log ring.
