------------------------------ MODULE StateSync ------------------------------
(***************************************************************************)
(* How gateway replicas keep their read-cache of one function definition   *)
(* in step with the shared store (internal/gateway/gateway.go on top of    *)
(* internal/state): RegisterDefAs and UnregisterAs write through and then  *)
(* update the local cache themselves; every store mutation is announced to *)
(* the subscribed replicas, whose Watch loops re-read the definition and   *)
(* update the cache a second time.                                         *)
(*                                                                         *)
(* Two stores are modelled.  "postgres": the NOTIFY trigger announces in   *)
(* commit order, the announcement travels over each replica's LISTEN       *)
(* connection, which may break.  "inmem": one process; the mutation and    *)
(* its broadcast are separate critical sections.  A version is named by    *)
(* the write that stored it.                                               *)
(***************************************************************************)
EXTENDS Integers, Sequences, FiniteSets

CONSTANTS
    Replicas,       \* gateway processes
    Writers,        \* RegisterDefAs / UnregisterAs calls
    Initial,        \* the version registered before the model starts
    Absent,         \* no such function / nothing fetched
    Backends,       \* the stores considered: of "postgres" and "inmem"
    ChanCap,        \* capacity of a Watch channel (16 in the code)
    MaxConcurrent,  \* how many writers may be under way at once
    Faults          \* what may happen besides: a subset of FaultKinds

\* A replica starts while calls are made; a LISTEN connection breaks; a
\* replica dies; a query fails.  (The in-memory store knows none of them.)
FaultKinds == {"start", "disconnect", "crash", "dberror"}

ASSUME StateSyncAssumption ==
    /\ Backends \subseteq {"postgres", "inmem"}
    /\ ChanCap \in Nat \ {0}
    /\ MaxConcurrent \in Nat \ {0}
    /\ Faults \subseteq FaultKinds
    /\ Initial \notin Writers /\ Absent \notin Writers /\ Initial # Absent

VARIABLES
    backend,     \* the store this system runs on (never changes)
    store,       \* the row of the function, or Absent
    changed,     \* history: the calls that changed the row (and Initial)
    home, wpc,   \* writers: the replica they run on, and where they are
    hadDef,      \* UnregisterAs: what the cache said at the beginning
    up,          \* replicas: "down", "listed" (bootstrapped) or "watching"
    cache,       \* g.functions[name]
    listening,   \* whether the LISTEN connection is up
    pipe,        \* notifications on their way over that connection
    chan,        \* the Watch channel
    fetched,     \* what applyEvent has read and not yet applied
    disturbed    \* history: replicas that missed or misordered a mutation

callVars == <<home, wpc, hadDef>>
linkVars == <<listening, pipe, chan>>
vars == <<backend, store, changed, callVars, up, cache, linkVars, fetched, disturbed>>

Versions == Writers \cup {Initial}

\* Replicas that are up have bootstrapped and watch.  The in-memory store
\* lives in one process, where all calls are made.
Init ==
    /\ backend \in Backends
    /\ store \in {Initial, Absent}
    /\ changed = {store} \ {Absent}
    /\ home \in [Writers -> Replicas]
    /\ wpc = [w \in Writers |-> "idle"]
    /\ hadDef = [w \in Writers |-> FALSE]
    /\ up \in [Replicas -> {"down", "watching"}]
    /\ backend = "postgres" /\ "start" \notin Faults =>
          \A g \in Replicas : up[g] = "watching"
    /\ backend = "inmem" => \E g \in Replicas :
          /\ \A h \in Replicas : up[h] = "watching" <=> h = g
          /\ \A w \in Writers : home[w] = g
    /\ cache = [g \in Replicas |-> IF up[g] = "watching" THEN store ELSE Absent]
    /\ listening = [g \in Replicas |-> backend = "postgres" /\ up[g] = "watching"]
    /\ pipe = [g \in Replicas |-> <<>>]
    /\ chan = [g \in Replicas |-> <<>>]
    /\ fetched = [g \in Replicas |-> Absent]
    /\ disturbed = {}

(***************************************************************************)
(* The store announces a mutation                                          *)
(***************************************************************************)
\* Faulty variant: the channel is never full.
OfferUnbounded(q, ev, subscribed) == IF subscribed THEN Append(q, ev) ELSE q

\* ch <- ev, or drop it: the subscriber is not draining (or there is none).
Offer(q, ev, subscribed) ==
    IF subscribed /\ Len(q) < ChanCap THEN Append(q, ev) ELSE q

\* The replicas of a set that an announcement does not reach although they
\* have read the store before.
Missing(S) ==
    {g \in S : \/ up[g] = "listed"
               \/ up[g] = "watching" /\ Len(chan[g]) >= ChanCap}

\* pg_notify, in the transaction of the mutation.
Notify(ev) ==
    pipe' = [g \in Replicas |-> IF listening[g] THEN Append(pipe[g], ev) ELSE pipe[g]]

Deaf == {g \in Replicas : backend = "postgres" /\ up[g] # "down" /\ ~listening[g]}

\* PostgresStore.dispatch: fan one notification out to the subscribers.
Dispatch(g) ==
    /\ pipe[g] # <<>>
    /\ pipe' = [pipe EXCEPT ![g] = Tail(@)]
    /\ chan' = [chan EXCEPT ![g] = Offer(@, Head(pipe[g]), up[g] = "watching")]
    /\ disturbed' = disturbed \cup Missing({g})
    /\ UNCHANGED <<backend, store, changed, callVars, up, cache, listening, fetched>>

\* InMemStore.broadcast, after the store's lock was dropped.
Broadcast(w) ==
    /\ wpc[w] \in {"announcePut", "announceDelete"}
    /\ LET ev == IF wpc[w] = "announcePut" THEN "put" ELSE "delete" IN
        /\ chan' = [g \in Replicas |-> Offer(chan[g], ev, up[g] = "watching")]
        /\ wpc' = [wpc EXCEPT ![w] = IF ev = "put" THEN "applyPut" ELSE "applyDelete"]
    /\ disturbed' = disturbed \cup Missing(Replicas)
    /\ UNCHANGED <<backend, store, changed, home, hadDef, up, cache, listening, pipe, fetched>>

(***************************************************************************)
(* RegisterDefAs and UnregisterAs                                          *)
(***************************************************************************)
UnderWay == {w \in Writers : wpc[w] \notin {"idle", "done"}}

Begins(w) ==
    /\ wpc[w] = "idle"
    /\ up[home[w]] # "down"
    /\ Cardinality(UnderWay) < MaxConcurrent

\* The replicas that will still apply a write which is overtaken by now.
Overtaken == {home[v] : v \in {x \in Writers :
                  wpc[x] \in {"announcePut", "announceDelete", "applyPut", "applyDelete"}}}

\* The row is changed: how the two stores announce it, and what w does next.
Mutated(w, ev, announce, apply) ==
    /\ IF backend = "postgres"
       THEN /\ IF ev = "put" \/ store # Absent THEN Notify(ev) ELSE UNCHANGED pipe
            /\ wpc' = [wpc EXCEPT ![w] = apply]
       ELSE /\ UNCHANGED pipe
            /\ wpc' = [wpc EXCEPT ![w] = announce]
    /\ disturbed' = disturbed \cup Deaf \cup Overtaken

\* Faulty variant: the cache is updated whether the store accepted or not.
PutStoreUnchecked(w) ==
    /\ Begins(w)
    /\ \/ store' = w /\ changed' = changed \cup {w}
       \/ "dberror" \in Faults /\ UNCHANGED <<store, changed>>
    /\ Mutated(w, "put", "announcePut", "applyPut")
    /\ UNCHANGED <<backend, home, hadDef, up, cache, listening, chan, fetched>>

\* store.PutFunction succeeds.
PutStore(w) ==
    /\ Begins(w)
    /\ store' = w
    /\ changed' = changed \cup {w}
    /\ Mutated(w, "put", "announcePut", "applyPut")
    /\ UNCHANGED <<backend, home, hadDef, up, cache, listening, chan, fetched>>

\* store.PutFunction fails: RegisterDefAs returns the error.
PutStoreFails(w) ==
    /\ "dberror" \in Faults /\ backend = "postgres"
    /\ Begins(w)
    /\ wpc' = [wpc EXCEPT ![w] = "done"]
    /\ UNCHANGED <<backend, store, changed, home, hadDef, up, cache, linkVars, fetched, disturbed>>

\* UnregisterAs first looks into its own cache, for the audit log.
ReadHadDef(w) ==
    /\ Begins(w)
    /\ hadDef' = [hadDef EXCEPT ![w] = cache[home[w]] # Absent]
    /\ wpc' = [wpc EXCEPT ![w] = "delete"]
    /\ UNCHANGED <<backend, store, changed, home, up, cache, linkVars, fetched, disturbed>>

\* store.DeleteFunction succeeds; the Postgres trigger fires only for a row
\* that existed.
DeleteStore(w) ==
    /\ wpc[w] = "delete"
    /\ store' = Absent
    /\ changed' = IF store # Absent THEN changed \cup {w} ELSE changed
    /\ Mutated(w, "delete", "announceDelete", "applyDelete")
    /\ UNCHANGED <<backend, home, hadDef, up, cache, listening, chan, fetched>>

\* store.DeleteFunction fails: UnregisterAs ignores the error and goes on.
DeleteStoreFails(w) ==
    /\ "dberror" \in Faults /\ backend = "postgres"
    /\ wpc[w] = "delete"
    /\ wpc' = [wpc EXCEPT ![w] = "applyDelete"]
    /\ disturbed' = disturbed \cup {home[w]}
    /\ UNCHANGED <<backend, store, changed, home, hadDef, up, cache, linkVars, fetched>>

\* The direct applyPut / applyDelete after the store call.
ApplyOwn(w) ==
    /\ wpc[w] \in {"applyPut", "applyDelete"}
    /\ cache' = [cache EXCEPT ![home[w]] = IF wpc[w] = "applyPut" THEN w ELSE Absent]
    /\ wpc' = [wpc EXCEPT ![w] = IF wpc[w] = "applyPut" \/ hadDef[w] THEN "audit" ELSE "done"]
    /\ UNCHANGED <<backend, store, changed, home, hadDef, up, linkVars, fetched, disturbed>>

\* AppendAudit, whose error is ignored: the call is not over before (the row
\* itself is Access's subject).
AppendAudit(w) ==
    /\ wpc[w] = "audit"
    /\ wpc' = [wpc EXCEPT ![w] = "done"]
    /\ UNCHANGED <<backend, store, changed, home, hadDef, up, cache, linkVars, fetched, disturbed>>

(***************************************************************************)
(* watchStore and applyEvent                                               *)
(***************************************************************************)
NextEvent(g, ev) ==
    /\ up[g] = "watching"
    /\ fetched[g] = Absent
    /\ chan[g] # <<>>
    /\ Head(chan[g]) = ev
    /\ chan' = [chan EXCEPT ![g] = Tail(@)]

\* Faulty variant: a put event carries no news for a function already cached.
FetchOnlyNew(g) ==
    /\ NextEvent(g, "put")
    /\ fetched' = [fetched EXCEPT ![g] = IF cache[g] = Absent THEN store ELSE Absent]
    /\ UNCHANGED <<backend, store, changed, callVars, up, cache, listening, pipe, disturbed>>

\* GetFunction after a put event; nothing to apply if it is gone by now.
Fetch(g) ==
    /\ NextEvent(g, "put")
    /\ fetched' = [fetched EXCEPT ![g] = store]
    /\ UNCHANGED <<backend, store, changed, callVars, up, cache, listening, pipe, disturbed>>

\* GetFunction fails: the event is used up.
FetchFails(g) ==
    /\ "dberror" \in Faults /\ backend = "postgres"
    /\ NextEvent(g, "put")
    /\ disturbed' = disturbed \cup {g}
    /\ UNCHANGED <<backend, store, changed, callVars, up, cache, listening, pipe, fetched>>

ApplyFetched(g) ==
    /\ fetched[g] # Absent
    /\ cache' = [cache EXCEPT ![g] = fetched[g]]
    /\ fetched' = [fetched EXCEPT ![g] = Absent]
    /\ UNCHANGED <<backend, store, changed, callVars, up, linkVars, disturbed>>

\* Faulty variant: delete events are not mirrored.
IgnoreDeleteEvent(g) ==
    /\ NextEvent(g, "delete")
    /\ UNCHANGED <<backend, store, changed, callVars, up, cache, listening, pipe, fetched, disturbed>>

ApplyDeleteEvent(g) ==
    /\ NextEvent(g, "delete")
    /\ cache' = [cache EXCEPT ![g] = Absent]
    /\ UNCHANGED <<backend, store, changed, callVars, up, listening, pipe, fetched, disturbed>>

(***************************************************************************)
(* Start, crash, and the LISTEN connection                                 *)
(***************************************************************************)
\* NewPostgresStore starts listening; bootstrapCacheFromStore lists, and an
\* error is logged and non-fatal.
Bootstrap(g) ==
    /\ backend = "postgres"
    /\ up[g] = "down"
    /\ up' = [up EXCEPT ![g] = "listed"]
    /\ listening' = [listening EXCEPT ![g] = TRUE]
    /\ \/ cache' = [cache EXCEPT ![g] = store] /\ UNCHANGED disturbed
       \/ "dberror" \in Faults /\ UNCHANGED cache /\ disturbed' = disturbed \cup {g}
    /\ UNCHANGED <<backend, store, changed, callVars, pipe, chan, fetched>>

\* watchStore, in its own goroutine: store.Watch.
Subscribe(g) ==
    /\ up[g] = "listed"
    /\ up' = [up EXCEPT ![g] = "watching"]
    /\ UNCHANGED <<backend, store, changed, callVars, cache, linkVars, fetched, disturbed>>

\* A replica dies with its calls, cache and channel; the next one will list.
Crash(g) ==
    /\ "crash" \in Faults /\ backend = "postgres"
    /\ up[g] # "down"
    /\ up' = [up EXCEPT ![g] = "down"]
    /\ cache' = [cache EXCEPT ![g] = Absent]
    /\ listening' = [listening EXCEPT ![g] = FALSE]
    /\ pipe' = [pipe EXCEPT ![g] = <<>>]
    /\ chan' = [chan EXCEPT ![g] = <<>>]
    /\ fetched' = [fetched EXCEPT ![g] = Absent]
    /\ wpc' = [w \in Writers |-> IF w \in UnderWay /\ home[w] = g THEN "done" ELSE wpc[w]]
    /\ disturbed' = disturbed \ {g}
    /\ UNCHANGED <<backend, store, changed, home, hadDef>>

\* runListen returns an error: what was under way is lost.
Disconnect(g) ==
    /\ "disconnect" \in Faults
    /\ listening[g]
    /\ listening' = [listening EXCEPT ![g] = FALSE]
    /\ pipe' = [pipe EXCEPT ![g] = <<>>]
    /\ disturbed' = IF pipe[g] = <<>> THEN disturbed ELSE disturbed \cup {g}
    /\ UNCHANGED <<backend, store, changed, callVars, up, cache, chan, fetched>>

\* listen's loop comes round: LISTEN again, with no look at the tables.
Reconnect(g) ==
    /\ backend = "postgres"
    /\ up[g] # "down"
    /\ ~listening[g]
    /\ listening' = [listening EXCEPT ![g] = TRUE]
    /\ UNCHANGED <<backend, store, changed, callVars, up, cache, pipe, chan, fetched, disturbed>>

-----------------------------------------------------------------------------
WriterStep(w) ==
    \/ PutStore(w) \/ PutStoreFails(w)
    \/ ReadHadDef(w) \/ DeleteStore(w) \/ DeleteStoreFails(w)
    \/ Broadcast(w) \/ ApplyOwn(w) \/ AppendAudit(w)

WatchStep(g) ==
    \/ Dispatch(g)
    \/ Fetch(g) \/ FetchFails(g) \/ ApplyFetched(g)
    \/ ApplyDeleteEvent(g)

ReplicaStep(g) ==
    \/ Bootstrap(g) \/ Subscribe(g) \/ Crash(g)
    \/ Disconnect(g) \/ Reconnect(g)

Settled(g) ==
    /\ pipe[g] = <<>> /\ chan[g] = <<>> /\ fetched[g] = Absent
    /\ up[g] = "watching"
    /\ backend = "postgres" => listening[g]

\* No call is under way and no announcement is on its way to g.
Quiet(g) == UnderWay = {} /\ Settled(g)

\* Every call has been made and every replica has settled.
Finished ==
    /\ \A w \in Writers : wpc[w] = "done"
    /\ \A g \in Replicas : backend = "postgres" \/ up[g] = "watching" => Settled(g)
    /\ UNCHANGED vars

Next ==
    \/ \E w \in Writers : WriterStep(w)
    \/ \E g \in Replicas : WatchStep(g) \/ ReplicaStep(g)
    \/ Finished

Spec == Init /\ [][Next]_vars

\* A call that was begun ends; the listener and the Watch loop keep draining;
\* a replica that started listing subscribes, a lost connection is redialled.
Fairness ==
    /\ \A w \in Writers : WF_vars(DeleteStore(w) \/ DeleteStoreFails(w) \/ Broadcast(w)
                                     \/ ApplyOwn(w) \/ AppendAudit(w))
    /\ \A g \in Replicas :
          /\ WF_vars(Dispatch(g))
          /\ WF_vars(Fetch(g) \/ FetchFails(g) \/ ApplyFetched(g) \/ ApplyDeleteEvent(g))
          /\ WF_vars(Subscribe(g)) /\ WF_vars(Reconnect(g))

FairSpec == Spec /\ Fairness

-----------------------------------------------------------------------------
(***************************************************************************)
(* Type invariant of store, caches and (bounded) channels.                 *)
(***************************************************************************)
TypeOK ==
    /\ backend \in Backends
    /\ store \in Versions \cup {Absent}
    /\ changed \subseteq Versions
    /\ hadDef \in [Writers -> BOOLEAN]
    /\ home \in [Writers -> Replicas]
    /\ wpc \in [Writers -> {"idle", "announcePut", "announceDelete", "delete",
                            "applyPut", "applyDelete", "audit", "done"}]
    /\ up \in [Replicas -> {"down", "listed", "watching"}]
    /\ cache \in [Replicas -> Versions \cup {Absent}]
    /\ listening \in [Replicas -> BOOLEAN]
    /\ pipe \in [Replicas -> Seq({"put", "delete"})]
    /\ chan \in [Replicas -> Seq({"put", "delete"})]
    /\ \A g \in Replicas : Len(chan[g]) <= ChanCap
    /\ fetched \in [Replicas -> Versions \cup {Absent}]
    /\ disturbed \subseteq Replicas

\* No phantom definition: whatever fails, a replica only ever serves a
\* version that the store has accepted.
NoPhantom ==
    \A g \in Replicas : cache[g] # Absent => cache[g] \in changed

\* Convergence: whatever crashes, breaks, overflows or overlaps elsewhere, a
\* replica that missed no announcement and whose own writes were not overtaken
\* equals the store once the announcements have been handled.  It is what the
\* write-through, the second update from the Watch loop and the order of the
\* announcements are for; a restart makes good what was missed before.
Converged ==
    \A g \in Replicas : Quiet(g) /\ g \notin disturbed => cache[g] = store

\* The same, as what eventually happens: when calls stop coming, every such
\* replica comes to mirror the store and stays so.
EventuallyMirrored ==
    <>[](\A g \in Replicas : up[g] = "watching" /\ g \notin disturbed => cache[g] = store)

\* gateway.go: "there's exactly one code path that mutates gateway state";
\* state.go: "subscribers see every mutation"; gateway.go: "Watch will catch
\* up": with nothing on its way any more a replica equals the store, and no
\* replica is ever left behind.
NeverLeftBehind == \A g \in Replicas : Quiet(g) => cache[g] = store
=============================================================================
