------------------------------ MODULE SyncProofs ------------------------------
(***************************************************************************)
(* What the replicas' caches may hold, for any number of replicas and      *)
(* calls, any channel capacity, both stores and every fault: a version     *)
(* travels from the store into a cache only after the store accepted it    *)
(* (AcceptedInv), hence NoPhantom; and a replica that is up and has missed *)
(* nothing has the row, or an event or a call on the way that will bring   *)
(* it (MirrorInv), hence Converged.                                        *)
(***************************************************************************)
EXTENDS StateSync, TLAPS

\* Every place that holds a version, on its way into a cache, holds an
\* accepted one: the row, what a Watch loop has read, and what a call is
\* about to apply.
AcceptedInv ==
    /\ TypeOK
    /\ NoPhantom
    /\ store # Absent => store \in changed
    /\ \A g \in Replicas : fetched[g] # Absent => fetched[g] \in changed
    /\ \A w \in Writers : wpc[w] \in {"announcePut", "applyPut"} => w \in changed

\* Appending to, or taking from, a queue of events.
LEMMA EventQueue ==
    ASSUME NEW q \in Seq({"put", "delete"})
    PROVE  /\ \A ev \in {"put", "delete"} :
                 Append(q, ev) \in Seq({"put", "delete"}) /\ Len(Append(q, ev)) = Len(q) + 1
           /\ q # <<>> => /\ Head(q) \in {"put", "delete"}
                          /\ Tail(q) \in Seq({"put", "delete"})
                          /\ Len(Tail(q)) = Len(q) - 1
           /\ Len(q) \in Nat
OBVIOUS

\* Offer never exceeds the capacity of the channel.
LEMMA OfferBounded ==
    ASSUME NEW q \in Seq({"put", "delete"}), Len(q) <= ChanCap,
           NEW ev \in {"put", "delete"}, NEW subscribed \in BOOLEAN
    PROVE  Offer(q, ev, subscribed) \in Seq({"put", "delete"}) /\ Len(Offer(q, ev, subscribed)) <= ChanCap
BY EventQueue, StateSyncAssumption DEF Offer

\* The announcement of a mutation keeps the types of queues and phases.
LEMMA MutatedTypes ==
    ASSUME TypeOK, NEW w \in Writers, NEW ev \in {"put", "delete"},
           NEW announce \in {"announcePut", "announceDelete"},
           NEW apply \in {"applyPut", "applyDelete"},
           Mutated(w, ev, announce, apply)
    PROVE  /\ pipe' \in [Replicas -> Seq({"put", "delete"})]
           /\ wpc' \in [Writers -> {"idle", "announcePut", "announceDelete", "delete",
                                   "applyPut", "applyDelete", "audit", "done"}]
           /\ disturbed' \subseteq Replicas
<1>1. [g \in Replicas |-> IF listening[g] THEN Append(pipe[g], ev) ELSE pipe[g]]
         \in [Replicas -> Seq({"put", "delete"})]
  BY EventQueue DEF TypeOK
<1>2. pipe' \in [Replicas -> Seq({"put", "delete"})]
  BY <1>1 DEF TypeOK, Mutated, Notify
<1>3. Deaf \subseteq Replicas /\ Overtaken \subseteq Replicas
  BY DEF TypeOK, Deaf, Overtaken
<1>. QED BY <1>2, <1>3 DEF TypeOK, Mutated

\* At the start the caches hold the row or nothing.
LEMMA InitAccepted == Init => AcceptedInv
<1>. SUFFICES ASSUME Init PROVE AcceptedInv
  OBVIOUS
<1>1. TypeOK
  BY StateSyncAssumption DEF Init, TypeOK, Versions
<1>. QED BY <1>1, StateSyncAssumption DEF Init, AcceptedInv, NoPhantom

\* A notification is queued or dropped; nothing is stored.
LEMMA DispatchStep ==
    ASSUME AcceptedInv, NEW g \in Replicas, Dispatch(g)
    PROVE  AcceptedInv'
<1>1. TypeOK'
  BY StateSyncAssumption, EventQueue, OfferBounded DEF AcceptedInv, TypeOK, Versions, callVars, linkVars, Dispatch, Missing
<1>. QED BY <1>1, StateSyncAssumption DEF AcceptedInv, TypeOK, Versions, NoPhantom, callVars, linkVars, Dispatch, Offer, Missing

\* The in-memory store announces what it has stored.
LEMMA BroadcastStep ==
    ASSUME AcceptedInv, NEW w \in Writers, Broadcast(w)
    PROVE  AcceptedInv'
<1>1. TypeOK'
  BY StateSyncAssumption, EventQueue, OfferBounded DEF AcceptedInv, TypeOK, Versions, callVars, linkVars, Broadcast, Missing
<1>. QED BY <1>1, StateSyncAssumption DEF AcceptedInv, TypeOK, Versions, NoPhantom, callVars, linkVars, Broadcast, Offer, Missing

\* RegisterDefAs: the version is accepted before it is applied anywhere.
LEMMA PutStoreStep ==
    ASSUME AcceptedInv, NEW w \in Writers, PutStore(w)
    PROVE  AcceptedInv'
<1>m. Mutated(w, "put", "announcePut", "applyPut")
  BY DEF PutStore
<1>t. TypeOK
  BY DEF AcceptedInv
<1>1. TypeOK'
  BY <1>m, <1>t, MutatedTypes DEF TypeOK, Versions, callVars, linkVars, PutStore
<1>. QED BY <1>1, <1>m, StateSyncAssumption DEF AcceptedInv, TypeOK, Versions, NoPhantom, callVars, linkVars, Mutated, PutStore

\* A rejected version goes nowhere.
LEMMA PutStoreFailsStep ==
    ASSUME AcceptedInv, NEW w \in Writers, PutStoreFails(w)
    PROVE  AcceptedInv'
<1>1. TypeOK'
  BY StateSyncAssumption DEF AcceptedInv, TypeOK, Versions, callVars, linkVars, PutStoreFails, Begins
<1>. QED BY <1>1, StateSyncAssumption DEF AcceptedInv, TypeOK, Versions, NoPhantom, callVars, linkVars, PutStoreFails, Begins

\* UnregisterAs looks into its cache.
LEMMA ReadHadDefStep ==
    ASSUME AcceptedInv, NEW w \in Writers, ReadHadDef(w)
    PROVE  AcceptedInv'
<1>1. TypeOK'
  BY StateSyncAssumption DEF AcceptedInv, TypeOK, Versions, callVars, linkVars, ReadHadDef, Begins
<1>. QED BY <1>1, StateSyncAssumption DEF AcceptedInv, TypeOK, Versions, NoPhantom, callVars, linkVars, ReadHadDef, Begins

\* The row goes, the versions accepted so far stay accepted.
LEMMA DeleteStoreStep ==
    ASSUME AcceptedInv, NEW w \in Writers, DeleteStore(w)
    PROVE  AcceptedInv'
<1>m. Mutated(w, "delete", "announceDelete", "applyDelete")
  BY DEF DeleteStore
<1>t. TypeOK
  BY DEF AcceptedInv
<1>1. TypeOK'
  BY <1>m, <1>t, MutatedTypes DEF TypeOK, Versions, callVars, linkVars, DeleteStore
<1>. QED BY <1>1, <1>m, StateSyncAssumption DEF AcceptedInv, TypeOK, Versions, NoPhantom, callVars, linkVars, Mutated, DeleteStore

\* A failed delete changes no version.
LEMMA DeleteStoreFailsStep ==
    ASSUME AcceptedInv, NEW w \in Writers, DeleteStoreFails(w)
    PROVE  AcceptedInv'
<1>1. TypeOK'
  BY StateSyncAssumption DEF AcceptedInv, TypeOK, Versions, callVars, linkVars, DeleteStoreFails
<1>. QED BY <1>1, StateSyncAssumption DEF AcceptedInv, TypeOK, Versions, NoPhantom, callVars, linkVars, DeleteStoreFails

\* A call applies only the version it got accepted.
LEMMA ApplyOwnStep ==
    ASSUME AcceptedInv, NEW w \in Writers, ApplyOwn(w)
    PROVE  AcceptedInv'
<1>1. TypeOK'
  BY StateSyncAssumption DEF AcceptedInv, TypeOK, Versions, callVars, linkVars, ApplyOwn
<1>. QED BY <1>1, StateSyncAssumption DEF AcceptedInv, TypeOK, Versions, NoPhantom, callVars, linkVars, ApplyOwn

\* The audit row comes last.
LEMMA AppendAuditStep ==
    ASSUME AcceptedInv, NEW w \in Writers, AppendAudit(w)
    PROVE  AcceptedInv'
<1>1. TypeOK'
  BY StateSyncAssumption DEF AcceptedInv, TypeOK, Versions, callVars, linkVars, AppendAudit
<1>. QED BY <1>1, StateSyncAssumption DEF AcceptedInv, TypeOK, Versions, NoPhantom, callVars, linkVars, AppendAudit

\* What an event makes the Watch loop read was accepted.
LEMMA FetchStep ==
    ASSUME AcceptedInv, NEW g \in Replicas, Fetch(g)
    PROVE  AcceptedInv'
<1>1. TypeOK'
  BY StateSyncAssumption, EventQueue DEF AcceptedInv, TypeOK, Versions, callVars, linkVars, Fetch, NextEvent
<1>. QED BY <1>1, StateSyncAssumption DEF AcceptedInv, TypeOK, Versions, NoPhantom, callVars, linkVars, Fetch, NextEvent

\* A failed read uses the event up.
LEMMA FetchFailsStep ==
    ASSUME AcceptedInv, NEW g \in Replicas, FetchFails(g)
    PROVE  AcceptedInv'
<1>1. TypeOK'
  BY StateSyncAssumption, EventQueue DEF AcceptedInv, TypeOK, Versions, callVars, linkVars, FetchFails, NextEvent
<1>. QED BY <1>1, StateSyncAssumption DEF AcceptedInv, TypeOK, Versions, NoPhantom, callVars, linkVars, FetchFails, NextEvent

\* The Watch loop applies what it read.
LEMMA ApplyFetchedStep ==
    ASSUME AcceptedInv, NEW g \in Replicas, ApplyFetched(g)
    PROVE  AcceptedInv'
<1>1. TypeOK'
  BY StateSyncAssumption DEF AcceptedInv, TypeOK, Versions, callVars, linkVars, ApplyFetched
<1>. QED BY <1>1, StateSyncAssumption DEF AcceptedInv, TypeOK, Versions, NoPhantom, callVars, linkVars, ApplyFetched

\* A delete event empties the cache.
LEMMA ApplyDeleteEventStep ==
    ASSUME AcceptedInv, NEW g \in Replicas, ApplyDeleteEvent(g)
    PROVE  AcceptedInv'
<1>1. TypeOK'
  BY StateSyncAssumption, EventQueue DEF AcceptedInv, TypeOK, Versions, callVars, linkVars, ApplyDeleteEvent, NextEvent
<1>. QED BY <1>1, StateSyncAssumption DEF AcceptedInv, TypeOK, Versions, NoPhantom, callVars, linkVars, ApplyDeleteEvent, NextEvent

\* A starting replica lists accepted versions, or nothing.
LEMMA BootstrapStep ==
    ASSUME AcceptedInv, NEW g \in Replicas, Bootstrap(g)
    PROVE  AcceptedInv'
<1>1. TypeOK'
  BY StateSyncAssumption DEF AcceptedInv, TypeOK, Versions, callVars, linkVars, Bootstrap
<1>2. CASE cache' = [cache EXCEPT ![g] = store]
  BY <1>1, <1>2 DEF AcceptedInv, TypeOK, NoPhantom, callVars, linkVars, Bootstrap
<1>3. CASE UNCHANGED cache
  BY <1>1, <1>3 DEF AcceptedInv, TypeOK, NoPhantom, callVars, linkVars, Bootstrap
<1>. QED BY <1>2, <1>3 DEF Bootstrap

\* Subscribing reads nothing.
LEMMA SubscribeStep ==
    ASSUME AcceptedInv, NEW g \in Replicas, Subscribe(g)
    PROVE  AcceptedInv'
<1>1. TypeOK'
  BY StateSyncAssumption DEF AcceptedInv, TypeOK, Versions, callVars, linkVars, Subscribe
<1>. QED BY <1>1, StateSyncAssumption DEF AcceptedInv, TypeOK, Versions, NoPhantom, callVars, linkVars, Subscribe

\* A crash forgets.
LEMMA CrashStep ==
    ASSUME AcceptedInv, NEW g \in Replicas, Crash(g)
    PROVE  AcceptedInv'
<1>1. TypeOK'
  BY StateSyncAssumption DEF AcceptedInv, TypeOK, Versions, callVars, linkVars, Crash, UnderWay
<1>. QED BY <1>1, StateSyncAssumption DEF AcceptedInv, TypeOK, Versions, NoPhantom, callVars, linkVars, Crash, UnderWay

\* A broken connection loses announcements, not versions.
LEMMA DisconnectStep ==
    ASSUME AcceptedInv, NEW g \in Replicas, Disconnect(g)
    PROVE  AcceptedInv'
<1>1. TypeOK'
  BY StateSyncAssumption DEF AcceptedInv, TypeOK, Versions, callVars, linkVars, Disconnect
<1>. QED BY <1>1, StateSyncAssumption DEF AcceptedInv, TypeOK, Versions, NoPhantom, callVars, linkVars, Disconnect

\* A new connection reads nothing.
LEMMA ReconnectStep ==
    ASSUME AcceptedInv, NEW g \in Replicas, Reconnect(g)
    PROVE  AcceptedInv'
<1>1. TypeOK'
  BY StateSyncAssumption DEF AcceptedInv, TypeOK, Versions, callVars, linkVars, Reconnect
<1>. QED BY <1>1, StateSyncAssumption DEF AcceptedInv, TypeOK, Versions, NoPhantom, callVars, linkVars, Reconnect

\* Every step of calls, Watch loops, connections and replicas preserves it.
LEMMA NextAccepted == AcceptedInv /\ [Next]_vars => AcceptedInv'
<1>. SUFFICES ASSUME AcceptedInv, [Next]_vars PROVE AcceptedInv'
  OBVIOUS
<1>1. ASSUME NEW w \in Writers, WriterStep(w) PROVE AcceptedInv'
  BY <1>1, PutStoreStep, PutStoreFailsStep, ReadHadDefStep, DeleteStoreStep,
     DeleteStoreFailsStep, BroadcastStep, ApplyOwnStep, AppendAuditStep DEF WriterStep
<1>2. ASSUME NEW g \in Replicas, WatchStep(g) PROVE AcceptedInv'
  BY <1>2, DispatchStep, FetchStep, FetchFailsStep, ApplyFetchedStep,
     ApplyDeleteEventStep DEF WatchStep
<1>3. ASSUME NEW g \in Replicas, ReplicaStep(g) PROVE AcceptedInv'
  BY <1>3, BootstrapStep, SubscribeStep, CrashStep, DisconnectStep, ReconnectStep
     DEF ReplicaStep
<1>4. CASE UNCHANGED vars
  BY <1>4 DEF AcceptedInv, TypeOK, Versions, NoPhantom, vars, callVars, linkVars
<1>. QED BY <1>1, <1>2, <1>3, <1>4 DEF Next, Finished

\* Accepted versions only, in every reachable state.
THEOREM OnlyAccepted == Spec => []AcceptedInv
BY InitAccepted, NextAccepted, PTL DEF Spec

\* Type correctness of the synchronisation: Watch channels never outgrow
\* their capacity, whatever the store announces.
THEOREM SyncTypeCorrect == Spec => []TypeOK
<1>1. AcceptedInv => TypeOK
  BY DEF AcceptedInv
<1>. QED BY <1>1, OnlyAccepted, PTL

\* No replica ever serves a version that the store did not accept, with any
\* number of replicas and overlapping calls and through every fault.
THEOREM NoPhantomHolds == Spec => []NoPhantom
<1>1. AcceptedInv => NoPhantom
  BY DEF AcceptedInv
<1>. QED BY <1>1, OnlyAccepted, PTL
-----------------------------------------------------------------------------
(***************************************************************************)
(* Convergence.  A replica that is up and not on record as disturbed has   *)
(* the row in its cache, or something is on its way that will put it there *)
(***************************************************************************)
Announces == {"announcePut", "announceDelete"}
Applies   == {"applyPut", "applyDelete"}

\* A replica that is down has nothing, and no call is made there; only the
\* in-memory store, which has one process, announces in a step of its own.
LinkInv ==
    /\ \A g \in Replicas : up[g] = "down" =>
          pipe[g] = <<>> /\ chan[g] = <<>> /\ fetched[g] = Absent /\ ~listening[g]
    /\ \A w \in Writers : wpc[w] \notin {"idle", "done"} => up[home[w]] # "down"
    /\ backend = "postgres" => \A w \in Writers : wpc[w] \notin Announces
    /\ backend # "postgres" => \A g \in Replicas :
          /\ ~listening[g] /\ pipe[g] = <<>> /\ up[g] # "listed"
          /\ up[g] # "down" => \A w \in Writers : home[w] = g

Announcing == \E w \in Writers : wpc[w] \in Announces

\* Events that g has not handled.
Queued(g) == pipe[g] # <<>> \/ chan[g] # <<>>

LastEvent(g) == IF pipe[g] # <<>> THEN pipe[g][Len(pipe[g])] ELSE chan[g][Len(chan[g])]

Applying(g) == \E w \in Writers : home[w] = g /\ wpc[w] \in Applies

\* The last event announces the row as it is; what the Watch loop has read is
\* the row, or there are more events; the calls at g are about to apply the
\* row as it is; with nothing under way the cache equals the row.
Mirrors(g) ==
    /\ Queued(g) /\ ~Announcing => LastEvent(g) = IF store = Absent THEN "delete" ELSE "put"
    /\ fetched[g] # Absent => fetched[g] = store \/ Queued(g) \/ Announcing
    /\ \A w \in Writers : home[w] = g =>
          /\ wpc[w] \in {"announcePut", "applyPut"} => store = w
          /\ wpc[w] \in {"announceDelete", "applyDelete"} => store = Absent
    /\ cache[g] = store \/ Queued(g) \/ Announcing \/ Applying(g) \/ fetched[g] # Absent

MirrorInv == \A g \in Replicas : g \notin disturbed /\ up[g] # "down" => Mirrors(g)

SyncInv == TypeOK /\ LinkInv /\ MirrorInv

\* A queue is empty or has a length.
LEMMA NonEmpty ==
    ASSUME NEW q \in Seq({"put", "delete"})
    PROVE  Len(q) \in Nat /\ (q # <<>> <=> Len(q) # 0)
OBVIOUS

\* Queues at their ends.
LEMMA QueueEnds ==
    ASSUME NEW q \in Seq({"put", "delete"})
    PROVE  /\ \A ev \in {"put", "delete"} : /\ Append(q, ev) # <<>>
                                            /\ Append(q, ev)[Len(Append(q, ev))] = ev
           /\ q # <<>> /\ Tail(q) # <<>> => Tail(q)[Len(Tail(q))] = q[Len(q)]
           /\ q # <<>> /\ Tail(q) = <<>> => Head(q) = q[Len(q)]
<1>1. ASSUME NEW ev \in {"put", "delete"}
      PROVE  Append(q, ev) # <<>> /\ Append(q, ev)[Len(Append(q, ev))] = ev
  <2>1. Len(Append(q, ev)) = Len(q) + 1 /\ Append(q, ev)[Len(q) + 1] = ev /\ Len(q) \in Nat
    OBVIOUS
  <2> QED  BY <2>1
<1>2. ASSUME q # <<>> PROVE Len(q) \in Nat \ {0} /\ Len(Tail(q)) = Len(q) - 1
  BY <1>2
<1>3. ASSUME q # <<>>, Tail(q) # <<>> PROVE Tail(q)[Len(Tail(q))] = q[Len(q)]
  <2>1. Tail(q) \in Seq({"put", "delete"}) /\ Len(Tail(q)) # 0
    BY <1>3, EventQueue, NonEmpty
  <2>2. Len(Tail(q)) \in 1..Len(Tail(q)) /\ Len(Tail(q)) + 1 = Len(q)
    BY <1>2, <1>3, <2>1
  <2>3. \A i \in 1..Len(Tail(q)) : Tail(q)[i] = q[i + 1]
    BY <1>3
  <2> QED  BY <2>2, <2>3
<1>4. ASSUME q # <<>>, Tail(q) = <<>> PROVE Head(q) = q[Len(q)]
  <2>0. Len(<<>>) = 0
    OBVIOUS
  <2>1. Len(Tail(q)) = 0
    BY <1>4, <2>0, Zenon
  <2>2. Len(Tail(q)) = Len(q) - 1 /\ Len(q) \in Nat \ {0}
    BY <1>2, <1>4
  <2>3. Len(q) = 1
    BY <2>1, <2>2
  <2> QED  BY <2>3
<1> QED  BY <1>1, <1>3, <1>4

\* The calls that are to announce or to apply something stay the same.
SameCalls ==
    /\ home' = home
    /\ \A w \in Writers : \A s \in Announces \cup Applies : wpc'[w] = s <=> wpc[w] = s

\* A step that does not concern g.
LEMMA MirrorsKept ==
    ASSUME NEW g \in Replicas, Mirrors(g), SameCalls, store' = store,
           pipe'[g] = pipe[g], chan'[g] = chan[g], fetched'[g] = fetched[g], cache'[g] = cache[g]
    PROVE  Mirrors(g)'
<1>1. Queued(g)' = Queued(g) /\ LastEvent(g)' = LastEvent(g)
  BY DEF Queued, LastEvent
<1>2. (Announcing' <=> Announcing) /\ (Applying(g)' <=> Applying(g))
  BY DEF Announcing, Applying, SameCalls, Announces, Applies
<1>3. \A w \in Writers : home'[w] = g =>
          /\ wpc'[w] \in {"announcePut", "applyPut"} => store' = w
          /\ wpc'[w] \in {"announceDelete", "applyDelete"} => store' = Absent
  BY DEF Mirrors, SameCalls, Announces, Applies
<1> QED  BY <1>1, <1>2, <1>3 DEF Mirrors

\* Steps of calls that neither write nor apply.
QuietCall(w) ==
    /\ UNCHANGED <<backend, store, home, up, cache, listening, pipe, chan, fetched>>
    /\ \A v \in Writers \ {w} : wpc'[v] = wpc[v]
    /\ wpc[w] \notin Announces \cup Applies /\ wpc'[w] \notin Announces \cup Applies

\* They keep the invariant.
LEMMA QuietCallKeeps ==
    ASSUME SyncInv, NEW w \in Writers, QuietCall(w), disturbed' = disturbed,
           wpc'[w] \notin {"idle", "done"} => up[home[w]] # "down"
    PROVE  LinkInv' /\ MirrorInv'
<1>1. SameCalls
  BY DEF QuietCall, SameCalls
<1>2. LinkInv'
  BY DEF SyncInv, LinkInv, QuietCall
<1>3. ASSUME NEW g \in Replicas, g \notin disturbed', up'[g] # "down" PROVE Mirrors(g)'
  <2>1. Mirrors(g)
    BY <1>3 DEF SyncInv, MirrorInv, QuietCall
  <2> QED  BY <1>1, <2>1, MirrorsKept DEF QuietCall
<1> QED  BY <1>2, <1>3 DEF MirrorInv

\* A write that failed, a look at the cache and an audit row are such steps.
LEMMA QuietCallSteps ==
    ASSUME SyncInv, NEW w \in Writers, PutStoreFails(w) \/ ReadHadDef(w) \/ AppendAudit(w)
    PROVE  LinkInv' /\ MirrorInv'
<1> USE DEF SyncInv, TypeOK, linkVars, callVars, Announces, Applies, QuietCall, Begins
<1>1. CASE PutStoreFails(w)
  <2>1. QuietCall(w) /\ disturbed' = disturbed /\ wpc'[w] = "done"
    BY <1>1 DEF PutStoreFails
  <2> QED  BY <2>1, QuietCallKeeps
<1>2. CASE ReadHadDef(w)
  <2>1. QuietCall(w) /\ disturbed' = disturbed /\ up[home[w]] # "down"
    BY <1>2 DEF ReadHadDef
  <2> QED  BY <2>1, QuietCallKeeps
<1>3. CASE AppendAudit(w)
  <2>1. QuietCall(w) /\ disturbed' = disturbed /\ wpc'[w] = "done"
    BY <1>3 DEF AppendAudit
  <2> QED  BY <2>1, QuietCallKeeps
<1> QED  BY <1>1, <1>2, <1>3

\* The row changes.  Whoever does not hear of it, or is about to apply what it
\* was before, is disturbed from now on; the others have the event queued.
LEMMA MutationKeeps ==
    ASSUME SyncInv, TypeOK', NEW w \in Writers, NEW ev \in {"put", "delete"},
           ev = "put" => store' = w,
           ev = "delete" => store' = Absent,
           NEW announce, announce = IF ev = "put" THEN "announcePut" ELSE "announceDelete",
           NEW apply, apply = IF ev = "put" THEN "applyPut" ELSE "applyDelete",
           wpc[w] \notin Announces \cup Applies, up[home[w]] # "down",
           Mutated(w, ev, announce, apply),
           UNCHANGED <<backend, home, up, cache, listening, chan, fetched>>
    PROVE  LinkInv' /\ MirrorInv'
<1> USE DEF SyncInv
<1>0. /\ announce \in Announces /\ apply \in Applies
      /\ wpc' = [wpc EXCEPT ![w] = IF backend = "postgres" THEN apply ELSE announce]
      /\ disturbed' = disturbed \cup Deaf \cup Overtaken
  BY DEF Mutated, Announces, Applies
<1>1. /\ \A v \in Writers \ {w} : wpc'[v] = wpc[v]
      /\ wpc'[w] = IF backend = "postgres" THEN apply ELSE announce
  BY <1>0 DEF TypeOK
<1>2. \A g \in Replicas : ~listening[g] => pipe'[g] = pipe[g]
  BY DEF Mutated, Notify
<1>3. LinkInv'
  <2>1. \A g \in Replicas : up'[g] = "down" =>
          pipe'[g] = <<>> /\ chan'[g] = <<>> /\ fetched'[g] = Absent /\ ~listening'[g]
    BY <1>2 DEF LinkInv
  <2>2. \A v \in Writers : wpc'[v] \notin {"idle", "done"} => up'[home'[v]] # "down"
    BY <1>1 DEF LinkInv
  <2>3. backend' = "postgres" => \A v \in Writers : wpc'[v] \notin Announces
    BY <1>0, <1>1 DEF LinkInv, Announces, Applies
  <2>4. backend' # "postgres" => \A g \in Replicas :
          /\ ~listening'[g] /\ pipe'[g] = <<>> /\ up'[g] # "listed"
          /\ up'[g] # "down" => \A v \in Writers : home'[v] = g
    BY <1>2 DEF LinkInv
  <2> QED  BY <2>1, <2>2, <2>3, <2>4 DEF LinkInv
<1>4. ASSUME NEW g \in Replicas, g \notin disturbed', up'[g] # "down" PROVE Mirrors(g)'
  <2>1. /\ g \notin disturbed /\ g \notin Deaf /\ g \notin Overtaken /\ up[g] # "down"
        /\ Mirrors(g)
    BY <1>0, <1>4 DEF MirrorInv
  \* The calls at g: only w is to apply something.
  <2>2. \A v \in Writers : home[v] = g /\ wpc[v] \in Announces \cup Applies => FALSE
    BY <2>1 DEF Overtaken, Announces, Applies
  <2>3. \A v \in Writers : home'[v] = g =>
          /\ wpc'[v] \in {"announcePut", "applyPut"} => store' = v
          /\ wpc'[v] \in {"announceDelete", "applyDelete"} => store' = Absent
    BY <1>1, <2>2 DEF Announces, Applies
  <2>4. CASE backend # "postgres"
    <3>1. Announcing'
      BY <1>0, <1>1, <2>4 DEF Announcing
    <3> QED  BY <2>3, <3>1 DEF Mirrors
  <2>5. CASE backend = "postgres" /\ (ev = "put" \/ store # Absent)
    <3>1. listening[g]
      BY <2>1, <2>5 DEF Deaf
    <3>2. pipe'[g] = Append(pipe[g], ev)
      BY <2>5, <3>1 DEF Mutated, Notify
    <3>3. pipe'[g] # <<>> /\ pipe'[g][Len(pipe'[g])] = ev
      BY <3>2, QueueEnds DEF TypeOK
    <3>4. Queued(g)' /\ LastEvent(g)' = ev
      BY <3>3 DEF Queued, LastEvent
    <3>5. ev = IF store' = Absent THEN "delete" ELSE "put"
      BY StateSyncAssumption
    <3> QED  BY <2>3, <3>4, <3>5 DEF Mirrors
  <2>6. CASE backend = "postgres" /\ ~(ev = "put" \/ store # Absent)
    <3>1. pipe'[g] = pipe[g] /\ store' = store /\ store = Absent
      BY <2>6 DEF Mutated
    <3>2. Queued(g)' = Queued(g) /\ LastEvent(g)' = LastEvent(g)
      BY <3>1 DEF Queued, LastEvent
    <3>3. ~Announcing /\ ~Announcing'
      BY <1>3, <2>6 DEF LinkInv, Announcing
    <3>4. Applying(g) => FALSE
      BY <2>2 DEF Applying
    <3> QED  BY <2>1, <2>3, <3>1, <3>2, <3>3, <3>4 DEF Mirrors
  <2> QED  BY <2>4, <2>5, <2>6
<1> QED  BY <1>3, <1>4 DEF MirrorInv

\* PutStore and DeleteStore change the row and announce it, or are about to.
LEMMA MutationSteps ==
    ASSUME SyncInv, TypeOK', NEW w \in Writers, PutStore(w) \/ DeleteStore(w)
    PROVE  LinkInv' /\ MirrorInv'
<1>1. CASE PutStore(w)
  <2>1. /\ wpc[w] \notin Announces \cup Applies /\ up[home[w]] # "down" /\ store' = w
        /\ Mutated(w, "put", "announcePut", "applyPut")
        /\ UNCHANGED <<backend, home, up, cache, listening, chan, fetched>>
    BY <1>1 DEF PutStore, Begins, Announces, Applies
  <2> QED  BY <2>1, MutationKeeps
<1>2. CASE DeleteStore(w)
  <2>1. /\ wpc[w] = "delete" /\ store' = Absent
        /\ Mutated(w, "delete", "announceDelete", "applyDelete")
        /\ UNCHANGED <<backend, home, up, cache, listening, chan, fetched>>
    BY <1>2 DEF DeleteStore
  <2>2. wpc[w] \notin Announces \cup Applies /\ up[home[w]] # "down"
    BY <2>1 DEF SyncInv, LinkInv, Announces, Applies
  <2> QED  BY <2>1, <2>2, MutationKeeps
<1> QED  BY <1>1, <1>2

\* The in-memory store announces the row as it is, or somebody is disturbed.
LEMMA BroadcastMirror ==
    ASSUME SyncInv, TypeOK', NEW w \in Writers, Broadcast(w)
    PROVE  LinkInv' /\ MirrorInv'
<1> USE DEF SyncInv
<1> DEFINE ev == IF wpc[w] = "announcePut" THEN "put" ELSE "delete"
<1>0. /\ UNCHANGED <<backend, store, home, up, cache, listening, pipe, fetched>>
      /\ wpc[w] \in Announces /\ ev \in {"put", "delete"}
      /\ chan' = [g \in Replicas |-> Offer(chan[g], ev, up[g] = "watching")]
      /\ wpc' = [wpc EXCEPT ![w] = IF ev = "put" THEN "applyPut" ELSE "applyDelete"]
      /\ disturbed' = disturbed \cup Missing(Replicas)
  BY DEF Broadcast, Announces
<1>1. /\ \A v \in Writers \ {w} : wpc'[v] = wpc[v]
      /\ wpc'[w] = IF wpc[w] = "announcePut" THEN "applyPut" ELSE "applyDelete"
  BY <1>0 DEF TypeOK
<1>2. backend # "postgres" /\ up[home[w]] # "down"
  BY <1>0 DEF LinkInv, Announces
<1>3. LinkInv'
  <2>1. \A g \in Replicas : up'[g] = "down" =>
          pipe'[g] = <<>> /\ chan'[g] = <<>> /\ fetched'[g] = Absent /\ ~listening'[g]
    BY <1>0 DEF LinkInv, Offer
  <2>2. \A v \in Writers : wpc'[v] \notin {"idle", "done"} => up'[home'[v]] # "down"
    BY <1>0, <1>1, <1>2 DEF LinkInv
  <2> QED  BY <1>0, <1>2, <2>1, <2>2 DEF LinkInv
<1>4. ASSUME NEW g \in Replicas, g \notin disturbed', up'[g] # "down" PROVE Mirrors(g)'
  <2>1. g \notin disturbed /\ g \notin Missing(Replicas) /\ up[g] # "down" /\ Mirrors(g)
    BY <1>0, <1>4 DEF MirrorInv
  <2>2. up[g] = "watching" /\ home[w] = g /\ pipe[g] = <<>>
    BY <1>2, <2>1 DEF LinkInv, TypeOK
  <2>3. Len(chan[g]) < ChanCap
    BY <2>1, <2>2, StateSyncAssumption, NonEmpty DEF Missing, TypeOK
  <2>4. chan'[g] = Append(chan[g], ev)
    BY <1>0, <2>2, <2>3 DEF Offer
  <2>5. Queued(g)' /\ LastEvent(g)' = ev
    <3>1. chan'[g] # <<>> /\ chan'[g][Len(chan'[g])] = ev
      BY <1>0, <2>4, QueueEnds DEF TypeOK
    <3> QED  BY <1>0, <2>2, <3>1 DEF Queued, LastEvent
  <2>6. ev = IF store = Absent THEN "delete" ELSE "put"
    BY <1>0, <2>1, <2>2, StateSyncAssumption DEF Mirrors, Announces
  <2>7. \A v \in Writers : home'[v] = g =>
          /\ wpc'[v] \in {"announcePut", "applyPut"} => store' = v
          /\ wpc'[v] \in {"announceDelete", "applyDelete"} => store' = Absent
    BY <1>0, <1>1, <2>1 DEF Mirrors, Announces
  <2> QED  BY <1>0, <2>5, <2>6, <2>7 DEF Mirrors
<1> QED  BY <1>3, <1>4 DEF MirrorInv

\* An undisturbed replica applies the row as it is, ...
LEMMA ApplyOwnMirror ==
    ASSUME SyncInv, NEW w \in Writers, ApplyOwn(w)
    PROVE  LinkInv' /\ MirrorInv'
<1> USE DEF SyncInv
<1>0. /\ UNCHANGED <<backend, store, home, up, listening, pipe, chan, fetched, disturbed>>
      /\ wpc[w] \in Applies /\ home[w] \in Replicas
      /\ cache' = [cache EXCEPT ![home[w]] = IF wpc[w] = "applyPut" THEN w ELSE Absent]
      /\ wpc'[w] \in {"audit", "done"} /\ \A v \in Writers \ {w} : wpc'[v] = wpc[v]
  BY DEF ApplyOwn, Applies, linkVars, TypeOK
<1>1. LinkInv'
  BY <1>0 DEF LinkInv, Applies, Announces
<1>2. Announcing' <=> Announcing
  BY <1>0 DEF Announcing, Announces, Applies
<1>3. ASSUME NEW g \in Replicas, g \notin disturbed', up'[g] # "down" PROVE Mirrors(g)'
  <2>1. Mirrors(g)
    BY <1>0, <1>3 DEF MirrorInv
  <2>2. Queued(g)' = Queued(g) /\ LastEvent(g)' = LastEvent(g)
    BY <1>0 DEF Queued, LastEvent
  <2>3. \A v \in Writers : home'[v] = g =>
          /\ wpc'[v] \in {"announcePut", "applyPut"} => store' = v
          /\ wpc'[v] \in {"announceDelete", "applyDelete"} => store' = Absent
    BY <1>0, <2>1 DEF Mirrors
  <2>4. CASE home[w] = g
    <3>1. cache'[g] = store
      BY <1>0, <2>1, <2>4 DEF Mirrors, Applies, TypeOK
    <3> QED  BY <1>0, <1>2, <2>1, <2>2, <2>3, <3>1 DEF Mirrors
  <2>5. CASE home[w] # g
    <3>1. cache'[g] = cache[g]
      BY <1>0, <2>5 DEF TypeOK
    <3>2. Applying(g)' <=> Applying(g)
      BY <1>0, <2>5 DEF Applying
    <3> QED  BY <1>0, <1>2, <2>1, <2>2, <2>3, <3>1, <3>2 DEF Mirrors
  <2> QED  BY <2>4, <2>5
<1> QED  BY <1>1, <1>3 DEF MirrorInv

\* ... and one that ignores the error of its delete is disturbed.
LEMMA DeleteFailsMirror ==
    ASSUME SyncInv, NEW w \in Writers, DeleteStoreFails(w)
    PROVE  LinkInv' /\ MirrorInv'
<1> USE DEF SyncInv
<1>0. /\ UNCHANGED <<backend, store, home, up, cache, listening, pipe, chan, fetched>>
      /\ wpc[w] = "delete" /\ wpc'[w] = "applyDelete" /\ \A v \in Writers \ {w} : wpc'[v] = wpc[v]
      /\ disturbed' = disturbed \cup {home[w]}
  BY DEF DeleteStoreFails, linkVars, TypeOK
<1>1. LinkInv'
  BY <1>0 DEF LinkInv, Announces
<1>2. Announcing' <=> Announcing
  BY <1>0 DEF Announcing, Announces
<1>3. ASSUME NEW g \in Replicas, g \notin disturbed', up'[g] # "down" PROVE Mirrors(g)'
  <2>1. Mirrors(g) /\ home[w] # g
    BY <1>0, <1>3 DEF MirrorInv
  <2>2. Queued(g)' = Queued(g) /\ LastEvent(g)' = LastEvent(g)
    BY <1>0 DEF Queued, LastEvent
  <2>3. Applying(g)' <=> Applying(g)
    BY <1>0, <2>1 DEF Applying
  <2>4. \A v \in Writers : home'[v] = g =>
          /\ wpc'[v] \in {"announcePut", "applyPut"} => store' = v
          /\ wpc'[v] \in {"announceDelete", "applyDelete"} => store' = Absent
    BY <1>0, <2>1 DEF Mirrors
  <2> QED  BY <1>0, <1>2, <2>1, <2>2, <2>3, <2>4 DEF Mirrors
<1> QED  BY <1>1, <1>3 DEF MirrorInv

\* A step of one replica: what remains to be shown is that g mirrors.
LEMMA ReplicaKeeps ==
    ASSUME SyncInv, NEW h \in Replicas, SameCalls, store' = store, disturbed \ {h} \subseteq disturbed',
           \A g \in Replicas \ {h} :
              /\ pipe'[g] = pipe[g] /\ chan'[g] = chan[g] /\ fetched'[g] = fetched[g]
              /\ cache'[g] = cache[g] /\ up'[g] = up[g],
           h \notin disturbed' /\ up'[h] # "down" => Mirrors(h)'
    PROVE  MirrorInv'
<1> SUFFICES ASSUME NEW g \in Replicas, g # h, g \notin disturbed', up'[g] # "down"
             PROVE  Mirrors(g)'
  BY DEF MirrorInv
<1>1. Mirrors(g)
  BY DEF SyncInv, MirrorInv
<1> QED  BY <1>1, MirrorsKept

\* A notification moves from the connection to the channel, or is missed.
LEMMA DispatchMirror ==
    ASSUME SyncInv, NEW h \in Replicas, Dispatch(h)
    PROVE  LinkInv' /\ MirrorInv'
<1> USE DEF SyncInv
<1>0. /\ UNCHANGED <<backend, store, home, wpc, up, cache, listening, fetched>>
      /\ pipe[h] # <<>> /\ pipe' = [pipe EXCEPT ![h] = Tail(@)]
      /\ chan' = [chan EXCEPT ![h] = Offer(@, Head(pipe[h]), up[h] = "watching")]
      /\ disturbed' = disturbed \cup Missing({h})
  BY DEF Dispatch, callVars
<1>1. /\ pipe'[h] = Tail(pipe[h]) /\ chan'[h] = Offer(chan[h], Head(pipe[h]), up[h] = "watching")
      /\ \A g \in Replicas \ {h} : pipe'[g] = pipe[g] /\ chan'[g] = chan[g]
  BY <1>0 DEF TypeOK
<1>2. backend = "postgres" /\ up[h] # "down"
  BY <1>0 DEF LinkInv
<1>3. LinkInv'
  BY <1>0, <1>1, <1>2 DEF LinkInv
<1>4. SameCalls
  BY <1>0 DEF SameCalls
<1>5. ASSUME h \notin disturbed' PROVE Mirrors(h)'
  <2>1. Mirrors(h) /\ h \notin Missing({h})
    BY <1>0, <1>2, <1>5 DEF MirrorInv
  <2>2. up[h] = "watching" /\ Len(chan[h]) < ChanCap
    BY <1>2, <2>1, StateSyncAssumption, NonEmpty DEF Missing, TypeOK
  <2>3. chan'[h] = Append(chan[h], Head(pipe[h])) /\ Head(pipe[h]) \in {"put", "delete"}
    BY <1>0, <1>1, <2>2, EventQueue DEF Offer, TypeOK
  <2>4. chan'[h] # <<>> /\ chan'[h][Len(chan'[h])] = Head(pipe[h])
    <3>1. chan[h] \in Seq({"put", "delete"})
      BY DEF TypeOK
    <3>2. PICK e \in {"put", "delete"} : e = Head(pipe[h])
      BY <2>3
    <3>3. Append(chan[h], e) # <<>> /\ Append(chan[h], e)[Len(Append(chan[h], e))] = e
      BY <3>1, QueueEnds
    <3>4. chan'[h] = Append(chan[h], e)
      BY <2>3, <3>2
    <3> QED  BY <3>2, <3>3, <3>4
  <2>5. Queued(h)' /\ Queued(h)
    BY <1>0, <2>4 DEF Queued
  <2>6. LastEvent(h)' = LastEvent(h)
    <3>1. CASE Tail(pipe[h]) # <<>>
      BY <1>0, <1>1, <3>1, QueueEnds DEF LastEvent, TypeOK
    <3>2. CASE Tail(pipe[h]) = <<>>
      BY <1>0, <1>1, <2>4, <3>2, QueueEnds DEF LastEvent, TypeOK
    <3> QED  BY <3>1, <3>2
  <2>7. (Announcing' <=> Announcing)
    BY <1>0 DEF Announcing
  <2> QED  BY <1>0, <2>1, <2>5, <2>6, <2>7 DEF Mirrors
<1> QED  BY <1>0, <1>1, <1>3, <1>4, <1>5, ReplicaKeeps

\* The Watch loop takes an event: it was the last one, or the last one stays.
LEMMA EventTaken ==
    ASSUME SyncInv, NEW h \in Replicas, NEW ev \in {"put", "delete"}, NextEvent(h, ev),
           UNCHANGED <<backend, store, home, wpc, up, listening, pipe>>
    PROVE  /\ SameCalls /\ up[h] = "watching" /\ Queued(h) /\ fetched[h] = Absent
           /\ \A g \in Replicas \ {h} : chan'[g] = chan[g]
           /\ (\A g \in Replicas \ {h} : fetched'[g] = fetched[g]) => LinkInv'
           /\ \/ Queued(h)' /\ LastEvent(h)' = LastEvent(h)
              \/ ~Queued(h)' /\ LastEvent(h) = ev
<1> USE DEF SyncInv
<1>0. /\ up[h] = "watching" /\ fetched[h] = Absent /\ chan[h] # <<>> /\ Head(chan[h]) = ev
      /\ chan' = [chan EXCEPT ![h] = Tail(@)]
  BY DEF NextEvent
<1>1. chan'[h] = Tail(chan[h]) /\ \A g \in Replicas \ {h} : chan'[g] = chan[g]
  BY <1>0 DEF TypeOK
<1>2. SameCalls /\ Queued(h)
  BY <1>0 DEF SameCalls, Queued
<1>3. ASSUME \A g \in Replicas \ {h} : fetched'[g] = fetched[g] PROVE LinkInv'
  BY <1>0, <1>1, <1>3 DEF LinkInv
<1>4. \/ Queued(h)' /\ LastEvent(h)' = LastEvent(h)
      \/ ~Queued(h)' /\ LastEvent(h) = ev
  <2>1. CASE pipe[h] # <<>>
    BY <2>1 DEF Queued, LastEvent
  <2>2. CASE pipe[h] = <<>> /\ Tail(chan[h]) # <<>>
    BY <1>0, <1>1, <2>2, QueueEnds DEF Queued, LastEvent, TypeOK
  <2>3. CASE pipe[h] = <<>> /\ Tail(chan[h]) = <<>>
    BY <1>0, <1>1, <2>3, QueueEnds DEF Queued, LastEvent, TypeOK
  <2> QED  BY <2>1, <2>2, <2>3
<1> QED  BY <1>0, <1>1, <1>2, <1>3, <1>4

\* It reads the row after a put event; the last put event finds it.
LEMMA FetchMirror ==
    ASSUME SyncInv, NEW h \in Replicas, Fetch(h)
    PROVE  LinkInv' /\ MirrorInv'
<1> USE DEF SyncInv
<1>0. /\ UNCHANGED <<backend, store, home, wpc, up, cache, listening, pipe, disturbed>>
      /\ NextEvent(h, "put") /\ fetched' = [fetched EXCEPT ![h] = store]
  BY DEF Fetch, callVars
<1>1. fetched'[h] = store /\ \A g \in Replicas \ {h} : fetched'[g] = fetched[g]
  BY <1>0 DEF TypeOK
<1>2. /\ SameCalls /\ up[h] = "watching" /\ Queued(h) /\ fetched[h] = Absent /\ LinkInv'
      /\ \A g \in Replicas \ {h} : chan'[g] = chan[g]
      /\ \/ Queued(h)' /\ LastEvent(h)' = LastEvent(h)
         \/ ~Queued(h)' /\ LastEvent(h) = "put"
  BY <1>0, <1>1, EventTaken
<1>3. ASSUME h \notin disturbed' PROVE Mirrors(h)'
  <2>1. Mirrors(h)
    BY <1>0, <1>2, <1>3 DEF MirrorInv
  <2>2. Announcing' <=> Announcing
    BY <1>0 DEF Announcing
  <2>3. Queued(h)' \/ Announcing \/ store # Absent
    BY <1>2, <2>1 DEF Mirrors
  <2> QED  BY <1>0, <1>1, <1>2, <2>1, <2>2, <2>3 DEF Mirrors
<1> QED  BY <1>0, <1>1, <1>2, <1>3, ReplicaKeeps

\* A delete event empties the cache: the row is gone, or more events follow.
LEMMA ApplyDeleteMirror ==
    ASSUME SyncInv, NEW h \in Replicas, ApplyDeleteEvent(h)
    PROVE  LinkInv' /\ MirrorInv'
<1> USE DEF SyncInv
<1>0. /\ UNCHANGED <<backend, store, home, wpc, up, fetched, listening, pipe, disturbed>>
      /\ NextEvent(h, "delete") /\ cache' = [cache EXCEPT ![h] = Absent]
  BY DEF ApplyDeleteEvent, callVars
<1>1. cache'[h] = Absent /\ \A g \in Replicas \ {h} : cache'[g] = cache[g]
  BY <1>0 DEF TypeOK
<1>2. /\ SameCalls /\ up[h] = "watching" /\ Queued(h) /\ fetched[h] = Absent /\ LinkInv'
      /\ \A g \in Replicas \ {h} : chan'[g] = chan[g]
      /\ \/ Queued(h)' /\ LastEvent(h)' = LastEvent(h)
         \/ ~Queued(h)' /\ LastEvent(h) = "delete"
  BY <1>0, EventTaken
<1>3. ASSUME h \notin disturbed' PROVE Mirrors(h)'
  <2>1. Mirrors(h)
    BY <1>0, <1>2, <1>3 DEF MirrorInv
  <2>2. Announcing' <=> Announcing
    BY <1>0 DEF Announcing
  <2>3. Queued(h)' \/ Announcing \/ store = Absent
    BY <1>2, <2>1 DEF Mirrors
  <2> QED  BY <1>0, <1>1, <1>2, <2>1, <2>2, <2>3 DEF Mirrors
<1> QED  BY <1>0, <1>1, <1>2, <1>3, ReplicaKeeps

\* A query that fails is on record.
LEMMA FetchFailsMirror ==
    ASSUME SyncInv, NEW h \in Replicas, FetchFails(h)
    PROVE  LinkInv' /\ MirrorInv'
<1>0. /\ UNCHANGED <<backend, store, home, wpc, up, cache, listening, pipe, fetched>>
      /\ NextEvent(h, "put") /\ disturbed' = disturbed \cup {h}
  BY DEF FetchFails, callVars
<1>1. SameCalls /\ LinkInv' /\ \A g \in Replicas \ {h} : chan'[g] = chan[g]
  BY <1>0, EventTaken
<1> QED  BY <1>0, <1>1, ReplicaKeeps

\* What the Watch loop applies is the row, or more events follow.
LEMMA ApplyFetchedMirror ==
    ASSUME SyncInv, NEW h \in Replicas, ApplyFetched(h)
    PROVE  LinkInv' /\ MirrorInv'
<1> USE DEF SyncInv
<1>0. /\ UNCHANGED <<backend, store, home, wpc, up, listening, pipe, chan, disturbed>>
      /\ fetched[h] # Absent /\ cache' = [cache EXCEPT ![h] = fetched[h]]
      /\ fetched' = [fetched EXCEPT ![h] = Absent]
  BY DEF ApplyFetched, callVars, linkVars
<1>1. /\ cache'[h] = fetched[h] /\ fetched'[h] = Absent
      /\ \A g \in Replicas \ {h} : cache'[g] = cache[g] /\ fetched'[g] = fetched[g]
  BY <1>0 DEF TypeOK
<1>2. SameCalls /\ LinkInv'
  BY <1>0, <1>1 DEF SameCalls, LinkInv
<1>3. ASSUME h \notin disturbed', up'[h] # "down" PROVE Mirrors(h)'
  <2>1. Mirrors(h)
    BY <1>0, <1>3 DEF MirrorInv
  <2>2. (Announcing' <=> Announcing) /\ Queued(h)' = Queued(h) /\ LastEvent(h)' = LastEvent(h)
    BY <1>0 DEF Announcing, Queued, LastEvent
  <2> QED  BY <1>0, <1>1, <2>1, <2>2 DEF Mirrors
<1> QED  BY <1>0, <1>1, <1>2, <1>3, ReplicaKeeps

\* A replica that starts has the row, and no call is made there yet.
LEMMA BootstrapMirror ==
    ASSUME SyncInv, NEW h \in Replicas, Bootstrap(h)
    PROVE  LinkInv' /\ MirrorInv'
<1> USE DEF SyncInv
<1>0. /\ UNCHANGED <<backend, store, home, wpc, pipe, chan, fetched>>
      /\ backend = "postgres" /\ up[h] = "down" /\ up' = [up EXCEPT ![h] = "listed"]
      /\ listening' = [listening EXCEPT ![h] = TRUE]
  BY DEF Bootstrap, callVars
<1>1. /\ \A g \in Replicas \ {h} : up'[g] = up[g] /\ listening'[g] = listening[g]
      /\ up'[h] = "listed"
  BY <1>0 DEF TypeOK
<1>2. SameCalls
  BY <1>0 DEF SameCalls
<1>3. LinkInv'
  <2>1. \A g \in Replicas : up'[g] = "down" =>
          pipe'[g] = <<>> /\ chan'[g] = <<>> /\ fetched'[g] = Absent /\ ~listening'[g]
    BY <1>0, <1>1 DEF LinkInv
  <2>2. \A w \in Writers : wpc'[w] \notin {"idle", "done"} => up'[home'[w]] # "down"
    BY <1>0, <1>1 DEF LinkInv, TypeOK
  <2> QED  BY <1>0, <2>1, <2>2 DEF LinkInv
<1>4. /\ \A g \in Replicas \ {h} : cache'[g] = cache[g]
      /\ disturbed \subseteq disturbed'
      /\ h \notin disturbed' => cache'[h] = store
  BY <1>0 DEF Bootstrap, TypeOK
<1>5. ASSUME h \notin disturbed' PROVE Mirrors(h)'
  <2>1. ~Queued(h)' /\ fetched'[h] = Absent /\ cache'[h] = store'
    BY <1>0, <1>4, <1>5 DEF Queued, LinkInv
  <2>2. \A w \in Writers : home'[w] = h => wpc'[w] \in {"idle", "done"}
    BY <1>0 DEF LinkInv
  <2> QED  BY <2>1, <2>2 DEF Mirrors
<1> QED  BY <1>0, <1>1, <1>2, <1>3, <1>4, <1>5, ReplicaKeeps

\* Subscribing changes nothing a replica has.
LEMMA SubscribeMirror ==
    ASSUME SyncInv, NEW h \in Replicas, Subscribe(h)
    PROVE  LinkInv' /\ MirrorInv'
<1> USE DEF SyncInv
<1>0. /\ UNCHANGED <<backend, store, home, wpc, cache, listening, pipe, chan, fetched, disturbed>>
      /\ up[h] = "listed" /\ up' = [up EXCEPT ![h] = "watching"]
  BY DEF Subscribe, callVars, linkVars
<1>1. up'[h] = "watching" /\ \A g \in Replicas \ {h} : up'[g] = up[g]
  BY <1>0 DEF TypeOK
<1>2. SameCalls
  BY <1>0 DEF SameCalls
<1>3. LinkInv'
  <2>1. \A g \in Replicas : up'[g] = "down" => up[g] = "down"
    BY <1>1
  <2>2. \A w \in Writers : wpc'[w] \notin {"idle", "done"} => up'[home'[w]] # "down"
    BY <1>0, <2>1 DEF LinkInv, TypeOK
  <2>3. backend = "postgres"
    BY <1>0 DEF LinkInv
  <2> QED  BY <1>0, <2>1, <2>2, <2>3 DEF LinkInv
<1>4. ASSUME h \notin disturbed' PROVE Mirrors(h)'
  <2>1. Mirrors(h)
    BY <1>0, <1>4 DEF MirrorInv
  <2> QED  BY <1>0, <1>2, <2>1, MirrorsKept
<1> QED  BY <1>0, <1>1, <1>2, <1>3, <1>4, ReplicaKeeps

\* A broken connection: what was on its way is missed.
LEMMA DisconnectMirror ==
    ASSUME SyncInv, NEW h \in Replicas, Disconnect(h)
    PROVE  LinkInv' /\ MirrorInv'
<1> USE DEF SyncInv
<1>0. /\ UNCHANGED <<backend, store, home, wpc, up, cache, chan, fetched>>
      /\ listening[h] /\ listening' = [listening EXCEPT ![h] = FALSE]
      /\ pipe' = [pipe EXCEPT ![h] = <<>>]
      /\ disturbed' = IF pipe[h] = <<>> THEN disturbed ELSE disturbed \cup {h}
  BY DEF Disconnect, callVars
<1>1. /\ pipe'[h] = <<>> /\ ~listening'[h]
      /\ \A g \in Replicas \ {h} : pipe'[g] = pipe[g] /\ listening'[g] = listening[g]
  BY <1>0 DEF TypeOK
<1>2. SameCalls
  BY <1>0 DEF SameCalls
<1>3. LinkInv'
  BY <1>0, <1>1 DEF LinkInv
<1>4. ASSUME h \notin disturbed', up'[h] # "down" PROVE Mirrors(h)'
  <2>1. pipe'[h] = pipe[h] /\ Mirrors(h)
    BY <1>0, <1>1, <1>4 DEF MirrorInv
  <2> QED  BY <1>0, <1>2, <2>1, MirrorsKept
<1> QED  BY <1>0, <1>1, <1>2, <1>3, <1>4, ReplicaKeeps

\* Nor does redialling.
LEMMA ReconnectMirror ==
    ASSUME SyncInv, NEW h \in Replicas, Reconnect(h)
    PROVE  LinkInv' /\ MirrorInv'
<1> USE DEF SyncInv
<1>0. /\ UNCHANGED <<backend, store, home, wpc, up, cache, pipe, chan, fetched, disturbed>>
      /\ backend = "postgres" /\ up[h] # "down" /\ listening' = [listening EXCEPT ![h] = TRUE]
  BY DEF Reconnect, callVars
<1>1. \A g \in Replicas \ {h} : listening'[g] = listening[g]
  BY <1>0 DEF TypeOK
<1>2. SameCalls
  BY <1>0 DEF SameCalls
<1>3. LinkInv'
  BY <1>0, <1>1 DEF LinkInv
<1>4. ASSUME h \notin disturbed', up'[h] # "down" PROVE Mirrors(h)'
  <2>1. Mirrors(h)
    BY <1>0, <1>4 DEF MirrorInv
  <2> QED  BY <1>0, <1>2, <2>1, MirrorsKept
<1> QED  BY <1>0, <1>1, <1>2, <1>3, <1>4, ReplicaKeeps

\* A replica dies with the calls that are made there.
LEMMA CrashMirror ==
    ASSUME SyncInv, NEW h \in Replicas, Crash(h)
    PROVE  LinkInv' /\ MirrorInv'
<1> USE DEF SyncInv
<1>0. /\ UNCHANGED <<backend, store, home>> /\ backend = "postgres"
      /\ up' = [up EXCEPT ![h] = "down"] /\ cache' = [cache EXCEPT ![h] = Absent]
      /\ listening' = [listening EXCEPT ![h] = FALSE]
      /\ pipe' = [pipe EXCEPT ![h] = <<>>] /\ chan' = [chan EXCEPT ![h] = <<>>]
      /\ fetched' = [fetched EXCEPT ![h] = Absent]
      /\ wpc' = [w \in Writers |-> IF w \in UnderWay /\ home[w] = h THEN "done" ELSE wpc[w]]
      /\ disturbed' = disturbed \ {h}
  BY DEF Crash
<1>1. /\ up'[h] = "down" /\ pipe'[h] = <<>> /\ chan'[h] = <<>> /\ fetched'[h] = Absent
      /\ ~listening'[h]
      /\ \A g \in Replicas \ {h} :
            /\ pipe'[g] = pipe[g] /\ chan'[g] = chan[g] /\ fetched'[g] = fetched[g]
            /\ cache'[g] = cache[g] /\ up'[g] = up[g] /\ listening'[g] = listening[g]
  BY <1>0 DEF TypeOK
<1>2. \A w \in Writers : /\ home[w] # h => wpc'[w] = wpc[w]
                         /\ home[w] = h => wpc'[w] \in {"idle", "done"}
  BY <1>0 DEF UnderWay
<1>3. LinkInv'
  <2>1. \A g \in Replicas : up'[g] = "down" =>
          pipe'[g] = <<>> /\ chan'[g] = <<>> /\ fetched'[g] = Absent /\ ~listening'[g]
    BY <1>1 DEF LinkInv
  <2>2. \A w \in Writers : wpc'[w] \notin {"idle", "done"} => up'[home'[w]] # "down"
    BY <1>0, <1>1, <1>2 DEF LinkInv, TypeOK
  <2>3. \A w \in Writers : wpc'[w] \notin Announces
    BY <1>0, <1>2 DEF LinkInv, Announces
  <2> QED  BY <1>0, <2>1, <2>2, <2>3 DEF LinkInv
<1>4. ASSUME NEW g \in Replicas, g \notin disturbed', up'[g] # "down" PROVE Mirrors(g)'
  <2>1. g # h /\ Mirrors(g)
    BY <1>0, <1>1, <1>4 DEF MirrorInv
  <2>2. Queued(g)' = Queued(g) /\ LastEvent(g)' = LastEvent(g)
    BY <1>1, <2>1 DEF Queued, LastEvent
  <2>3. ~Announcing /\ ~Announcing'
    BY <1>0, <1>3 DEF LinkInv, Announcing
  <2>4. Applying(g)' <=> Applying(g)
    BY <1>0, <1>2, <2>1 DEF Applying
  <2>5. \A v \in Writers : home'[v] = g =>
          /\ wpc'[v] \in {"announcePut", "applyPut"} => store' = v
          /\ wpc'[v] \in {"announceDelete", "applyDelete"} => store' = Absent
    BY <1>0, <1>2, <2>1 DEF Mirrors
  <2> QED  BY <1>0, <1>1, <2>1, <2>2, <2>3, <2>4, <2>5 DEF Mirrors
<1> QED  BY <1>3, <1>4 DEF MirrorInv

\* The invariant holds at first.
LEMMA InitMirror == Init => LinkInv /\ MirrorInv
<1> SUFFICES ASSUME Init PROVE LinkInv /\ MirrorInv
  OBVIOUS
<1>1. LinkInv
  <2>1. backend # "postgres" => backend = "inmem"
    BY StateSyncAssumption DEF Init
  <2> QED  BY <2>1 DEF Init, LinkInv, Announces
<1>2. MirrorInv
  BY DEF Init, MirrorInv, Mirrors, Queued, Announces, Applies
<1> QED  BY <1>1, <1>2

\* Every step keeps it.
LEMMA NextMirror == AcceptedInv /\ AcceptedInv' /\ LinkInv /\ MirrorInv /\ [Next]_vars => LinkInv' /\ MirrorInv'
<1> SUFFICES ASSUME AcceptedInv, AcceptedInv', LinkInv, MirrorInv, [Next]_vars
             PROVE  LinkInv' /\ MirrorInv'
  OBVIOUS
<1>0. SyncInv /\ TypeOK'
  BY DEF AcceptedInv, SyncInv
<1>1. ASSUME NEW w \in Writers, WriterStep(w) PROVE LinkInv' /\ MirrorInv'
  BY <1>0, <1>1, QuietCallSteps, MutationSteps, BroadcastMirror, ApplyOwnMirror, DeleteFailsMirror
     DEF WriterStep
<1>2. ASSUME NEW g \in Replicas, WatchStep(g) PROVE LinkInv' /\ MirrorInv'
  BY <1>0, <1>2, DispatchMirror, FetchMirror, FetchFailsMirror, ApplyFetchedMirror,
     ApplyDeleteMirror DEF WatchStep
<1>3. ASSUME NEW g \in Replicas, ReplicaStep(g) PROVE LinkInv' /\ MirrorInv'
  BY <1>0, <1>3, BootstrapMirror, SubscribeMirror, CrashMirror, DisconnectMirror, ReconnectMirror
     DEF ReplicaStep
<1>4. CASE UNCHANGED vars
  <2>1. /\ UNCHANGED <<backend, store, home, wpc, up, cache, listening, pipe, chan, fetched, disturbed>>
    BY <1>4 DEF vars, callVars, linkVars
  <2>2. LinkInv'
    BY <2>1 DEF LinkInv
  <2>3. SameCalls
    BY <2>1 DEF SameCalls
  <2>4. MirrorInv'
    BY <2>1, <2>3, MirrorsKept DEF MirrorInv
  <2> QED  BY <2>2, <2>4
<1> QED  BY <1>1, <1>2, <1>3, <1>4 DEF Next, Finished

\* In every reachable state, an undisturbed replica has the row or is about
\* to get it.
THEOREM MirrorInvariant == Spec => [](LinkInv /\ MirrorInv)
BY OnlyAccepted, InitMirror, NextMirror, PTL DEF Spec

\* Once the announcements have been handled, a replica that missed none, and
\* whose own writes were not overtaken, serves what is in the store.
THEOREM ConvergedHolds == Spec => []Converged
<1>1. LinkInv /\ MirrorInv => Converged
  <2> SUFFICES ASSUME MirrorInv, NEW g \in Replicas, Quiet(g), g \notin disturbed
               PROVE  cache[g] = store
    BY DEF Converged
  <2>1. Mirrors(g)
    BY DEF MirrorInv, Quiet, Settled
  <2>2. ~Queued(g) /\ fetched[g] = Absent
    BY DEF Quiet, Settled, Queued
  <2>3. ~Announcing /\ ~Applying(g)
    BY DEF Quiet, UnderWay, Announcing, Applying, Announces, Applies
  <2> QED  BY <2>1, <2>2, <2>3 DEF Mirrors
<1> QED  BY <1>1, MirrorInvariant, PTL
=============================================================================
