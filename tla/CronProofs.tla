------------------------------ MODULE CronProofs ------------------------------
(***************************************************************************)
(* Mutual exclusion of cluster schedulers, for any number of instances and *)
(* jobs: the advisory lock, the isLeader flags, the running triggers and   *)
(* the orphaned sessions always fit together (LeadershipInv), hence        *)
(* OneLeader and LockReleased.  And the engines follow the store           *)
(* (MirrorInv): an instance that has no cron event left, and lost none     *)
(* with no listing ahead, has listed the jobs after the last edit.         *)
(***************************************************************************)
EXTENDS CronLeader, TLAPS

\* How the pieces of leadership fit together: the lock is held by an instance
\* that believes it leads; one that believes it leads holds the lock or lost
\* its session; only such an instance, between Start and Stop, has triggers
\* under way.
LeadershipInv ==
    /\ TypeOK
    /\ \A s \in Schedulers :
          /\ lock = s => isLeader[s]
          /\ isLeader[s] => Serving(s) /\ (s \in orphaned \/ lock = s)
          /\ s \in orphaned => isLeader[s] /\ lock # s
          /\ spc[s] # "off" /\ firing[s] # {} => isLeader[s]

\* No instance leads before the first one starts.
LEMMA InitLeadership == Init => LeadershipInv
<1>. SUFFICES ASSUME Init PROVE LeadershipInv
  OBVIOUS
<1>1. TypeOK
  BY CronLeaderAssumption DEF Init, TypeOK, NoJobs
<1>2. \A s \in Schedulers : ~isLeader[s] /\ lock # s /\ s \notin orphaned /\ spc[s] = "off"
  BY CronLeaderAssumption DEF Init
<1>. QED BY <1>1, <1>2 DEF LeadershipInv

\* Edits of the stored jobs do not touch leadership.
LEMMA EditJobStep ==
    ASSUME LeadershipInv, NEW j \in Jobs, NEW d \in JobDefs \cup {NoJob}, EditJob(j, d)
    PROVE  LeadershipInv'
<1>1. TypeOK'
  BY CronLeaderAssumption DEF LeadershipInv, TypeOK, histVars, chanVars, EditJob, Announce, HaveRoom, Subscribed, Missing
<1>. QED BY <1>1, CronLeaderAssumption DEF LeadershipInv, TypeOK, Serving, histVars, chanVars, EditJob, Announce, HaveRoom, Subscribed, Missing

\* Nor do edits of functions.
LEMMA EditFunctionStep ==
    ASSUME LeadershipInv, EditFunction
    PROVE  LeadershipInv'
<1>1. TypeOK'
  BY CronLeaderAssumption DEF LeadershipInv, TypeOK, histVars, chanVars, EditFunction, Announce, HaveRoom, Subscribed
<1>. QED BY <1>1, CronLeaderAssumption DEF LeadershipInv, TypeOK, Serving, histVars, chanVars, EditFunction

\* A new instance starts with no trigger under way.
LEMMA StartStep ==
    ASSUME LeadershipInv, NEW s \in Schedulers, Start(s)
    PROVE  LeadershipInv'
<1>1. TypeOK'
  BY CronLeaderAssumption DEF LeadershipInv, TypeOK, histVars, chanVars, Start
<1>. QED BY <1>1, CronLeaderAssumption DEF LeadershipInv, TypeOK, Serving, histVars, chanVars, Start

\* Taking an event leaves leadership alone.
LEMMA TakeEventStep ==
    ASSUME LeadershipInv, NEW s \in Schedulers, TakeEvent(s)
    PROVE  LeadershipInv'
<1>1. TypeOK'
  BY CronLeaderAssumption DEF LeadershipInv, TypeOK, histVars, chanVars, TakeEvent
<1>. QED BY <1>1, CronLeaderAssumption DEF LeadershipInv, TypeOK, Serving, histVars, chanVars, TakeEvent

\* Nor does an event that is passed over.
LEMMA SkipEventStep ==
    ASSUME LeadershipInv, NEW s \in Schedulers, SkipEvent(s)
    PROVE  LeadershipInv'
<1>1. TypeOK'
  BY CronLeaderAssumption DEF LeadershipInv, TypeOK, histVars, chanVars, SkipEvent
<1>. QED BY <1>1, CronLeaderAssumption DEF LeadershipInv, TypeOK, Serving, histVars, chanVars, SkipEvent

\* The three parts of reconcile.
LEMMA ListJobsStep ==
    ASSUME LeadershipInv, NEW s \in Schedulers, ListJobs(s)
    PROVE  LeadershipInv'
<1>1. TypeOK'
  BY CronLeaderAssumption DEF LeadershipInv, TypeOK, histVars, chanVars, ListJobs
<1>. QED BY <1>1, CronLeaderAssumption DEF LeadershipInv, TypeOK, Serving, histVars, chanVars, ListJobs

\* A failed listing ends a Start, which is not leader yet.
LEMMA ListFailsStep ==
    ASSUME LeadershipInv, NEW s \in Schedulers, ListFails(s)
    PROVE  LeadershipInv'
<1>1. TypeOK'
  BY CronLeaderAssumption DEF LeadershipInv, TypeOK, histVars, chanVars, ListFails
<1>. QED BY <1>1, CronLeaderAssumption DEF LeadershipInv, TypeOK, Serving, histVars, chanVars, ListFails

\* The engine's entries change, not who leads.
LEMMA ReconcileStep ==
    ASSUME LeadershipInv, NEW s \in Schedulers, Reconcile(s)
    PROVE  LeadershipInv'
<1>1. TypeOK'
  BY CronLeaderAssumption DEF LeadershipInv, TypeOK, histVars, chanVars, Reconcile, Kept, ToAdd, NoJobs
<1>. QED BY <1>1, CronLeaderAssumption DEF LeadershipInv, TypeOK, Serving, histVars, chanVars, Reconcile, Kept, ToAdd, NoJobs

\* A reconcile that stops half-way keeps the types and who leads.
LEMMA ReconcileFailsStep ==
    ASSUME LeadershipInv, NEW s \in Schedulers, ReconcileFails(s)
    PROVE  LeadershipInv'
<1>1. TypeOK'
  BY CronLeaderAssumption DEF LeadershipInv, TypeOK, histVars, chanVars, ReconcileFails, Kept, ToAdd, NoJobs
<1>. QED BY <1>1, CronLeaderAssumption DEF LeadershipInv, TypeOK, Serving, histVars, chanVars, ReconcileFails, Kept, ToAdd, NoJobs

\* Whoever is granted the lock becomes the leader; nobody else holds it.
LEMMA TryLeaderStep ==
    ASSUME LeadershipInv, NEW s \in Schedulers, TryLeader(s)
    PROVE  LeadershipInv'
<1>1. TypeOK'
  BY CronLeaderAssumption DEF LeadershipInv, TypeOK, histVars, chanVars, TryLeader
<1>2. CASE lock = None
  <2>1. lock' = s /\ isLeader' = [isLeader EXCEPT ![s] = TRUE]
    BY <1>2 DEF TryLeader
  <2>2. ~isLeader[s] /\ s \notin orphaned
    BY DEF LeadershipInv, TryLeader, Serving
  <2>. QED BY <1>1, <1>2, <2>1, <2>2, CronLeaderAssumption
        DEF LeadershipInv, TypeOK, Serving, histVars, chanVars, TryLeader
<1>3. CASE lock # None
  <2>1. lock' = lock /\ isLeader' = [isLeader EXCEPT ![s] = FALSE]
    BY <1>3 DEF TryLeader
  <2>2. ~isLeader[s]
    BY DEF LeadershipInv, TryLeader, Serving
  <2>. QED BY <1>1, <2>1, <2>2 DEF LeadershipInv, TypeOK, Serving, histVars, chanVars, TryLeader
<1>. QED BY <1>2, <1>3

\* A failed query is taken for a no by an instance that was no leader.
LEMMA TryLeaderFailsStep ==
    ASSUME LeadershipInv, NEW s \in Schedulers, TryLeaderFails(s)
    PROVE  LeadershipInv'
<1>1. TypeOK'
  BY CronLeaderAssumption DEF LeadershipInv, TypeOK, histVars, chanVars, TryLeaderFails
<1>. QED BY <1>1, CronLeaderAssumption DEF LeadershipInv, TypeOK, Serving, histVars, chanVars, TryLeaderFails

\* Only a leader begins to fire.
LEMMA FireStep ==
    ASSUME LeadershipInv, NEW s \in Schedulers, NEW j \in Jobs, Fire(s, j)
    PROVE  LeadershipInv'
<1>1. TypeOK'
  BY CronLeaderAssumption DEF LeadershipInv, TypeOK, histVars, chanVars, Fire, Serving
<1>. QED BY <1>1, CronLeaderAssumption DEF LeadershipInv, TypeOK, histVars, chanVars, Fire, Serving

\* A trigger that returns.
LEMMA FiredStep ==
    ASSUME LeadershipInv, NEW s \in Schedulers, NEW j \in Jobs, Fired(s, j)
    PROVE  LeadershipInv'
<1>1. TypeOK'
  BY CronLeaderAssumption DEF LeadershipInv, TypeOK, histVars, chanVars, Fired
<1>. QED BY <1>1, CronLeaderAssumption DEF LeadershipInv, TypeOK, Serving, histVars, chanVars, Fired

\* Stop and a crash free the lock of the instance that ends, and no other.
LEMMA StopStep ==
    ASSUME LeadershipInv, NEW s \in Schedulers, Stop(s)
    PROVE  LeadershipInv'
<1>1. TypeOK'
  BY CronLeaderAssumption DEF LeadershipInv, TypeOK, histVars, chanVars, Stop, Gone, Unlocked, NoJobs
<1>. QED BY <1>1, CronLeaderAssumption DEF LeadershipInv, TypeOK, Serving, histVars, chanVars, Stop, Gone, Unlocked, NoJobs

\* A crash, as Stop.
LEMMA CrashStep ==
    ASSUME LeadershipInv, NEW s \in Schedulers, Crash(s)
    PROVE  LeadershipInv'
<1>1. TypeOK'
  BY CronLeaderAssumption DEF LeadershipInv, TypeOK, histVars, chanVars, Crash, Gone, Unlocked, NoJobs
<1>. QED BY <1>1, CronLeaderAssumption DEF LeadershipInv, TypeOK, Serving, histVars, chanVars, Crash, Gone, Unlocked, NoJobs

\* A lost session frees the lock and marks the leader that does not know.
LEMMA LoseSessionStep ==
    ASSUME LeadershipInv, NEW s \in Schedulers, LoseSession(s)
    PROVE  LeadershipInv'
<1>1. TypeOK'
  BY CronLeaderAssumption DEF LeadershipInv, TypeOK, histVars, chanVars, LoseSession
<1>. QED BY <1>1, CronLeaderAssumption DEF LeadershipInv, TypeOK, Serving, histVars, chanVars, LoseSession

\* The invariant is inductive: every step of the store and of the schedulers
\* preserves it.
LEMMA NextLeadership == LeadershipInv /\ [Next]_vars => LeadershipInv'
<1>. SUFFICES ASSUME LeadershipInv, [Next]_vars PROVE LeadershipInv'
  OBVIOUS
<1>1. ASSUME NEW s \in Schedulers, SchedulerStep(s) PROVE LeadershipInv'
  BY <1>1, StartStep, TakeEventStep, SkipEventStep, ListJobsStep, ListFailsStep, ReconcileStep,
     ReconcileFailsStep, TryLeaderStep, TryLeaderFailsStep, FireStep, FiredStep,
     StopStep, CrashStep, LoseSessionStep DEF SchedulerStep
<1>2. ASSUME NEW j \in Jobs, NEW d \in JobDefs \cup {NoJob}, EditJob(j, d)
      PROVE  LeadershipInv'
  BY <1>2, EditJobStep
<1>3. CASE EditFunction
  BY <1>3, EditFunctionStep
<1>4. CASE UNCHANGED vars
  BY <1>4 DEF LeadershipInv, TypeOK, Serving, vars, histVars, chanVars
<1>. QED BY <1>1, <1>2, <1>3, <1>4 DEF Next

\* Leadership is consistent in every reachable state, through starts, stops,
\* crashes, lost sessions and failing queries.
THEOREM LeadershipConsistent == Spec => []LeadershipInv
BY InitLeadership, NextLeadership, PTL DEF Spec

\* Type correctness of the schedulers (channels never exceed their capacity).
THEOREM CronTypeCorrect == Spec => []TypeOK
<1>1. LeadershipInv => TypeOK
  BY DEF LeadershipInv
<1>. QED BY <1>1, LeadershipConsistent, PTL

\* TryAcquireLeadership gives mutual exclusion: of any number of schedulers
\* that run with an intact session at most one leads or has a trigger under
\* way.  (Nothing is said of what a stopped instance is still running.)
THEOREM OneLeaderHolds == Spec => []OneLeader
<1>1. LeadershipInv => OneLeader
  BY DEF LeadershipInv, OneLeader, Active, Unfenced
<1>. QED BY <1>1, LeadershipConsistent, PTL

\* Stop, a crash or a failed Start never leaves the advisory lock behind.
THEOREM LockReleasedHolds == Spec => []LockReleased
<1>1. LeadershipInv => LockReleased
  BY DEF LeadershipInv, TypeOK, LockReleased, Serving
<1>. QED BY <1>1, LeadershipConsistent, PTL
-----------------------------------------------------------------------------
\* An instance with no cron event left, that lost none with no listing ahead,
\* has listed the jobs as they are, and after its reconcile the engine has
\* their schedules; of a reconcile that stopped half-way, no others.
MirrorInv ==
    \A s \in Schedulers \ missed : pending[s] = 0 =>
        /\ spc[s] \in {"startApply", "apply"} => listed[s] = jobs
        /\ spc[s] \in {"startLead", "run"} =>
              \A j \in Jobs : InStep(s, j) \/ (s \in behind /\ entries[s][j] = NoJob)

\* A successful reconcile gives the engine the schedules that were listed.
LEMMA ReconcileSchedules ==
    ASSUME TypeOK, NEW s \in Schedulers, Reconcile(s), NEW j \in Jobs
    PROVE  entries'[s][j].schedule = listed[s][j].schedule
<1>1. entries'[s][j] = IF j \in ToAdd(s) THEN listed[s][j] ELSE Kept(s)[j]
  BY DEF Reconcile, TypeOK
<1>2. Kept(s)[j] = IF entries[s][j].schedule = listed[s][j].schedule THEN entries[s][j] ELSE NoJob
  BY DEF Kept
<1>3. j \notin ToAdd(s) => Kept(s)[j] # NoJob \/ listed[s][j] = NoJob
  BY DEF ToAdd
<1>. QED BY <1>1, <1>2, <1>3

\* One that stops half-way gives it some of them, and keeps no other.
LEMMA ReconcileFailsSchedules ==
    ASSUME TypeOK, NEW s \in Schedulers, ReconcileFails(s), spc[s] = "apply", NEW j \in Jobs
    PROVE  entries'[s][j].schedule = listed[s][j].schedule \/ entries'[s][j] = NoJob
<1>1. entries'[s][j] = listed[s][j] \/ entries'[s][j] = Kept(s)[j]
  BY DEF ReconcileFails, TypeOK
<1>2. Kept(s)[j] = IF entries[s][j].schedule = listed[s][j].schedule THEN entries[s][j] ELSE NoJob
  BY DEF Kept
<1>. QED BY <1>1, <1>2

\* A cron event finds room, or a listing is ahead, or it is recorded as missed;
\* everything else leaves the jobs alone.
LEMMA NextMirror == TypeOK /\ MirrorInv /\ [Next]_vars => MirrorInv'
<1>. SUFFICES ASSUME TypeOK, MirrorInv, [Next]_vars PROVE MirrorInv'
  OBVIOUS
<1>. USE DEF histVars, chanVars
<1>a. ChanCap \in Nat /\ ChanCap > 0 /\ \A s \in Schedulers : pending[s] \in Nat
  BY CronLeaderAssumption DEF TypeOK
<1>1. ASSUME NEW j \in Jobs, NEW d \in JobDefs \cup {NoJob}, EditJob(j, d) PROVE MirrorInv'
  <2>1. ASSUME NEW s \in Schedulers, s \notin missed', pending'[s] = 0
        PROVE  spc'[s] \in {"off", "startList", "list"}
    <3>1. pending'[s] = IF s \in HaveRoom THEN pending[s] + 1 ELSE pending[s]
      BY <1>1 DEF EditJob, Announce
    <3>2. s \notin HaveRoom /\ pending[s] = 0
      BY <1>a, <2>1, <3>1
    <3>3. s \notin Missing(Subscribed \ HaveRoom) /\ spc' = spc
      BY <1>1, <2>1 DEF EditJob
    <3>. QED BY <3>2, <3>3 DEF Missing, Subscribed
  <2>. QED BY <2>1 DEF MirrorInv
<1>2. ASSUME NEW s \in Schedulers, jobs' = jobs,
             \A t \in Schedulers \ {s} :
                /\ spc'[t] = spc[t] /\ pending'[t] = pending[t] /\ listed'[t] = listed[t]
                /\ entries'[t] = entries[t] /\ (t \in behind' <=> t \in behind)
                /\ (t \in missed' <=> t \in missed),
             s \notin missed' /\ pending'[s] = 0 =>
                /\ spc'[s] \in {"startApply", "apply"} => listed'[s] = jobs
                /\ spc'[s] \in {"startLead", "run"} =>
                      \A j \in Jobs : InStep(s, j)' \/ (s \in behind' /\ entries'[s][j] = NoJob)
      PROVE  MirrorInv'
  BY <1>2 DEF MirrorInv, InStep
<1>3. ASSUME NEW s \in Schedulers, Start(s) \/ TakeEvent(s) PROVE MirrorInv'
  BY <1>3, <1>2 DEF Start, TakeEvent, TypeOK
<1>4. ASSUME NEW s \in Schedulers, ListJobs(s) PROVE MirrorInv'
  BY <1>4, <1>2 DEF ListJobs, TypeOK
<1>5. ASSUME NEW s \in Schedulers, ListFails(s) PROVE MirrorInv'
  BY <1>5, <1>2 DEF ListFails, TypeOK
<1>6. ASSUME NEW s \in Schedulers, Reconcile(s) PROVE MirrorInv'
  <2>1. s \notin missed /\ pending[s] = 0 => listed[s] = jobs
    BY <1>6 DEF Reconcile, MirrorInv
  <2>2. \A j \in Jobs : entries'[s][j].schedule = listed[s][j].schedule
    BY <1>6, ReconcileSchedules
  <2>3. /\ jobs' = jobs /\ pending' = pending /\ missed' = missed
        /\ spc'[s] \in {"run", "startLead"} /\ behind' = behind \ {s}
        /\ \A t \in Schedulers \ {s} : spc'[t] = spc[t] /\ entries'[t] = entries[t] /\ listed'[t] = listed[t]
    BY <1>6 DEF Reconcile, TypeOK
  <2>. QED BY <1>2, <2>1, <2>2, <2>3 DEF InStep
<1>7. ASSUME NEW s \in Schedulers, ReconcileFails(s) PROVE MirrorInv'
  <2>1. s \notin missed /\ pending[s] = 0 => listed[s] = jobs
    BY <1>7 DEF ReconcileFails, MirrorInv
  <2>2. spc[s] = "apply" =>
          \A j \in Jobs : entries'[s][j].schedule = listed[s][j].schedule \/ entries'[s][j] = NoJob
    BY <1>7, ReconcileFailsSchedules
  <2>3. /\ jobs' = jobs /\ pending' = pending /\ missed' = missed
        /\ \/ spc'[s] = "off" /\ behind' = behind
           \/ spc[s] = "apply" /\ spc'[s] = "run" /\ behind' = behind \cup {s}
        /\ \A t \in Schedulers \ {s} : spc'[t] = spc[t] /\ entries'[t] = entries[t] /\ listed'[t] = listed[t]
    BY <1>7 DEF ReconcileFails, TypeOK
  <2>. QED BY <1>2, <2>1, <2>2, <2>3 DEF InStep
<1>8. ASSUME NEW s \in Schedulers, TryLeader(s) \/ TryLeaderFails(s) PROVE MirrorInv'
  <2>1. /\ UNCHANGED <<jobs, pending, listed, entries, missed, behind>>
        /\ spc[s] \in {"startLead", "run"} /\ spc'[s] = "run"
        /\ \A t \in Schedulers \ {s} : spc'[t] = spc[t]
    BY <1>8 DEF TryLeader, TryLeaderFails, TypeOK
  <2>. QED BY <1>2, <2>1 DEF MirrorInv, InStep
<1>9. ASSUME NEW s \in Schedulers, Stop(s) \/ Crash(s) PROVE MirrorInv'
  BY <1>9, <1>2 DEF Stop, Crash, Gone, TypeOK
<1>10. ASSUME UNCHANGED <<jobs, spc, pending, listed, entries, missed, behind>> PROVE MirrorInv'
  BY <1>10 DEF MirrorInv, InStep
<1>11. ASSUME NEW s \in Schedulers,
              SkipEvent(s) \/ LoseSession(s) \/ (\E j \in Jobs : Fire(s, j) \/ Fired(s, j))
       PROVE  MirrorInv'
  BY <1>11, <1>10 DEF SkipEvent, LoseSession, Fire, Fired
<1>12. CASE UNCHANGED vars
  BY <1>12, <1>10 DEF vars
<1>13. CASE EditFunction
  BY <1>13, <1>10 DEF EditFunction
<1>. QED BY <1>1, <1>3, <1>4, <1>5, <1>6, <1>7, <1>8, <1>9, <1>11, <1>12, <1>13 DEF Next, SchedulerStep

\* The engines mirror the store: a dropped cron event leaves one before it in
\* the channel, or a listing ahead, or the instance in `missed`.
THEOREM MirrorInvariant == Spec => []MirrorInv
<1>1. Init => MirrorInv
  BY DEF Init, MirrorInv
<1>. QED BY <1>1, NextMirror, CronTypeCorrect, PTL DEF Spec

\* An instance with no cron event left, that lost none with no listing ahead,
\* has exactly the store's schedules, or after a bad schedule no outdated one,
\* for any number of instances, jobs and edits and any channel capacity, shared
\* with any number of events of functions.
THEOREM SchedulesConvergedHolds == Spec => []SchedulesConverged
<1>1. MirrorInv => SchedulesConverged
  BY DEF MirrorInv, SchedulesConverged
<1>. QED BY <1>1, MirrorInvariant, PTL
=============================================================================
