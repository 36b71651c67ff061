------------------------------ MODULE CronLeader ------------------------------
(***************************************************************************)
(* The cluster scheduler (internal/scheduler/state.go, StateScheduler):    *)
(* every instance mirrors the cron jobs of the shared store into its cron  *)
(* engine; a session-scoped Postgres advisory lock                         *)
(* (PostgresStore.TryAcquireLeadership) decides whose engine really fires. *)
(* An announcement reaches the Watch channels with the edit itself: what a *)
(* LISTEN connection may delay or lose on the way is StateSync's subject.  *)
(* The channels carry the events of functions as well, and the two kinds   *)
(* are counted: as every reconcile lists all jobs, their order is nothing  *)
(* that can be told from what happens.                                     *)
(***************************************************************************)
EXTENDS Integers, FiniteSets

CONSTANTS
    Schedulers,  \* scheduler processes
    Jobs,        \* cron job ids
    Schedules,   \* cron expressions that PutCronJob may be given
    Valid,       \* those that cron.AddFunc accepts
    Payloads,    \* function and body of a job
    ChanCap,     \* capacity of a Watch channel (16 in the code)
    MaxEdits,    \* edits of jobs or functions that the model explores
    Faults,      \* subset of FaultKinds
    None

\* A process dies; Postgres drops a session; a query fails.
FaultKinds == {"crash", "session", "query"}

ASSUME CronLeaderAssumption ==
    /\ Valid \subseteq Schedules
    /\ ChanCap \in Nat \ {0}
    /\ MaxEdits \in Nat
    /\ Faults \subseteq FaultKinds
    /\ None \notin Schedulers

VARIABLES
    jobs, edits,    \* the store's cron jobs; edits made so far, of functions too
    lock,           \* whose session holds the advisory lock
    spc,            \* phase of each instance's goroutine
    pending,        \* events of cron jobs in its Watch channel
    others,         \* events of functions in its Watch channel
    listed,         \* what ListCronJobs returned to a reconcile under way
    entries,        \* the engine's entries: the jobCopy each one captured
    isLeader,       \* s.isLeader
    firing,         \* jobs whose trigger is running
    orphaned,       \* history: leaders whose session is gone
    missed,         \* history: instances that lost an event since they last listed
    behind          \* history: instances whose last reconcile stopped half-way

chanVars == <<pending, others>>
histVars == <<orphaned, missed, behind>>
vars == <<jobs, edits, lock, spc, chanVars, listed, entries, isLeader, firing, histVars>>

NoJob == [schedule |-> None, payload |-> None]
JobDefs == [schedule : Schedules, payload : Payloads]
NoJobs == [j \in Jobs |-> NoJob]

Init ==
    /\ jobs \in [Jobs -> JobDefs \cup {NoJob}]
    /\ edits = 0
    /\ lock = None
    /\ spc = [s \in Schedulers |-> "off"]
    /\ pending = [s \in Schedulers |-> 0]
    /\ others = [s \in Schedulers |-> 0]
    /\ listed = [s \in Schedulers |-> NoJobs]
    /\ entries = [s \in Schedulers |-> NoJobs]
    /\ isLeader = [s \in Schedulers |-> FALSE]
    /\ firing = [s \in Schedulers |-> {}]
    /\ orphaned = {}
    /\ missed = {}
    /\ behind = {}

(***************************************************************************)
(* The store                                                               *)
(***************************************************************************)
Subscribed == {s \in Schedulers : spc[s] # "off"}

\* Faulty variant: the channel is never full.
HaveRoomAlways == Subscribed

\* The subscribers whose channel takes another event.
HaveRoom == {s \in Subscribed : pending[s] + others[s] < ChanCap}

\* One event to every subscriber that has room for it, in the channel's part q.
Announce(q) == [s \in Schedulers |-> IF s \in HaveRoom THEN q[s] + 1 ELSE q[s]]

\* The subscribers that drop a cron event with nothing ahead that would make
\* them list the jobs: neither a cron event in the channel nor a listing.
Missing(S) == {s \in S : pending[s] = 0 /\ spc[s] \notin {"startList", "list"}}

\* PutCronJob, or DeleteCronJob of a row that exists (else no trigger fires).
EditJob(j, d) ==
    /\ edits < MaxEdits
    /\ d = NoJob => jobs[j] # NoJob
    /\ edits' = edits + 1
    /\ jobs' = [jobs EXCEPT ![j] = d]
    /\ pending' = Announce(pending)
    /\ missed' = missed \cup Missing(Subscribed \ HaveRoom)
    /\ UNCHANGED <<lock, spc, others, listed, entries, isLeader, firing, orphaned, behind>>

\* PutFunction or DeleteFunction: an event of no interest to the schedulers,
\* in the same channel.
EditFunction ==
    /\ edits < MaxEdits
    /\ edits' = edits + 1
    /\ others' = Announce(others)
    /\ UNCHANGED <<jobs, lock, spc, pending, listed, entries, isLeader, firing, histVars>>

(***************************************************************************)
(* Start, run, Stop                                                        *)
(***************************************************************************)
\* Start, of a new instance, subscribes before it lists.
Start(s) ==
    /\ spc[s] = "off"
    /\ firing[s] = {}
    /\ spc' = [spc EXCEPT ![s] = "startList"]
    /\ pending' = [pending EXCEPT ![s] = 0]
    /\ others' = [others EXCEPT ![s] = 0]
    /\ UNCHANGED <<jobs, edits, lock, listed, entries, isLeader, firing, histVars>>

\* run takes a cron event off the channel and reconciles ...
TakeEvent(s) ==
    /\ spc[s] = "run"
    /\ pending[s] > 0
    /\ pending' = [pending EXCEPT ![s] = @ - 1]
    /\ spc' = [spc EXCEPT ![s] = "list"]
    /\ UNCHANGED <<jobs, edits, lock, others, listed, entries, isLeader, firing, histVars>>

\* ... but does nothing about the event of a function.
SkipEvent(s) ==
    /\ spc[s] = "run"
    /\ others[s] > 0
    /\ others' = [others EXCEPT ![s] = @ - 1]
    /\ UNCHANGED <<jobs, edits, lock, spc, pending, listed, entries, isLeader, firing, histVars>>

\* reconcile: ListCronJobs, outside s.mu.
ListJobs(s) ==
    /\ spc[s] \in {"startList", "list"}
    /\ listed' = [listed EXCEPT ![s] = jobs]
    /\ spc' = [spc EXCEPT ![s] = IF spc[s] = "list" THEN "apply" ELSE "startApply"]
    /\ missed' = missed \ {s}
    /\ UNCHANGED <<jobs, edits, lock, chanVars, entries, isLeader, firing, orphaned, behind>>

\* ListCronJobs fails: logged after an event, which is used up; fatal in Start.
ListFails(s) ==
    /\ "query" \in Faults
    /\ spc[s] \in {"startList", "list"}
    /\ spc' = [spc EXCEPT ![s] = IF spc[s] = "list" THEN "run" ELSE "off"]
    /\ missed' = IF spc[s] = "list" THEN missed \cup {s} ELSE missed
    /\ UNCHANGED <<jobs, edits, lock, chanVars, listed, entries, isLeader, firing, orphaned, behind>>

\* Faulty variant: an entry whose schedule changed keeps its place.
KeptById(s) == [j \in Jobs |-> IF listed[s][j] # NoJob THEN entries[s][j] ELSE NoJob]

\* The entries after the removal pass: gone jobs and changed schedules leave.
Kept(s) == [j \in Jobs |-> IF entries[s][j].schedule = listed[s][j].schedule
                           THEN entries[s][j] ELSE NoJob]

ToAdd(s) == {j \in Jobs : Kept(s)[j] = NoJob /\ listed[s][j] # NoJob}

\* reconcile under s.mu: every missing job is added.
Reconcile(s) ==
    /\ spc[s] \in {"startApply", "apply"}
    /\ \A j \in ToAdd(s) : listed[s][j].schedule \in Valid
    /\ entries' = [entries EXCEPT ![s] =
                      [j \in Jobs |-> IF j \in ToAdd(s) THEN listed[s][j] ELSE Kept(s)[j]]]
    /\ spc' = [spc EXCEPT ![s] = IF spc[s] = "apply" THEN "run" ELSE "startLead"]
    /\ behind' = behind \ {s}
    /\ listed' = [listed EXCEPT ![s] = NoJobs]
    /\ UNCHANGED <<jobs, edits, lock, chanVars, isLeader, firing, orphaned, missed>>

\* reconcile meets a schedule that does not parse: it returns with the jobs
\* that the (random) map order had put first.  In Start that is fatal.
ReconcileFails(s) ==
    /\ spc[s] \in {"startApply", "apply"}
    /\ \E j \in ToAdd(s) : listed[s][j].schedule \notin Valid
    /\ \E added \in SUBSET {j \in ToAdd(s) : listed[s][j].schedule \in Valid} :
          entries' = [entries EXCEPT ![s] =
                         IF spc[s] = "startApply" THEN NoJobs
                         ELSE [j \in Jobs |-> IF j \in added THEN listed[s][j] ELSE Kept(s)[j]]]
    /\ spc' = [spc EXCEPT ![s] = IF spc[s] = "apply" THEN "run" ELSE "off"]
    /\ behind' = IF spc[s] = "apply" THEN behind \cup {s} ELSE behind
    /\ listed' = [listed EXCEPT ![s] = NoJobs]
    /\ UNCHANGED <<jobs, edits, lock, chanVars, isLeader, firing, orphaned, missed>>

\* Faulty variant: the answer of pg_try_advisory_lock is not looked at.
TryLeaderAlways(s) ==
    /\ \/ spc[s] = "startLead"
       \/ spc[s] = "run" /\ ~isLeader[s]
    /\ lock' = IF lock = None THEN s ELSE lock
    /\ isLeader' = [isLeader EXCEPT ![s] = TRUE]
    /\ spc' = [spc EXCEPT ![s] = "run"]
    /\ UNCHANGED <<jobs, edits, chanVars, listed, entries, firing, histVars>>

\* tryLeader, at the end of Start and at every leaderTick of a non-leader.
TryLeader(s) ==
    /\ \/ spc[s] = "startLead"
       \/ spc[s] = "run" /\ ~isLeader[s]
    /\ lock' = IF lock = None THEN s ELSE lock
    /\ isLeader' = [isLeader EXCEPT ![s] = lock = None]
    /\ spc' = [spc EXCEPT ![s] = "run"]
    /\ UNCHANGED <<jobs, edits, chanVars, listed, entries, firing, histVars>>

\* No connection, or the query fails: tryLeader takes it for a no.
TryLeaderFails(s) ==
    /\ "query" \in Faults
    /\ \/ spc[s] = "startLead"
       \/ spc[s] = "run" /\ ~isLeader[s]
    /\ isLeader' = [isLeader EXCEPT ![s] = FALSE]
    /\ spc' = [spc EXCEPT ![s] = "run"]
    /\ UNCHANGED <<jobs, edits, lock, chanVars, listed, entries, firing, histVars>>

\* After Start: the engine and the run goroutine are going.
Serving(s) == spc[s] \in {"run", "list", "apply"}

\* fire: the engine ticks; only a leader invokes the trigger.
Fire(s, j) ==
    /\ Serving(s)
    /\ entries[s][j] # NoJob
    /\ isLeader[s]
    /\ firing' = [firing EXCEPT ![s] = @ \cup {j}]
    /\ UNCHANGED <<jobs, edits, lock, spc, chanVars, listed, entries, isLeader, histVars>>

\* The trigger returns.
Fired(s, j) ==
    /\ j \in firing[s]
    /\ firing' = [firing EXCEPT ![s] = @ \ {j}]
    /\ UNCHANGED <<jobs, edits, lock, spc, chanVars, listed, entries, isLeader, histVars>>

\* pg_advisory_unlock of the session that took the lock.
Unlocked(s) == IF lock = s THEN None ELSE lock

\* What is left of an instance that ended; the next one starts afresh.
Gone(s) ==
    /\ spc' = [spc EXCEPT ![s] = "off"]
    /\ entries' = [entries EXCEPT ![s] = NoJobs]
    /\ isLeader' = [isLeader EXCEPT ![s] = FALSE]
    /\ orphaned' = orphaned \ {s}
    /\ missed' = missed \ {s}
    /\ behind' = behind \ {s}
    /\ pending' = [pending EXCEPT ![s] = 0]
    /\ others' = [others EXCEPT ![s] = 0]
    /\ listed' = [listed EXCEPT ![s] = NoJobs]
    /\ UNCHANGED <<jobs, edits>>

\* Faulty variant: Stop forgets to give the lock back.
StopHolding(s) ==
    /\ spc[s] = "run"
    /\ Gone(s)
    /\ UNCHANGED <<lock, firing>>

\* Stop: the loop has ended, cron is stopped (running triggers go on), the
\* lock is released.
Stop(s) ==
    /\ spc[s] = "run"
    /\ Gone(s)
    /\ lock' = Unlocked(s)
    /\ UNCHANGED firing

\* The process dies and its session with it.
Crash(s) ==
    /\ "crash" \in Faults
    /\ spc[s] # "off"
    /\ Gone(s)
    /\ lock' = Unlocked(s)
    /\ firing' = [firing EXCEPT ![s] = {}]

\* Postgres drops the session (failover, network): nothing tells the instance.
LoseSession(s) ==
    /\ "session" \in Faults
    /\ lock = s
    /\ lock' = None
    /\ orphaned' = orphaned \cup {s}
    /\ UNCHANGED <<jobs, edits, spc, chanVars, listed, entries, isLeader, firing, missed, behind>>

-----------------------------------------------------------------------------
SchedulerStep(s) ==
    \/ Start(s) \/ TakeEvent(s) \/ SkipEvent(s) \/ ListJobs(s) \/ ListFails(s)
    \/ Reconcile(s) \/ ReconcileFails(s) \/ TryLeader(s) \/ TryLeaderFails(s)
    \/ Stop(s) \/ Crash(s) \/ LoseSession(s)
    \/ \E j \in Jobs : Fire(s, j) \/ Fired(s, j)

Next ==
    \/ \E j \in Jobs, d \in JobDefs \cup {NoJob} : EditJob(j, d)
    \/ EditFunction
    \/ \E s \in Schedulers : SchedulerStep(s)

Spec == Init /\ [][Next]_vars

\* A reconcile that was begun ends, and select, which is fair between ready
\* cases, comes back to the leaderTick of a run loop however many events there
\* are; nothing obliges anyone to start.
Fairness ==
    \A s \in Schedulers :
        /\ WF_vars(ListJobs(s) \/ ListFails(s)) /\ WF_vars(Reconcile(s) \/ ReconcileFails(s))
        /\ SF_vars(TryLeader(s))

FairSpec == Spec /\ Fairness

-----------------------------------------------------------------------------
(***************************************************************************)
(* Type invariant of the schedulers.                                       *)
(***************************************************************************)
TypeOK ==
    /\ jobs \in [Jobs -> JobDefs \cup {NoJob}]
    /\ edits \in 0..MaxEdits
    /\ lock \in Schedulers \cup {None}
    /\ spc \in [Schedulers -> {"off", "startList", "startApply", "startLead",
                               "run", "list", "apply"}]
    /\ pending \in [Schedulers -> 0..ChanCap]
    /\ others \in [Schedulers -> 0..ChanCap]
    /\ \A s \in Schedulers : pending[s] + others[s] <= ChanCap
    /\ listed \in [Schedulers -> [Jobs -> JobDefs \cup {NoJob}]]
    /\ entries \in [Schedulers -> [Jobs -> JobDefs \cup {NoJob}]]
    /\ isLeader \in [Schedulers -> BOOLEAN]
    /\ firing \in [Schedulers -> SUBSET Jobs]
    /\ orphaned \subseteq Schedulers
    /\ missed \subseteq Schedulers
    /\ behind \subseteq Schedulers

Active(s) == isLeader[s] \/ firing[s] # {}

\* Whose triggers nobody stops: an instance that Stop has left with running
\* triggers, and a leader whose session is gone without its noticing.
Unfenced(s) == spc[s] = "off" \/ s \in orphaned

\* How far the advisory lock excludes: two instances lead or have triggers
\* under way at the same time only if one of them was stopped while it fired
\* or lost its session; never because of the way they start, retry, take over
\* or crash.  (STRATEGY.md wants exactly one to fire, which is more than this:
\* Stop releases the lock without waiting, and leadership is not re-validated.)
OneLeader ==
    \A s, t \in Schedulers : Active(s) /\ Active(t) /\ s # t => Unfenced(s) \/ Unfenced(t)

\* Whether the entry of job j in instance s is the one the store asks for.
InStep(s, j) == entries[s][j].schedule = jobs[j].schedule

\* The engine follows the store: an instance that has no cron event left has
\* exactly the store's jobs at the store's schedules, although events may have
\* been dropped behind others.  Excepted is an instance that lost an event
\* with no listing ahead (dropped behind events of functions, or used up by a
\* listing that failed); and one whose reconcile stopped at a bad schedule
\* may lack jobs, but it has none that is outdated or deleted.
SchedulesConverged ==
    \A s \in Schedulers \ missed : spc[s] = "run" /\ pending[s] = 0 =>
        \A j \in Jobs : InStep(s, j) \/ (s \in behind /\ entries[s][j] = NoJob)

\* Takeover: whoever stops or dies, as long as some instance keeps running
\* the jobs do not go without a leader for ever.
Takeover ==
    \A s \in Schedulers : <>[]Serving(s) => []<>(\E t \in Schedulers : isLeader[t])

\* Whatever ends an instance (Stop, a crash, a failed Start), and even when
\* sessions are lost, no instance that is off keeps the lock from the others.
LockReleased == lock # None => spc[lock] # "off"
=============================================================================
