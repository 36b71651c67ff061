------------------------------ MODULE FileCron ------------------------------
(***************************************************************************)
(* The single-host scheduler: internal/scheduler/scheduler.go, its daemon  *)
(* cmd/scheduler and the commands `cfunc cron add | rm | list | run`.      *)
(*                                                                         *)
(* All jobs are in one JSON file.  Every command is a process with one     *)
(* operation, so Store.mu excludes nobody; the file is replaced by way of  *)
(* <path>.tmp, which the processes share (AtomicFile), but OpenStore       *)
(* creates a missing file in place.  The daemon reads the file when it     *)
(* starts and on SIGHUP; its signals come through a channel of capacity 1. *)
(* Time is a cycle of Period ticks and a schedule is the set of ticks at   *)
(* which it fires.                                                         *)
(***************************************************************************)
EXTENDS Integers, Sequences, FiniteSets, FiniteSetsExt

CONSTANTS
    Commands,      \* runs of the command line tool
    Daemon,        \* the scheduler process
    Plans,         \* what the commands may be asked to do: inputs by command
    Jobs,          \* records [id, sched, body]
    Files,         \* what the file may hold when the model starts
    Period,        \* number of ticks
    Faults,        \* a subset of {"crash"}
    MaxSignals,    \* bound: signals sent to the daemon
    MaxStarts,     \* bound: starts of the daemon
    MaxFires,      \* bound: calls of one job in flight
    Absent,        \* no such file
    Garbled,       \* a file that does not parse
    Invalid,       \* a schedule that does not parse
    None

Actors == Commands \cup {Daemon}
Ids    == {j.id : j \in Jobs}
Ticks  == 0..(Period - 1)

ASSUME FileCronAssumption ==
    /\ Daemon \notin Commands
    /\ Period \in Nat \ {0} /\ MaxSignals \in Nat /\ MaxStarts \in Nat /\ MaxFires \in Nat
    /\ Faults \subseteq {"crash"}
    /\ Absent # Garbled /\ \A jobs \in SUBSET Jobs : jobs \notin {Absent, Garbled}
    /\ None \notin Jobs /\ \A file \in {"temp", "main"} \X {"jobs"} : file # None
    /\ \A j \in Jobs : DOMAIN j = {"id", "sched", "body"}
    /\ \A j \in Jobs : j.sched = Invalid \/ j.sched \in SUBSET Ticks \ {{}}
    /\ \A f \in Files : f = Absent \/ f \in SUBSET Jobs
    /\ \A plan \in Plans : \A c \in Commands :
          \/ plan[c].op = "add" /\ plan[c].job \in Jobs
          \/ plan[c].op \in {"rm", "run"} /\ plan[c].id \in Ids
          \/ plan[c].op = "list"

VARIABLES
    main, temp,  \* the job file and its temporary, at the only path "jobs"
    fd,          \* where the file is that an actor has open for writing
    pc, input,   \* actors: where they are, what a command does
    buf,         \* actors: the jobs as last read
    now,         \* the tick
    entries,     \* daemon: the cron entry of each id, as the job it calls
    sigs,        \* daemon: the channel signal.Notify writes to
    inFlight,    \* daemon: calls of each job that have not returned
    sent, starts,\* counters for the bounds
    asked,       \* history: a SIGHUP came since the file last changed
    settled,     \* history: jobs loaded, and in the file ever since
    overlap,     \* history: actors whose changes of the file overlapped
    cutShort,    \* history: a crash has left an unfinished file
    commits      \* history: commands in the order of their renames

fileVars   == <<main, temp, fd>>
daemonVars == <<entries, sigs, inFlight>>
bounds     == <<sent, starts>>
histVars   == <<asked, settled, overlap, cutShort, commits>>
vars == <<fileVars, pc, input, buf, now, daemonVars, bounds, histVars>>

NoEntries == [i \in Ids |-> None]
NoCalls   == [j \in Jobs |-> 0]

Init ==
    /\ \E f \in Files : main = [p \in {"jobs"} |-> f]
    /\ temp = [p \in {"jobs"} |-> Absent]
    /\ fd = [a \in Actors |-> None]
    /\ pc = [a \in Actors |-> "idle"]
    /\ input \in Plans
    /\ buf = [a \in Actors |-> {}]
    /\ now = 0
    /\ entries = NoEntries /\ sigs = <<>> /\ inFlight = NoCalls /\ asked = FALSE
    /\ sent = 0 /\ starts = 0
    /\ settled = {} /\ overlap = {} /\ cutShort = FALSE /\ commits = <<>>

INSTANCE AtomicFile WITH Ops <- Actors

File == main["jobs"]

Go(a, where) == pc' = [pc EXCEPT ![a] = where]

(***************************************************************************)
(* History: who has the file in hands, and which jobs stay in it.          *)
(***************************************************************************)
Changing == {a \in Actors : pc[a] \in {"create", "fill", "saveTrunc", "saveWrite", "saveRename"}}

Enter(a) == overlap' = IF Changing \ {a} = {} THEN overlap ELSE overlap \cup Changing \cup {a}

\* The file may change: which jobs stay in it, and is a Reload asked for?
Follow ==
    /\ settled' = IF Parses("jobs")' THEN settled \cap File' ELSE {}
    /\ asked' = (asked /\ File' = File)

(***************************************************************************)
(* OpenStore: the file is created in place, in two system calls.           *)
(***************************************************************************)
OpenStore(a) ==
    /\ pc[a] = "idle"
    /\ a = Daemon => starts < MaxStarts
    /\ starts' = IF a = Daemon THEN starts + 1 ELSE starts
    /\ IF File = Absent THEN Go(a, "create") /\ Enter(a)
                        ELSE Go(a, "opened") /\ UNCHANGED overlap
    /\ UNCHANGED <<fileVars, input, buf, now, daemonVars, sent, asked, settled, cutShort, commits>>

\* O_CREATE|O_TRUNC, whatever the file has become since it was looked for.
Create(a) ==
    /\ pc[a] = "create"
    /\ main' = [main EXCEPT !["jobs"] = Garbled]
    /\ fd' = [fd EXCEPT ![a] = <<"main", "jobs">>]
    /\ Go(a, "fill")
    /\ Follow
    /\ UNCHANGED <<temp, input, buf, now, daemonVars, bounds, overlap, cutShort, commits>>

Fill(a) ==
    /\ pc[a] = "fill"
    /\ Write(a, "jobs", {})
    /\ Go(a, "opened")
    /\ Follow
    /\ UNCHANGED <<input, buf, now, daemonVars, bounds, overlap, cutShort, commits>>

(***************************************************************************)
(* Store.Add, Remove and List, Scheduler.FireNow                           *)
(***************************************************************************)
\* Add checks the job, its schedule included, before it reads the file.
Acceptable(c) == input[c].op = "add" => input[c].job.sched # Invalid

\* Add: the id is taken.
Rejects(c, jobs) == input[c].op = "add" /\ \E j \in jobs : j.id = input[c].job.id

\* Faulty variant: only the new job is kept.
EditedAlone(c, jobs) ==
    IF input[c].op = "add" THEN {input[c].job} ELSE {j \in jobs : j.id # input[c].id}

\* The job list that Add or Remove writes back.
Edited(c, jobs) ==
    IF input[c].op = "add" THEN jobs \cup {input[c].job} ELSE {j \in jobs : j.id # input[c].id}

\* The command ends before it has read the file.
Refuse(c) == ~Acceptable(c) /\ Go(c, "refused") /\ UNCHANGED <<buf, overlap>>

LoadFails(c) ==
    /\ Acceptable(c) /\ ~Parses("jobs")
    /\ Go(c, "error")
    /\ Enter(c)
    /\ UNCHANGED buf

ListJobs(c) ==
    /\ input[c].op = "list" /\ Parses("jobs")
    /\ Go(c, "done")
    /\ UNCHANGED <<buf, overlap>>

FireNow(c) ==
    /\ input[c].op = "run" /\ Parses("jobs")
    /\ Go(c, IF \E j \in File : j.id = input[c].id THEN "firing" ELSE "refused")
    /\ UNCHANGED <<buf, overlap>>

\* Add or Remove has the jobs and is going to save a changed list.
Edit(c) ==
    /\ input[c].op \in {"add", "rm"} /\ Acceptable(c) /\ Parses("jobs")
    /\ IF Rejects(c, File) THEN Go(c, "refused") /\ UNCHANGED <<buf, overlap>>
       ELSE /\ buf' = [buf EXCEPT ![c] = Edited(c, File)]
            /\ Enter(c)
            /\ Go(c, "saveTrunc")

\* The operation of a command, up to and including load.
Operate(c) ==
    /\ c \in Commands /\ pc[c] = "opened"
    /\ Refuse(c) \/ LoadFails(c) \/ ListJobs(c) \/ FireNow(c) \/ Edit(c)
    /\ UNCHANGED <<fileVars, input, now, daemonVars, bounds, asked, settled, cutShort, commits>>

SaveTruncate(c) ==
    /\ pc[c] = "saveTrunc"
    /\ Truncate(c, "jobs")
    /\ Go(c, "saveWrite")
    /\ Follow
    /\ UNCHANGED <<input, buf, now, daemonVars, bounds, overlap, cutShort, commits>>

SaveWrite(c) ==
    /\ pc[c] = "saveWrite"
    /\ Write(c, "jobs", buf[c])
    /\ Go(c, "saveRename")
    /\ Follow
    /\ UNCHANGED <<input, buf, now, daemonVars, bounds, overlap, cutShort, commits>>

SaveRename(c) ==
    /\ pc[c] = "saveRename"
    /\ IF CanRename("jobs")
       THEN Rename("jobs") /\ Go(c, "done") /\ commits' = Append(commits, c)
       ELSE UNCHANGED <<fileVars, commits>> /\ Go(c, "error")
    /\ buf' = [buf EXCEPT ![c] = {}]
    /\ Follow
    /\ UNCHANGED <<input, now, daemonVars, bounds, overlap, cutShort>>

\* `cron run` waits for the gateway's answer, without a timeout.
FireNowReturns(c) ==
    /\ pc[c] = "firing"
    /\ \E outcome \in {"done", "error4xx"} : Go(c, outcome)
    /\ UNCHANGED <<fileVars, input, buf, now, daemonVars, bounds, histVars>>

(***************************************************************************)
(* The daemon: Start, Reload, Stop                                         *)
(***************************************************************************)
Running == pc[Daemon] \in {"running", "list", "remove", "add"}  \* cron has been started

\* The daemon is at the start of a Reload: List.  At startup an error ends the
\* process, later it is logged.
List(from, next, onError) ==
    /\ pc[Daemon] = from
    /\ IF Parses("jobs")
       THEN Go(Daemon, next) /\ buf' = [buf EXCEPT ![Daemon] = File] /\ UNCHANGED overlap
       ELSE Go(Daemon, onError) /\ Enter(Daemon) /\ UNCHANGED buf
    /\ UNCHANGED <<fileVars, input, now, entries, sigs, inFlight, bounds, asked, settled, cutShort, commits>>

StartList  == List("opened", "startAdd", "error")
ReloadList == List("list", "remove", "running")

\* Ticks until a schedule fires next.
NextTick(s, t) == Min({k \in 1..Period : (t + k) % Period \in s})

\* Faulty variant: every job looks changed.
SameScheduleNever(want, live) == FALSE

\* sameSchedule: the schedules fire next at the same time.
SameSchedule(want, live) ==
    want.sched # Invalid /\ NextTick(want.sched, now) = NextTick(live.sched, now)

\* An entry survives a Reload.
Keeps(i) == \E want \in buf[Daemon] : want.id = i /\ SameSchedule(want, entries[i])

RemoveEntries ==
    /\ pc[Daemon] = "remove"
    /\ entries' = [i \in Ids |-> IF entries[i] # None /\ Keeps(i) THEN entries[i] ELSE None]
    /\ Go(Daemon, "add")
    /\ UNCHANGED <<fileVars, input, buf, now, sigs, inFlight, bounds, histVars>>

Registered(jobs) ==
    [i \in Ids |-> IF \E j \in jobs : j.id = i THEN CHOOSE j \in jobs : j.id = i ELSE entries[i]]

\* Jobs are registered in the order of a Go map: an invalid schedule stops
\* this with any part of the others done.
AddEntries(from, onError) ==
    /\ pc[Daemon] = from
    /\ LET new == {j \in buf[Daemon] : entries[j.id] = None}
           bad == {j \in new : j.sched = Invalid}
       IN  \E added \in (IF bad = {} THEN {new} ELSE SUBSET (new \ bad)) :
              /\ entries' = Registered(added)
              /\ settled' = {j \in buf[Daemon] : Registered(added)[j.id] = j}
                              \cap (IF Parses("jobs") THEN File ELSE {})
              /\ Go(Daemon, IF bad = {} THEN "running" ELSE onError)
    /\ buf' = [buf EXCEPT ![Daemon] = {}]
    /\ UNCHANGED <<fileVars, input, now, sigs, inFlight, bounds, asked, overlap, cutShort, commits>>

StartAdd  == AddEntries("startAdd", "error")
ReloadAdd == AddEntries("add", "running")

\* The loop of main takes the next signal.
TakeSignal ==
    /\ pc[Daemon] = "running" /\ sigs # <<>>
    /\ sigs' = Tail(sigs)
    /\ Go(Daemon, IF Head(sigs) = "HUP" THEN "list" ELSE "stopping")
    /\ UNCHANGED <<fileVars, input, buf, now, entries, inFlight, bounds, histVars>>

AllReturned == \A j \in Jobs : inFlight[j] = 0

\* Stop waits for the calls in flight; then main returns.
StopDone ==
    /\ pc[Daemon] = "stopping" /\ AllReturned
    /\ Go(Daemon, "exited")
    /\ entries' = NoEntries /\ sigs' = <<>> /\ asked' = FALSE /\ settled' = {}
    /\ UNCHANGED <<fileVars, input, buf, now, inFlight, bounds, overlap, cutShort, commits>>

(***************************************************************************)
(* The cron engine, the clock and the calls                                *)
(***************************************************************************)
Due(t) == {entries[i] : i \in {x \in Ids : entries[x] # None /\ t \in entries[x].sched}}

Tick ==
    /\ now' = (now + 1) % Period
    /\ IF Running
       THEN /\ \A j \in Due(now') : inFlight[j] < MaxFires
            /\ inFlight' = [j \in Jobs |-> inFlight[j] + (IF j \in Due(now') THEN 1 ELSE 0)]
       ELSE UNCHANGED inFlight
    /\ UNCHANGED <<fileVars, pc, input, buf, entries, sigs, bounds, histVars>>

\* run: the call returns, with an answer, an error or after five minutes.
FireReturns(j) ==
    /\ inFlight[j] > 0
    /\ inFlight' = [inFlight EXCEPT ![j] = @ - 1]
    /\ UNCHANGED <<fileVars, pc, input, buf, now, entries, sigs, bounds, histVars>>

(***************************************************************************)
(* Signals, crashes, restarts                                              *)
(***************************************************************************)
Ended == {"done", "refused", "error", "error4xx", "exited", "dead"}

\* Faulty variants: the channel has no buffer, or has no limit.
ChannelTakesNothing == FALSE
ChannelTakesAll == TRUE

\* signal.Notify drops a signal that does not fit in the channel.
ChannelTakes == Len(sigs) < 1

\* A signal that arrives before Notify kills the process, like a Crash.
Signal(s) ==
    /\ sent < MaxSignals /\ sent' = sent + 1
    /\ Running \/ pc[Daemon] = "stopping"
    /\ sigs' = IF ChannelTakes THEN Append(sigs, s) ELSE sigs
    /\ asked' = (asked \/ (s = "HUP" /\ Running))
    /\ UNCHANGED <<fileVars, pc, input, buf, now, entries, inFlight, starts, settled, overlap, cutShort, commits>>

\* A process dies between two system calls.
Crash(a) ==
    /\ "crash" \in Faults
    /\ pc[a] \notin Ended \cup {"idle"}
    /\ Go(a, "dead")
    /\ fd' = [fd EXCEPT ![a] = None]
    /\ buf' = [buf EXCEPT ![a] = {}]
    /\ cutShort' = (cutShort \/ pc[a] = "fill")
    /\ IF a = Daemon
       THEN entries' = NoEntries /\ sigs' = <<>> /\ inFlight' = NoCalls /\ asked' = FALSE /\ settled' = {}
       ELSE UNCHANGED <<daemonVars, asked, settled>>
    /\ UNCHANGED <<main, temp, input, now, bounds, overlap, commits>>

\* The daemon is started again.
Restart ==
    /\ pc[Daemon] \in Ended /\ starts < MaxStarts
    /\ Go(Daemon, "idle")
    /\ entries' = NoEntries
    /\ UNCHANGED <<fileVars, input, buf, now, sigs, inFlight, bounds, histVars>>

DaemonStep ==
    \/ OpenStore(Daemon) \/ Create(Daemon) \/ Fill(Daemon)
    \/ StartList \/ StartAdd \/ TakeSignal \/ ReloadList \/ RemoveEntries \/ ReloadAdd \/ StopDone

CommandStep(c) ==
    \/ OpenStore(c) \/ Create(c) \/ Fill(c) \/ Operate(c)
    \/ SaveTruncate(c) \/ SaveWrite(c) \/ SaveRename(c) \/ FireNowReturns(c)

Next ==
    \/ DaemonStep \/ Tick \/ Restart
    \/ \E c \in Commands : CommandStep(c)
    \/ \E j \in Jobs : FireReturns(j)
    \/ \E s \in {"HUP", "TERM"} : Signal(s)
    \/ \E a \in Actors : Crash(a)

\* The daemon's goroutines run, and every call ends by its timeout; commands,
\* signals and the clock owe nothing.
Fairness == WF_vars(DaemonStep) /\ \A j \in Jobs : WF_vars(FireReturns(j))

Spec     == Init /\ [][Next]_vars
FairSpec == Spec /\ Fairness

-----------------------------------------------------------------------------
(***************************************************************************)
(* Type invariant.                                                         *)
(***************************************************************************)
TypeOK ==
    /\ \A f \in {main, temp} :
          /\ DOMAIN f = {"jobs"}
          /\ f["jobs"] \in {Absent, Garbled} \/ f["jobs"] \in SUBSET Jobs
    /\ fd \in [Actors -> ({"temp", "main"} \X {"jobs"}) \cup {None}]
    /\ pc \in [Actors -> {"idle", "create", "fill", "opened", "saveTrunc", "saveWrite", "saveRename", "firing",
                          "startAdd", "running", "list", "remove", "add", "stopping"} \cup Ended]
    /\ input \in Plans
    /\ buf \in [Actors -> SUBSET Jobs]
    /\ now \in Ticks
    /\ \A i \in Ids : entries[i] = None \/ entries[i] \in {j \in Jobs : j.id = i /\ j.sched # Invalid}
    /\ inFlight \in [Jobs -> 0..MaxFires]
    /\ sigs \in {<<>>, <<"HUP">>, <<"TERM">>}
    /\ sent \in 0..MaxSignals /\ starts \in 0..MaxStarts
    /\ asked \in BOOLEAN /\ cutShort \in BOOLEAN
    /\ settled \subseteq Jobs /\ overlap \subseteq Actors /\ commits \in Seq(Commands)

Editors == {c \in Commands : input[c].op \in {"add", "rm"}}

\* The id an add or a remove is about.
Subject(c) == IF input[c].op = "add" THEN input[c].job.id ELSE input[c].id

\* An add or remove that reported success stays in effect until a later one of
\* the same id, whoever crashes where.  Only processes that have the file in
\* hands at the same time do harm: such a one may lose its own edit, and two of
\* them may leave a file that does not parse, whoever's jobs were in it.
AckedStays ==
    \A n \in 1..Len(commits) :
        LET c == commits[n]
            later == {commits[k] : k \in (n + 1)..Len(commits)} \cup (overlap \cap Editors)
        IN  c \notin overlap =>
              IF Parses("jobs")
              THEN \/ \E d \in later : Subject(d) = Subject(c)
                   \/ IF input[c].op = "add" THEN input[c].job \in File
                      ELSE \A j \in File : j.id # Subject(c)
              ELSE \E a, b \in overlap : a # b

\* The job is in the file, or a command that reported success has changed that.
Lasting(j) ==
    \/ Parses("jobs") /\ j \in File
    \/ \E n \in 1..Len(commits) : Subject(commits[n]) = j.id

\* No crash makes a later command fail or keeps the daemon from starting,
\* except one between the two system calls that create the file; else only
\* processes that run at the same time do, and what the daemon may stumble over
\* is a hand-written invalid schedule, until an acknowledged edit replaces it.
FailureHasCause ==
    \A a \in Actors : pc[a] = "error" =>
        \/ overlap # {} \/ cutShort
        \/ a = Daemon /\ \E j \in Jobs : j.sched = Invalid /\ Lasting(j)

\* A job that was loaded and has been in the file ever since stays scheduled:
\* no Reload drops it or misses a tick of it, not one that fails half-way.
SettledStaysScheduled ==
    Running => \A j \in settled : entries[j.id] = j

\* The entries are those of the file, by id.
Matches(jobs) == \A i \in Ids : entries[i] # None <=> \E j \in jobs : j.id = i

\* A SIGHUP takes effect, even one that comes during a Reload or that is
\* dropped because another waits: if the file stays as it is and is valid, its
\* jobs are soon the ones that are scheduled, or the daemon ends.
HupTakesEffect ==
    asked /\ Running ~> \/ ~Running \/ ~asked
                        \/ Parses("jobs") => Matches(File) \/ \E j \in File : j.sched = Invalid
=============================================================================
