--------------------------- MODULE FileCronProofs ---------------------------
(***************************************************************************)
(* The single-host scheduler, for any number of commands and jobs, with    *)
(* any reloads and a crash between any two system calls.  What the history *)
(* variable overlap records (OverlapInv) leaves a process that is not in   *)
(* it alone with the temporary file (AloneInv); from that follow that the  *)
(* job file keeps acknowledged edits (AckedInv) and that it parses         *)
(* (CauseInv), and that jobs leave it by such edits only (LastingInv).  A   *)
(* job that stays in the file is in every list the daemon compares its     *)
(* entries with (SettledInv).                                              *)
(***************************************************************************)
EXTENDS FileCron, TLAPS

SavePhase   == {"saveTrunc", "saveWrite", "saveRename"}
ChangePhase == {"create", "fill"} \cup SavePhase

\* Where a file does not have to exist.
Before == {"idle", "create"} \cup Ended

\* Only an add or rm saves, and descriptors are open only for one write.
PhaseInv ==
    /\ \A a \in Actors : pc[a] \in SavePhase => a \in Editors
    /\ \A a \in Actors : fd[a] # None =>
          \/ pc[a] = "fill" /\ fd[a] = <<"main", "jobs">>
          \/ pc[a] = "saveWrite" /\ fd[a] \in {<<"temp", "jobs">>, <<"main", "jobs">>}
    /\ \A a \in Actors : pc[a] \notin Before => File # Absent
    /\ Len(commits) # 0 => File # Absent

ShapeInv == TypeOK /\ PhaseInv

\* Two processes that change the file at the same time are on record.
OverlapInv ==
    \A a, b \in Actors : pc[a] \in ChangePhase /\ pc[b] \in ChangePhase /\ a # b => a \in overlap

\* A process that is not on record finds the file it writes as it left it.
AloneInv ==
    \A a \in Actors \ overlap :
        /\ pc[a] = "fill" => fd[a] = <<"main", "jobs">> /\ File = Garbled
        /\ pc[a] = "saveWrite" => fd[a] = <<"temp", "jobs">> /\ temp["jobs"] = Garbled
        /\ pc[a] = "saveRename" => temp["jobs"] = buf[a]

\* Why the job file may not parse, or a process may have failed.
CauseInv ==
    /\ File = Garbled => overlap # {} \/ cutShort \/ \E a \in Actors : pc[a] = "fill"
    /\ \A a \in Actors : pc[a] = "error" => overlap # {} \/ cutShort \/ a = Daemon

\* As long as nobody is on record: the file is created once, a list that is
\* going to replace it differs in one id, and the jobs the daemon started with,
\* or the one it stopped at, leave the file by an acknowledged edit only.
LastingInv ==
    overlap = {} /\ ~cutShort =>
        /\ \A x \in Actors : pc[x] = "create" => File = Absent
        /\ \A x \in Actors : pc[x] \in SavePhase =>
              Parses("jobs") /\ \A j \in File : j.id # Subject(x) => j \in buf[x]
        /\ pc[Daemon] = "startAdd" => \A j \in buf[Daemon] : Lasting(j)
        /\ pc[Daemon] = "error" => \E j \in Jobs : j.sched = Invalid /\ Lasting(j)

\* Settled jobs are in the file, and so in the list a Reload works with.
SettledInv ==
    /\ settled # {} => Parses("jobs") /\ settled \subseteq File
    /\ pc[Daemon] \in {"remove", "add"} => settled \subseteq buf[Daemon]
    /\ SettledStaysScheduled

Readable(content) == content \notin {Absent, Garbled}

\* Below co, ov and in stand for commits, overlap and input.
EditorsOf(in)    == {c \in Commands : in[c].op \in {"add", "rm"}}
SubjectOf(in, c) == IF in[c].op = "add" THEN in[c].job.id ELSE in[c].id

\* The n-th commit is followed by one of the same id, or one with the same id
\* overlapped with another.
Replaced(co, ov, in, n) ==
    \/ \E d \in ov \cap EditorsOf(in) : SubjectOf(in, d) = SubjectOf(in, co[n])
    \/ \E k \in (n + 1)..Len(co) : SubjectOf(in, co[k]) = SubjectOf(in, co[n])

\* The edit of c is in effect in a list of jobs.
InEffect(in, c, jobs) ==
    IF in[c].op = "add" THEN in[c].job \in jobs ELSE \A j \in jobs : j.id # SubjectOf(in, c)

\* A list that keeps all acknowledged edits ...
KeepsAll(co, ov, in, jobs) ==
    \A n \in 1..Len(co) : co[n] \notin ov => Replaced(co, ov, in, n) \/ InEffect(in, co[n], jobs)

\* ... but for the id that x is about to change.
KeepsBut(co, ov, in, x, jobs) ==
    \A n \in 1..Len(co) :
        co[n] \notin ov => \/ Replaced(co, ov, in, n) \/ InEffect(in, co[n], jobs)
                           \/ SubjectOf(in, x) = SubjectOf(in, co[n])

\* The job file, and every list that is going to replace it, keeps them.
AckedInv ==
    /\ Readable(File) => KeepsAll(commits, overlap, input, File)
    /\ \A x \in Actors :
          /\ pc[x] \in SavePhase => KeepsBut(commits, overlap, input, x, buf[x]) /\ InEffect(input, x, buf[x])
          /\ pc[x] = "saveWrite" /\ Readable(temp["jobs"]) => KeepsAll(commits, overlap, input, temp["jobs"])
          /\ pc[x] = "saveRename" /\ Readable(temp["jobs"]) => KeepsBut(commits, overlap, input, x, temp["jobs"])
          /\ pc[x] \in {"create", "fill"} => \A n \in 1..Len(commits) : commits[n] \in overlap

\* A file with acknowledged edits in it is garbled by an overlap only, and
\* whoever is on record is there with another.
SpoiltInv == File = Garbled /\ Len(commits) # 0 => overlap # {}
PairInv   == overlap # {} => \E a, b \in overlap : a # b

FileCronInv ==
    /\ ShapeInv /\ OverlapInv /\ AloneInv /\ CauseInv /\ LastingInv /\ SettledInv /\ AckedInv
    /\ SpoiltInv /\ PairInv
-----------------------------------------------------------------------------
Contents == (SUBSET Jobs) \cup {Absent, Garbled}

\* The type of files and descriptors, ...
FilesOK ==
    /\ DOMAIN main = {"jobs"} /\ DOMAIN temp = {"jobs"}
    /\ main["jobs"] \in Contents /\ temp["jobs"] \in Contents
    /\ fd \in [Actors -> ({"temp", "main"} \X {"jobs"}) \cup {None}]

Places == {"idle", "create", "fill", "opened", "saveTrunc", "saveWrite", "saveRename", "firing",
           "startAdd", "running", "list", "remove", "add", "stopping"} \cup Ended

\* ... of what the processes do, ...
ProcsOK ==
    /\ pc \in [Actors -> Places]
    /\ input \in Plans
    /\ buf \in [Actors -> SUBSET Jobs]
    /\ overlap \subseteq Actors /\ commits \in Seq(Commands)

\* ... of the daemon's data, ...
EngineOK ==
    /\ now \in Ticks
    /\ \A i \in Ids : entries[i] = None \/ entries[i] \in {j \in Jobs : j.id = i /\ j.sched # Invalid}
    /\ inFlight \in [Jobs -> 0..MaxFires]
    /\ sigs \in {<<>>, <<"HUP">>, <<"TERM">>}
    /\ sent \in 0..MaxSignals /\ starts \in 0..MaxStarts
    /\ settled \subseteq Jobs

\* ... and of two flags.
FlagsOK == asked \in BOOLEAN /\ cutShort \in BOOLEAN

\* TypeOK, in four parts.
LEMMA TypeParts == TypeOK <=> FilesOK /\ ProcsOK /\ EngineOK /\ FlagsOK
BY DEF TypeOK, FilesOK, ProcsOK, EngineOK, FlagsOK, Places, Contents

\* The same in the next state.
LEMMA TypePartsNext == TypeOK' <=> FilesOK' /\ ProcsOK' /\ EngineOK' /\ FlagsOK'
BY TypeParts, PTL

\* The inputs of commands that edit.
LEMMA EditInput ==
    ASSUME ProcsOK, NEW c \in Commands
    PROVE  /\ input[c].op = "add" => input[c].job \in Jobs
           /\ \A jobs \in SUBSET Jobs : input[c].op \in {"add", "rm"} => Edited(c, jobs) \in SUBSET Jobs
BY FileCronAssumption DEF ProcsOK, Edited

\* Opening the temporary file with O_TRUNC.
LEMMA TruncateFacts ==
    ASSUME FilesOK, NEW a \in Actors, Truncate(a, "jobs")
    PROVE  /\ FilesOK' /\ main' = main /\ temp'["jobs"] = Garbled
           /\ fd'[a] = <<"temp", "jobs">> /\ \A x \in Actors \ {a} : fd'[x] = fd[x]
BY DEF FilesOK, Truncate, Contents

\* A write goes to the file that was opened, on top of what is there.
LEMMA WriteFacts ==
    ASSUME FilesOK, NEW a \in Actors, NEW v \in SUBSET Jobs, Write(a, "jobs", v)
    PROVE  /\ FilesOK'
           /\ fd'[a] = None /\ \A x \in Actors \ {a} : fd'[x] = fd[x]
           /\ fd[a] # <<"main", "jobs">> => main' = main
           /\ fd[a] # <<"temp", "jobs">> => temp' = temp
           /\ fd[a] = <<"temp", "jobs">> =>
                 temp'["jobs"] \in {v, Garbled} /\ (temp["jobs"] = Garbled => temp'["jobs"] = v)
           /\ fd[a] = <<"main", "jobs">> =>
                 main'["jobs"] \in {v, Garbled} /\ (main["jobs"] = Garbled => main'["jobs"] = v)
<1>1. fd' = [fd EXCEPT ![a] = None]
  BY DEF Write
<1>2. CASE fd[a] = <<"temp", "jobs">>
  <2>1. PICK w \in Over(temp["jobs"], v) : temp' = [temp EXCEPT !["jobs"] = w]
    BY <1>2 DEF Write
  <2>2. main' = main /\ w \in {v, Garbled} /\ (temp["jobs"] = Garbled => w = v)
    BY <1>2, <2>1 DEF Write, Over
  <2>3. fd[a] # <<"main", "jobs">>
    BY <1>2
  <2>. QED BY <1>1, <1>2, <2>1, <2>2, <2>3 DEF FilesOK, Contents
<1>3. CASE fd[a] = <<"main", "jobs">>
  <2>1. PICK w \in Over(main["jobs"], v) : main' = [main EXCEPT !["jobs"] = w]
    BY <1>3 DEF Write
  <2>2. temp' = temp /\ w \in {v, Garbled} /\ (main["jobs"] = Garbled => w = v)
    BY <1>3, <2>1 DEF Write, Over
  <2>3. fd[a] # <<"temp", "jobs">>
    BY <1>3
  <2>. QED BY <1>1, <1>3, <2>1, <2>2, <2>3 DEF FilesOK, Contents
<1>4. CASE fd[a] # <<"temp", "jobs">> /\ fd[a] # <<"main", "jobs">>
  <2>1. main' = main /\ temp' = temp
    BY <1>4 DEF Write
  <2>. QED BY <1>1, <1>4, <2>1 DEF FilesOK
<1>. QED BY <1>2, <1>3, <1>4

\* A rename moves the temporary file, and open descriptors with it.
LEMMA RenameFacts ==
    ASSUME FilesOK, Rename("jobs")
    PROVE  /\ FilesOK' /\ main'["jobs"] = temp["jobs"] /\ temp'["jobs"] = Absent
           /\ \A x \in Actors : /\ fd[x] = <<"temp", "jobs">> => fd'[x] = <<"main", "jobs">>
                                /\ fd[x] # <<"temp", "jobs">> => fd'[x] = None
<1>1. ASSUME NEW x \in Actors
      PROVE  /\ fd[x] = <<"temp", "jobs">> => fd'[x] = <<"main", "jobs">>
             /\ fd[x] # <<"temp", "jobs">> => fd'[x] = None
  <2>1. fd[x] = <<"temp", "jobs">> => fd'[x] = <<"main", "jobs">>
    BY DEF Rename
  <2>2. fd[x] = <<"main", "jobs">> => fd'[x] = None
    <3>1. <<"main", "jobs">> # <<"temp", "jobs">>
      OBVIOUS
    <3>. QED BY <3>1 DEF Rename
  <2>3. fd[x] \notin {<<"temp", "jobs">>, <<"main", "jobs">>} => fd'[x] = fd[x] /\ fd[x] = None
    BY DEF Rename, FilesOK
  <2>. QED BY <2>1, <2>2, <2>3
<1>2. fd' \in [Actors -> ({"temp", "main"} \X {"jobs"}) \cup {None}]
  BY DEF Rename, FilesOK
<1>. QED BY <1>1, <1>2 DEF FilesOK, Rename, Contents

\* The steps that leave the files alone.
Reads ==
    \/ \E a \in Actors : OpenStore(a)
    \/ \E c \in Commands : Operate(c) \/ FireNowReturns(c)
    \/ StartList \/ StartAdd \/ TakeSignal \/ ReloadList \/ RemoveEntries \/ ReloadAdd \/ StopDone
    \/ Tick \/ Restart
    \/ \E j \in Jobs : FireReturns(j)
    \/ \E s \in {"HUP", "TERM"} : Signal(s)
    \/ UNCHANGED vars

\* Every step is one of those, a Crash, or one of five that write.
LEMMA StepKinds ==
    [Next]_vars <=> \/ Reads
                    \/ \E a \in Actors : Crash(a) \/ Create(a) \/ Fill(a)
                    \/ \E c \in Commands : SaveTruncate(c) \/ SaveWrite(c) \/ SaveRename(c)
BY DEF Next, Reads, DaemonStep, CommandStep, Actors

\* They do not touch the files.
LEMMA ReadsFacts == Reads => UNCHANGED <<main, temp, fd, input, commits, cutShort>>
BY DEF Reads, OpenStore, Operate, FireNowReturns, StartList, StartAdd, TakeSignal, ReloadList, RemoveEntries,
   ReloadAdd, StopDone, Tick, Restart, FireReturns, Signal, List, AddEntries, vars, fileVars, histVars

\* The types of files and descriptors are kept.
LEMMA NextFiles == FilesOK /\ ProcsOK /\ [Next]_vars => FilesOK'
<1>. SUFFICES ASSUME FilesOK, ProcsOK, [Next]_vars PROVE FilesOK'
  OBVIOUS
<1>a. Commands \subseteq Actors /\ {} \in SUBSET Jobs
  BY DEF Actors
<1>1. CASE Reads
  BY <1>1, ReadsFacts DEF FilesOK
<1>2. ASSUME NEW a \in Actors, Crash(a) PROVE FilesOK'
  BY <1>2 DEF Crash, FilesOK
<1>3. ASSUME NEW a \in Actors, Create(a) PROVE FilesOK'
  BY <1>3 DEF Create, FilesOK, Contents
<1>4. ASSUME NEW a \in Actors, Fill(a) PROVE FilesOK'
  BY <1>4, <1>a, WriteFacts DEF Fill
<1>5. ASSUME NEW c \in Commands, SaveTruncate(c) PROVE FilesOK'
  BY <1>5, <1>a, TruncateFacts DEF SaveTruncate
<1>6. ASSUME NEW c \in Commands, SaveWrite(c) PROVE FilesOK'
  <2>1. buf[c] \in SUBSET Jobs /\ c \in Actors
    BY <1>a DEF ProcsOK
  <2>. QED BY <1>6, <2>1, WriteFacts DEF SaveWrite
<1>7. ASSUME NEW c \in Commands, SaveRename(c) PROVE FilesOK'
  <2>1. Rename("jobs") \/ UNCHANGED fileVars
    BY <1>7 DEF SaveRename
  <2>. QED BY <2>1, RenameFacts DEF fileVars, FilesOK
<1>. QED BY <1>1, <1>2, <1>3, <1>4, <1>5, <1>6, <1>7, StepKinds

\* The types of what processes do are kept.
LEMMA NextProcs == FilesOK /\ ProcsOK /\ [Next]_vars => ProcsOK'
<1>. SUFFICES ASSUME FilesOK, ProcsOK, [Next]_vars PROVE ProcsOK'
  OBVIOUS
<1>. USE DEF Ended, fileVars, daemonVars, bounds, histVars, Go
<1>a. Commands \subseteq Actors /\ Daemon \in Actors /\ Changing \subseteq Actors
  BY DEF Actors, Changing
<1>b. \A a \in Actors : Enter(a) => overlap' \subseteq Actors
  BY <1>a DEF Enter, ProcsOK
<1>1. ASSUME NEW a \in Actors, OpenStore(a) PROVE ProcsOK'
  <2>1. overlap' \subseteq Actors
    BY <1>1, <1>b DEF OpenStore, ProcsOK
  <2>. QED BY <1>1, <2>1 DEF OpenStore, ProcsOK, Places
<1>2. ASSUME NEW a \in Actors, Create(a) \/ Fill(a) PROVE ProcsOK'
  BY <1>2 DEF Create, Fill, ProcsOK, Places
<1>3. ASSUME NEW c \in Commands, Operate(c) PROVE ProcsOK'
  <2>1. overlap' \subseteq Actors
    BY <1>3, <1>a, <1>b DEF Operate, Refuse, LoadFails, ListJobs, FireNow, Edit, ProcsOK
  <2>2. ASSUME Edit(c) PROVE buf' \in [Actors -> SUBSET Jobs] /\ pc' \in [Actors -> Places]
    <3>1. main["jobs"] \in SUBSET Jobs
      BY <2>2 DEF Edit, Parses, FilesOK, Contents
    <3>2. Edited(c, main["jobs"]) \in SUBSET Jobs
      BY <2>2, <3>1, EditInput DEF Edit
    <3>. QED BY <2>2, <1>a, <3>2 DEF Edit, ProcsOK, Places, File
  <2>3. buf' \in [Actors -> SUBSET Jobs] /\ pc' \in [Actors -> Places]
    BY <1>3, <1>a, <2>2 DEF Operate, Refuse, LoadFails, ListJobs, FireNow, ProcsOK, Places
  <2>. QED BY <1>3, <2>1, <2>3 DEF Operate, ProcsOK
<1>4. ASSUME NEW c \in Commands, SaveTruncate(c) \/ SaveWrite(c) \/ FireNowReturns(c) PROVE ProcsOK'
  BY <1>4, <1>a DEF SaveTruncate, SaveWrite, FireNowReturns, ProcsOK, Places
<1>5. ASSUME NEW c \in Commands, SaveRename(c) PROVE ProcsOK'
  <2>1. commits' \in Seq(Commands)
    BY <1>5 DEF SaveRename, ProcsOK
  <2>. QED BY <1>5, <1>a, <2>1 DEF SaveRename, ProcsOK, Places
<1>6. CASE StartList \/ ReloadList
  <2>1. overlap' \subseteq Actors
    BY <1>6, <1>a, <1>b DEF StartList, ReloadList, List, ProcsOK
  <2>2. Parses("jobs") => main["jobs"] \in SUBSET Jobs
    BY DEF Parses, FilesOK, Contents
  <2>. QED BY <1>6, <1>a, <2>1, <2>2 DEF StartList, ReloadList, List, ProcsOK, Places, File
<1>7. CASE StartAdd \/ ReloadAdd
  <2>1. \E to \in {"running", "error"} : Go(Daemon, to)
    BY <1>7 DEF StartAdd, ReloadAdd, AddEntries
  <2>2. buf' = [buf EXCEPT ![Daemon] = {}] /\ UNCHANGED <<input, overlap, commits>>
    BY <1>7 DEF StartAdd, ReloadAdd, AddEntries
  <2>. QED BY <1>a, <2>1, <2>2 DEF ProcsOK, Places
<1>8. CASE TakeSignal \/ RemoveEntries \/ StopDone \/ Restart
  BY <1>8, <1>a DEF TakeSignal, RemoveEntries, StopDone, Restart, ProcsOK, Places
<1>9. CASE Tick \/ (\E j \in Jobs : FireReturns(j)) \/ (\E s \in {"HUP", "TERM"} : Signal(s)) \/ UNCHANGED vars
  BY <1>9 DEF Tick, FireReturns, Signal, vars, ProcsOK
<1>10. ASSUME NEW a \in Actors, Crash(a) PROVE ProcsOK'
  BY <1>10 DEF Crash, ProcsOK, Places
<1>. QED BY <1>1, <1>2, <1>3, <1>4, <1>5, <1>6, <1>7, <1>8, <1>9, <1>10, StepKinds DEF Reads

\* What registering jobs does.
LEMMA RegisteredFacts ==
    ASSUME NEW jobs \in SUBSET Jobs
    PROVE  /\ \A i \in Ids : \/ Registered(jobs)[i] = entries[i] /\ \A j \in jobs : j.id # i
                             \/ Registered(jobs)[i] \in jobs /\ Registered(jobs)[i].id = i
           /\ \A j \in Jobs : j.id \in Ids
<1>1. ASSUME NEW i \in Ids
      PROVE  \/ Registered(jobs)[i] = entries[i] /\ \A j \in jobs : j.id # i
             \/ Registered(jobs)[i] \in jobs /\ Registered(jobs)[i].id = i
  <2>1. CASE \E j \in jobs : j.id = i
    <3>1. Registered(jobs)[i] = CHOOSE j \in jobs : j.id = i
      BY <2>1 DEF Registered
    <3>. QED BY <2>1, <3>1
  <2>2. CASE \A j \in jobs : j.id # i
    BY <2>2 DEF Registered
  <2>. QED BY <2>1, <2>2
<1>. QED BY <1>1 DEF Ids

\* What the second half of a Reload does.
LEMMA AddFacts ==
    ASSUME EngineOK, ProcsOK, NEW from, NEW onError, AddEntries(from, onError)
    PROVE  /\ pc[Daemon] = from /\ UNCHANGED <<now, sigs, inFlight, bounds>>
           /\ \A i \in Ids : entries'[i] = None \/ entries'[i] \in {j \in Jobs : j.id = i /\ j.sched # Invalid}
           /\ settled' \subseteq Jobs /\ settled' \subseteq buf[Daemon]
           /\ settled' \subseteq (IF Parses("jobs") THEN File ELSE {})
           /\ \A j \in settled' : entries'[j.id] = j
           /\ \/ Go(Daemon, "running")
              \/ Go(Daemon, onError) /\ \E j \in buf[Daemon] : j.sched = Invalid
<1>. DEFINE new == {j \in buf[Daemon] : entries[j.id] = None}
            bad == {j \in new : j.sched = Invalid}
<1>1. PICK added \in (IF bad = {} THEN {new} ELSE SUBSET (new \ bad)) :
         /\ entries' = Registered(added)
         /\ settled' = {j \in buf[Daemon] : Registered(added)[j.id] = j} \cap (IF Parses("jobs") THEN File ELSE {})
         /\ Go(Daemon, IF bad = {} THEN "running" ELSE onError)
  BY DEF AddEntries
<1>2. buf[Daemon] \subseteq Jobs
  BY DEF ProcsOK, Actors
<1>3. added \in SUBSET Jobs /\ \A j \in added : j.sched # Invalid
  BY <1>1, <1>2
<1>4. \A i \in Ids : entries'[i] = None \/ entries'[i] \in {j \in Jobs : j.id = i /\ j.sched # Invalid}
  <2>. HIDE DEF new, bad
  <2>. QED BY <1>1, <1>3, RegisteredFacts DEF EngineOK
<1>5. bad # {} => \E j \in buf[Daemon] : j.sched = Invalid
  OBVIOUS
<1>. QED BY <1>1, <1>2, <1>4, <1>5 DEF AddEntries, bounds

\* A channel with room for one signal.
LEMMA OneSignal ==
    ASSUME NEW s
    PROVE  /\ Append(<<>>, s) = <<s>> /\ Tail(<<s>>) = <<>> /\ Len(<<s>>) = 1 /\ Len(<<>>) = 0
<1>1. Append(<<>>, s) = <<s>>
  OBVIOUS
<1>2. Tail(<<s>>) = <<>>
  OBVIOUS
<1>. QED BY <1>1, <1>2

\* The types of the daemon's data are kept.
LEMMA NextEngine == FilesOK /\ ProcsOK /\ EngineOK /\ [Next]_vars => EngineOK'
<1>. SUFFICES ASSUME FilesOK, ProcsOK, EngineOK, [Next]_vars PROVE EngineOK'
  OBVIOUS
<1>. USE DEF fileVars, daemonVars, bounds, histVars
<1>a. Period \in Nat /\ Period > 0 /\ MaxSignals \in Nat /\ MaxStarts \in Nat /\ MaxFires \in Nat
  BY FileCronAssumption
<1>1. ASSUME NEW a \in Actors, OpenStore(a) PROVE EngineOK'
  BY <1>1, <1>a DEF OpenStore, EngineOK
<1>2. ASSUME Follow, UNCHANGED <<now, daemonVars, bounds>> PROVE EngineOK'
  <2>1. settled' \subseteq settled
    BY <1>2 DEF Follow
  <2>. QED BY <1>2, <2>1 DEF EngineOK
<1>3. ASSUME NEW c \in Commands, Operate(c) \/ FireNowReturns(c) PROVE EngineOK'
  BY <1>3 DEF Operate, FireNowReturns, EngineOK
<1>4. CASE StartList \/ ReloadList
  BY <1>4 DEF StartList, ReloadList, List, EngineOK
<1>5. CASE StartAdd \/ ReloadAdd
  BY <1>5, AddFacts DEF StartAdd, ReloadAdd, EngineOK
<1>6. CASE TakeSignal
  <2>1. sigs' = Tail(sigs) /\ \E s \in {"HUP", "TERM"} : sigs = <<s>>
    BY <1>6 DEF TakeSignal, EngineOK
  <2>2. sigs' = <<>>
    BY <2>1, OneSignal
  <2>. QED BY <1>6, <2>2 DEF TakeSignal, EngineOK
<1>7. CASE RemoveEntries
  BY <1>7 DEF RemoveEntries, EngineOK
<1>8. CASE StopDone \/ Restart
  BY <1>8 DEF StopDone, Restart, EngineOK, NoEntries
<1>9. CASE Tick
  <2>1. now' \in Ticks
    BY <1>9, <1>a DEF Tick, Ticks, EngineOK
  <2>2. ASSUME Running PROVE inFlight' \in [Jobs -> 0..MaxFires]
    BY <1>9, <1>a, <2>2 DEF Tick, EngineOK
  <2>. QED BY <1>9, <2>1, <2>2 DEF Tick, EngineOK
<1>10. ASSUME NEW j \in Jobs, FireReturns(j) PROVE EngineOK'
  <2>1. inFlight' \in [Jobs -> 0..MaxFires]
    BY <1>10, <1>a DEF FireReturns, EngineOK
  <2>. QED BY <1>10, <2>1 DEF FireReturns, EngineOK
<1>11. ASSUME NEW s \in {"HUP", "TERM"}, Signal(s) PROVE EngineOK'
  <2>1. sigs' \in {<<>>, <<"HUP">>, <<"TERM">>}
    <3>1. sigs' = IF Len(sigs) < 1 THEN Append(sigs, s) ELSE sigs
      BY <1>11 DEF Signal, ChannelTakes
    <3>2. CASE sigs = <<>>
      BY <3>1, <3>2, OneSignal
    <3>3. CASE sigs # <<>>
      <4>1. PICK t \in {"HUP", "TERM"} : sigs = <<t>>
        BY <3>3 DEF EngineOK
      <4>2. Len(sigs) = 1
        BY <4>1, OneSignal
      <4>. QED BY <3>1, <4>1, <4>2
    <3>. QED BY <3>2, <3>3
  <2>2. sent' \in 0..MaxSignals
    BY <1>11, <1>a DEF Signal, EngineOK
  <2>. QED BY <1>11, <2>1, <2>2 DEF Signal, EngineOK
<1>12. ASSUME NEW a \in Actors, Crash(a) PROVE EngineOK'
  <2>1. NoCalls \in [Jobs -> 0..MaxFires] /\ \A i \in Ids : NoEntries[i] = None
    BY <1>a DEF NoCalls, NoEntries
  <2>. QED BY <1>12, <2>1 DEF Crash, EngineOK
<1>13. CASE UNCHANGED vars
  BY <1>13 DEF vars, EngineOK
<1>14. ASSUME NEW a \in Actors, Create(a) \/ Fill(a) PROVE EngineOK'
  BY <1>14, <1>2 DEF Create, Fill
<1>15. ASSUME NEW c \in Commands, SaveTruncate(c) \/ SaveWrite(c) \/ SaveRename(c) PROVE EngineOK'
  BY <1>15, <1>2 DEF SaveTruncate, SaveWrite, SaveRename
<1>. QED BY <1>1, <1>3, <1>4, <1>5, <1>6, <1>7, <1>8, <1>9, <1>10, <1>11, <1>12, <1>13, <1>14, <1>15, StepKinds DEF Reads

\* Flags stay flags.
LEMMA NextFlags == FlagsOK /\ [Next]_vars => FlagsOK'
<1>. SUFFICES ASSUME FlagsOK, [Next]_vars PROVE FlagsOK'
  OBVIOUS
<1>. USE DEF histVars
<1>a. asked \in BOOLEAN /\ cutShort \in BOOLEAN
  BY DEF FlagsOK
<1>1. ASSUME Follow \/ asked' = asked \/ asked' = FALSE PROVE asked' \in BOOLEAN
  BY <1>1, <1>a, Zenon DEF Follow
<1>2. ASSUME NEW s, Signal(s) PROVE asked' \in BOOLEAN
  BY <1>2, <1>a, Zenon DEF Signal
<1>3. ASSUME NEW a \in Actors, Crash(a) PROVE cutShort' \in BOOLEAN
  BY <1>3, <1>a, Zenon DEF Crash
<1>4. CASE Reads
  <2>1. asked' = asked \/ asked' = FALSE \/ \E s \in {"HUP", "TERM"} : Signal(s)
    BY <1>4 DEF Reads, OpenStore, Operate, FireNowReturns, StartList, StartAdd, TakeSignal, ReloadList, RemoveEntries,
       ReloadAdd, StopDone, Tick, Restart, FireReturns, List, AddEntries, vars
  <2>. QED BY <1>1, <1>2, <1>4, <1>a, <2>1, ReadsFacts DEF FlagsOK
<1>5. ASSUME NEW a \in Actors, Crash(a) PROVE FlagsOK'
  <2>1. asked' = asked \/ asked' = FALSE
    BY <1>5 DEF Crash
  <2>. QED BY <1>1, <1>3, <1>5, <2>1 DEF FlagsOK
<1>6. ASSUME NEW a \in Actors, Create(a) \/ Fill(a) \/ SaveTruncate(a) \/ SaveWrite(a) \/ SaveRename(a) PROVE FlagsOK'
  <2>1. Follow /\ UNCHANGED cutShort
    BY <1>6 DEF Create, Fill, SaveTruncate, SaveWrite, SaveRename
  <2>. QED BY <1>1, <1>a, <2>1 DEF FlagsOK
<1>. QED BY <1>4, <1>5, <1>6, StepKinds DEF Actors

-----------------------------------------------------------------------------
\* A process moves, and no other does.
LEMMA GoFacts ==
    ASSUME ProcsOK, NEW a \in Actors, NEW where, Go(a, where)
    PROVE  pc'[a] = where /\ \A x \in Actors \ {a} : pc'[x] = pc[x]
BY DEF ProcsOK, Go

\* Whoever changes the file already is on record from now on, and a with it.
LEMMA EnterFacts ==
    ASSUME NEW a, Enter(a)
    PROVE  /\ overlap \subseteq overlap'
           /\ \A b \in Actors \ {a} : pc[b] \in ChangePhase => a \in overlap' /\ b \in overlap'
<1>1. ASSUME NEW b \in Actors \ {a}, pc[b] \in ChangePhase PROVE b \in Changing \ {a}
  BY <1>1 DEF Changing, ChangePhase, SavePhase
<1>. QED BY <1>1 DEF Enter

\* A reason for a to have failed.
Excuse(a) == overlap # {} \/ cutShort \/ a = Daemon

\* A step that has nothing to do with the change of a file, or ends one.
Aside ==
    /\ UNCHANGED <<main, temp, input, commits>> /\ overlap \subseteq overlap' /\ (cutShort => cutShort')
    /\ \A b \in Actors :
          \/ pc'[b] = pc[b] /\ fd'[b] = fd[b] /\ buf'[b] = buf[b]
          \/ /\ pc'[b] \notin ChangePhase /\ fd'[b] = None
             /\ pc[b] = "fill" => cutShort'
             /\ pc'[b] \notin Before => File # Absent
             /\ pc'[b] = "error" => Excuse(b)'

\* A step that begins to create the file, or to save a changed list.
Opens(a) ==
    /\ File = Absent /\ pc[a] = "idle" /\ Enter(a) /\ Go(a, "create")
    /\ UNCHANGED <<main, temp, fd, input, buf, commits, cutShort>>
Edits(c) ==
    /\ Readable(File) /\ c \in Editors /\ pc[c] = "opened" /\ Enter(c) /\ Go(c, "saveTrunc")
    /\ buf' = [buf EXCEPT ![c] = Edited(c, File)]
    /\ UNCHANGED <<main, temp, fd, input, commits, cutShort>>

\* A process that finds no file that parses has an excuse to fail.
LEMMA Unreadable ==
    ASSUME ShapeInv, CauseInv, NEW a \in Actors, pc[a] \notin Before \cup ChangePhase, ~Parses("jobs"), Enter(a)
    PROVE  overlap' # {} \/ cutShort
<1>1. File = Garbled
  BY DEF ShapeInv, PhaseInv, Parses, File
<1>2. CASE \E b \in Actors : pc[b] = "fill"
  <2>1. PICK b \in Actors : pc[b] = "fill"
    BY <1>2
  <2>2. b \in Actors \ {a} /\ pc[b] \in ChangePhase
    BY <2>1 DEF ChangePhase
  <2>. QED BY <2>2, EnterFacts
<1>. QED BY <1>1, <1>2, EnterFacts DEF CauseInv

\* One process does what Aside allows, the others nothing.
LEMMA AsideOne ==
    ASSUME ShapeInv, NEW a \in Actors, NEW where, Go(a, where), where \notin ChangePhase,
           pc[a] \notin {"fill", "saveWrite"}, where \notin Before => pc[a] \notin Before \/ File # Absent,
           where = "error" => Excuse(a)', overlap \subseteq overlap',
           UNCHANGED <<main, temp, fd, input, commits, cutShort>>, \A b \in Actors \ {a} : buf'[b] = buf[b]
    PROVE  Aside
<1>1. pc'[a] = where /\ \A x \in Actors \ {a} : pc'[x] = pc[x]
  BY GoFacts, TypeParts DEF ShapeInv
<1>2. fd'[a] = None
  BY DEF ShapeInv, PhaseInv
<1>3. where \notin Before => File # Absent
  BY DEF ShapeInv, PhaseInv
<1>. QED BY <1>1, <1>2, <1>3 DEF Aside

\* What a step does to the file and who works on it, if it does not write.
LEMMA ReadSteps ==
    ASSUME ShapeInv, CauseInv, Reads \/ \E a \in Actors : Crash(a)
    PROVE  Aside \/ (\E a \in Actors : Opens(a)) \/ (\E c \in Commands : Edits(c))
<1>. USE DEF Before, Ended, ChangePhase, SavePhase
<1>a. ProcsOK /\ EngineOK /\ Commands \subseteq Actors /\ Daemon \in Actors
  BY TypeParts DEF ShapeInv, Actors
<1>b. Reads => UNCHANGED <<main, temp, fd, input, commits, cutShort>>
  BY ReadsFacts
<1>c. \A a \in Actors : (buf' = buf \/ \E v : buf' = [buf EXCEPT ![a] = v]) => \A b \in Actors \ {a} : buf'[b] = buf[b]
  BY <1>a DEF ProcsOK
<1>1. ASSUME NEW a \in Actors, OpenStore(a) PROVE Aside \/ Opens(a)
  <2>1. CASE File = Absent
    BY <1>1, <1>b, <2>1 DEF OpenStore, Opens, Reads
  <2>2. CASE File # Absent
    BY <1>1, <1>b, <2>2, AsideOne DEF OpenStore, Reads
  <2>. QED BY <2>1, <2>2
<1>2. ASSUME NEW c \in Commands, Operate(c) PROVE Aside \/ Edits(c)
  <2>1. c \in Actors /\ pc[c] = "opened" /\ UNCHANGED <<main, temp, fd, input, commits, cutShort>>
    BY <1>2, <1>a, <1>b DEF Operate, Reads
  <2>2. CASE Refuse(c)
    BY <2>1, <2>2, AsideOne DEF Refuse
  <2>3. CASE LoadFails(c)
    <3>1. overlap' # {} \/ cutShort'
      BY <2>1, <2>3, Unreadable DEF LoadFails
    <3>2. overlap \subseteq overlap'
      BY <2>3, EnterFacts DEF LoadFails
    <3>3. Excuse(c)'
      BY <3>1 DEF Excuse
    <3>. QED BY <2>1, <2>3, <3>2, <3>3, AsideOne DEF LoadFails
  <2>4. CASE ListJobs(c)
    BY <2>1, <2>4, AsideOne DEF ListJobs
  <2>5. CASE FireNow(c)
    <3>1. PICK where \in {"firing", "refused"} : Go(c, where)
      BY <2>5 DEF FireNow
    <3>2. UNCHANGED <<buf, overlap>>
      BY <2>5 DEF FireNow
    <3>. QED BY <2>1, <3>1, <3>2, AsideOne
  <2>6. CASE Edit(c) /\ Rejects(c, File)
    <3>1. Go(c, "refused") /\ UNCHANGED <<buf, overlap>>
      BY <2>6 DEF Edit
    <3>. QED BY <2>1, <3>1, AsideOne
  <2>7. CASE Edit(c) /\ ~Rejects(c, File)
    BY <2>1, <2>7 DEF Edit, Edits, Editors, Readable, Parses, File
  <2>. QED BY <1>2, <2>2, <2>3, <2>4, <2>5, <2>6, <2>7 DEF Operate
<1>3. ASSUME NEW c \in Commands, FireNowReturns(c) PROVE Aside
  <2>1. PICK where \in {"done", "error4xx"} : Go(c, where)
    BY <1>3 DEF FireNowReturns
  <2>2. c \in Actors /\ pc[c] = "firing" /\ UNCHANGED <<buf, overlap>> /\ UNCHANGED <<main, temp, fd, input, commits, cutShort>>
    BY <1>3, <1>a, <1>b DEF FireNowReturns, Reads, histVars
  <2>. QED BY <2>1, <2>2, AsideOne
<1>4. ASSUME NEW from, NEW next, NEW onError, List(from, next, onError), from \in {"opened", "list"},
             next \in {"startAdd", "remove"}, onError \in {"error", "running"}
      PROVE  Aside
  <2>1. pc[Daemon] = from /\ UNCHANGED <<main, temp, fd, input, commits, cutShort>>
    BY <1>4 DEF List, fileVars
  <2>2. \A b \in Actors \ {Daemon} : buf'[b] = buf[b]
    BY <1>4, <1>a, <1>c DEF List
  <2>3. CASE Parses("jobs")
    BY <1>4, <1>a, <2>1, <2>2, <2>3, AsideOne DEF List
  <2>4. CASE ~Parses("jobs")
    <3>1. overlap' # {} \/ cutShort'
      BY <1>4, <1>a, <2>1, <2>4, Unreadable DEF List
    <3>2. overlap \subseteq overlap' /\ Go(Daemon, onError)
      BY <1>4, <2>4, EnterFacts DEF List
    <3>3. Excuse(Daemon)'
      BY <3>1 DEF Excuse
    <3>. QED BY <1>4, <1>a, <2>1, <2>2, <3>2, <3>3, AsideOne
  <2>. QED BY <2>3, <2>4
<1>5. ASSUME NEW from, NEW onError, AddEntries(from, onError), from \in {"startAdd", "add"}, onError \in {"error", "running"}
      PROVE  Aside
  <2>1. /\ UNCHANGED <<main, temp, fd, input, commits, cutShort, overlap>> /\ pc[Daemon] = from
        /\ \A b \in Actors \ {Daemon} : buf'[b] = buf[b]
    BY <1>5, <1>a, <1>c DEF AddEntries, fileVars
  <2>2. PICK where \in {"running", onError} : Go(Daemon, where)
    BY <1>5, <1>a, AddFacts
  <2>3. Excuse(Daemon)'
    BY DEF Excuse
  <2>. QED BY <1>5, <1>a, <2>1, <2>2, <2>3, AsideOne
<1>6. CASE TakeSignal \/ RemoveEntries \/ StopDone \/ Restart
  <2>1. PICK where \in {"list", "stopping", "add", "exited", "idle"} : Go(Daemon, where)
    BY <1>6 DEF TakeSignal, RemoveEntries, StopDone, Restart
  <2>2. /\ pc[Daemon] \notin {"fill", "saveWrite"} /\ (where \notin Before => pc[Daemon] \notin Before)
        /\ UNCHANGED <<buf, overlap>>
    <3>1. CASE TakeSignal
      BY <2>1, <3>1 DEF TakeSignal, histVars
    <3>2. CASE RemoveEntries
      BY <2>1, <3>2 DEF RemoveEntries, histVars
    <3>3. CASE StopDone
      BY <2>1, <3>3, <1>a, GoFacts DEF StopDone
    <3>4. CASE Restart
      BY <2>1, <3>4, <1>a, GoFacts DEF Restart, histVars
    <3>. QED BY <1>6, <3>1, <3>2, <3>3, <3>4
  <2>3. UNCHANGED <<main, temp, fd, input, commits, cutShort>>
    BY <1>6, <1>b DEF Reads
  <2>. QED BY <1>a, <2>1, <2>2, <2>3, AsideOne
<1>7. CASE Tick \/ (\E j \in Jobs : FireReturns(j)) \/ (\E s \in {"HUP", "TERM"} : Signal(s)) \/ UNCHANGED vars
  BY <1>7 DEF Tick, FireReturns, Signal, vars, fileVars, histVars, Aside
<1>8. ASSUME NEW a \in Actors, Crash(a) PROVE Aside
  <2>1. pc'[a] = "dead" /\ \A x \in Actors \ {a} : pc'[x] = pc[x] /\ fd'[x] = fd[x] /\ buf'[x] = buf[x]
    BY <1>8, <1>a, GoFacts, TypeParts DEF Crash, ShapeInv, FilesOK, ProcsOK
  <2>2. fd'[a] = None
    BY <1>8, TypeParts DEF Crash, ShapeInv, FilesOK
  <2>3. (pc[a] = "fill" => cutShort') /\ (cutShort => cutShort')
    BY <1>8, Zenon DEF Crash
  <2>. QED BY <1>8, <2>1, <2>2, <2>3 DEF Crash, Aside
<1>. QED BY <1>1, <1>2, <1>3, <1>4, <1>5, <1>6, <1>7, <1>8 DEF Reads, StartList, ReloadList, StartAdd, ReloadAdd

\* A step seen from the file.
FileStep ==
    \/ Aside
    \/ \E a \in Actors : Opens(a) \/ Create(a) \/ Fill(a)
    \/ \E c \in Commands : Edits(c) \/ SaveTruncate(c) \/ SaveWrite(c) \/ SaveRename(c)

\* Every step is one.
LEMMA FileSteps == ShapeInv /\ CauseInv /\ [Next]_vars => FileStep
BY StepKinds, ReadSteps DEF FileStep

\* OpenStore's first system call.
LEMMA CreateFacts ==
    ASSUME ShapeInv, NEW a \in Actors, Create(a)
    PROVE  /\ pc[a] = "create" /\ pc'[a] = "fill" /\ \A x \in Actors \ {a} : pc'[x] = pc[x] /\ fd'[x] = fd[x]
           /\ main'["jobs"] = Garbled /\ temp' = temp /\ fd'[a] = <<"main", "jobs">>
           /\ UNCHANGED <<input, buf, overlap, cutShort, commits>>
<1>1. FilesOK /\ ProcsOK
  BY TypeParts DEF ShapeInv
<1>2. pc'[a] = "fill" /\ \A x \in Actors \ {a} : pc'[x] = pc[x]
  BY <1>1, GoFacts DEF Create
<1>. QED BY <1>1, <1>2 DEF Create, FilesOK

\* Its second.
LEMMA FillFacts ==
    ASSUME ShapeInv, NEW a \in Actors, Fill(a)
    PROVE  /\ pc[a] = "fill" /\ pc'[a] = "opened" /\ \A x \in Actors \ {a} : pc'[x] = pc[x] /\ fd'[x] = fd[x]
           /\ temp' = temp /\ fd'[a] = None
           /\ fd[a] = None => main' = main
           /\ fd[a] # None => fd[a] = <<"main", "jobs">> /\ main'["jobs"] \in {{}, Garbled}
                              /\ (main["jobs"] = Garbled => main'["jobs"] = {})
           /\ UNCHANGED <<input, buf, overlap, cutShort, commits>>
<1>1. FilesOK /\ ProcsOK /\ {} \in SUBSET Jobs
  BY TypeParts DEF ShapeInv
<1>2. pc'[a] = "opened" /\ \A x \in Actors \ {a} : pc'[x] = pc[x]
  BY <1>1, GoFacts DEF Fill
<1>3. pc[a] = "fill" /\ Write(a, "jobs", {}) /\ UNCHANGED <<input, buf, overlap, cutShort, commits>>
  BY DEF Fill
<1>4. fd[a] \in {None, <<"main", "jobs">>} /\ <<"main", "jobs">> # <<"temp", "jobs">>
  BY <1>3 DEF ShapeInv, PhaseInv
<1>5. fd[a] = None => fd[a] # <<"main", "jobs">> /\ fd[a] # <<"temp", "jobs">>
  BY FileCronAssumption
<1>. QED BY <1>1, <1>2, <1>3, <1>4, <1>5, WriteFacts

\* save opens the temporary file, ...
LEMMA SaveTruncateFacts ==
    ASSUME ShapeInv, NEW c \in Commands, SaveTruncate(c)
    PROVE  /\ c \in Actors /\ pc[c] = "saveTrunc" /\ pc'[c] = "saveWrite"
           /\ \A x \in Actors \ {c} : pc'[x] = pc[x] /\ fd'[x] = fd[x]
           /\ main' = main /\ temp'["jobs"] = Garbled /\ fd'[c] = <<"temp", "jobs">>
           /\ UNCHANGED <<input, buf, overlap, cutShort, commits>>
<1>1. FilesOK /\ ProcsOK /\ c \in Actors
  BY TypeParts DEF ShapeInv, Actors
<1>2. pc'[c] = "saveWrite" /\ \A x \in Actors \ {c} : pc'[x] = pc[x]
  BY <1>1, GoFacts DEF SaveTruncate
<1>. QED BY <1>1, <1>2, TruncateFacts DEF SaveTruncate

\* ... writes it, or what another process has made of it, ...
LEMMA SaveWriteFacts ==
    ASSUME ShapeInv, NEW c \in Commands, SaveWrite(c)
    PROVE  /\ c \in Actors /\ pc[c] = "saveWrite" /\ pc'[c] = "saveRename"
           /\ \A x \in Actors \ {c} : pc'[x] = pc[x] /\ fd'[x] = fd[x]
           /\ fd'[c] = None /\ fd[c] \in {None, <<"main", "jobs">>, <<"temp", "jobs">>}
           /\ fd[c] = None => main' = main /\ temp' = temp
           /\ fd[c] = <<"main", "jobs">> => temp' = temp /\ main'["jobs"] \in {buf[c], Garbled}
           /\ fd[c] = <<"temp", "jobs">> => main' = main /\ temp'["jobs"] \in {buf[c], Garbled}
                                            /\ (temp["jobs"] = Garbled => temp'["jobs"] = buf[c])
           /\ UNCHANGED <<input, buf, overlap, cutShort, commits>>
<1>1. FilesOK /\ ProcsOK /\ c \in Actors
  BY TypeParts DEF ShapeInv, Actors
<1>2. pc'[c] = "saveRename" /\ \A x \in Actors \ {c} : pc'[x] = pc[x]
  BY <1>1, GoFacts DEF SaveWrite
<1>3. pc[c] = "saveWrite" /\ Write(c, "jobs", buf[c]) /\ UNCHANGED <<input, buf, overlap, cutShort, commits>>
  BY DEF SaveWrite
<1>4. fd[c] \in {None, <<"main", "jobs">>, <<"temp", "jobs">>} /\ <<"main", "jobs">> # <<"temp", "jobs">>
  BY <1>3, <1>1 DEF ShapeInv, PhaseInv
<1>5. fd[c] = None => fd[c] # <<"main", "jobs">> /\ fd[c] # <<"temp", "jobs">>
  BY FileCronAssumption
<1>6. buf[c] \in SUBSET Jobs
  BY <1>1 DEF ProcsOK
<1>. QED BY <1>1, <1>2, <1>3, <1>4, <1>5, <1>6, WriteFacts

\* ... and renames it, if it is there.
LEMMA SaveRenameFacts ==
    ASSUME ShapeInv, NEW c \in Commands, SaveRename(c)
    PROVE  /\ c \in Actors /\ pc[c] = "saveRename" /\ fd'[c] = None
           /\ \A x \in Actors \ {c} : pc'[x] = pc[x] /\ buf'[x] = buf[x]
           /\ \/ /\ temp["jobs"] # Absent /\ pc'[c] = "done" /\ commits' = Append(commits, c)
                 /\ main'["jobs"] = temp["jobs"] /\ temp'["jobs"] = Absent
                 /\ \A x \in Actors : /\ fd[x] = <<"temp", "jobs">> => fd'[x] = <<"main", "jobs">>
                                      /\ fd[x] # <<"temp", "jobs">> => fd'[x] = None
              \/ temp["jobs"] = Absent /\ pc'[c] = "error" /\ UNCHANGED <<main, temp, fd, commits>>
           /\ UNCHANGED <<input, overlap, cutShort>>
<1>1. FilesOK /\ ProcsOK /\ c \in Actors
  BY TypeParts DEF ShapeInv, Actors
<1>2. pc[c] = "saveRename" /\ fd[c] = None /\ fd[c] # <<"temp", "jobs">>
  BY <1>1, FileCronAssumption DEF SaveRename, ShapeInv, PhaseInv
<1>3. UNCHANGED <<input, overlap, cutShort>> /\ \A x \in Actors \ {c} : buf'[x] = buf[x]
  BY <1>1 DEF SaveRename, ProcsOK
<1>4. CASE temp["jobs"] # Absent
  <2>1. Rename("jobs") /\ Go(c, "done") /\ commits' = Append(commits, c)
    BY <1>4 DEF SaveRename, CanRename
  <2>2. pc'[c] = "done" /\ \A x \in Actors \ {c} : pc'[x] = pc[x]
    BY <1>1, <2>1, GoFacts
  <2>. QED BY <1>1, <1>2, <1>3, <1>4, <2>1, <2>2, RenameFacts
<1>5. CASE temp["jobs"] = Absent
  <2>1. UNCHANGED <<main, temp, fd, commits>> /\ Go(c, "error")
    BY <1>5 DEF SaveRename, CanRename, fileVars
  <2>2. pc'[c] = "error" /\ \A x \in Actors \ {c} : pc'[x] = pc[x]
    BY <1>1, <2>1, GoFacts
  <2>. QED BY <1>1, <1>2, <1>3, <1>5, <2>1, <2>2
<1>. QED BY <1>4, <1>5

\* A process begins to change the file.
LEMMA BeginFacts ==
    ASSUME ShapeInv, NEW a \in Actors, Opens(a) \/ Edits(a)
    PROVE  /\ pc[a] \in {"idle", "opened"} /\ pc'[a] \in {"create", "saveTrunc"}
           /\ \A x \in Actors \ {a} : pc'[x] = pc[x] /\ buf'[x] = buf[x]
           /\ overlap \subseteq overlap'
           /\ \A x \in Actors \ {a} : pc[x] \in ChangePhase => a \in overlap' /\ x \in overlap'
           /\ Opens(a) => File = Absent /\ pc'[a] = "create"
           /\ Edits(a) => /\ Readable(File) /\ a \in Editors /\ pc[a] = "opened" /\ pc'[a] = "saveTrunc"
                          /\ buf'[a] = Edited(a, File)
           /\ UNCHANGED <<main, temp, fd, input, commits, cutShort>>
<1>1. ProcsOK
  BY TypeParts DEF ShapeInv
<1>2. CASE Opens(a)
  <2>1. pc'[a] = "create" /\ \A x \in Actors \ {a} : pc'[x] = pc[x]
    BY <1>1, <1>2, GoFacts DEF Opens
  <2>2. pc[a] = "idle" /\ File = Absent /\ ~Edits(a)
    BY <1>2 DEF Opens, Edits
  <2>. QED BY <1>2, <2>1, <2>2, EnterFacts DEF Opens
<1>3. CASE Edits(a)
  <2>1. pc'[a] = "saveTrunc" /\ \A x \in Actors \ {a} : pc'[x] = pc[x]
    BY <1>1, <1>3, GoFacts DEF Edits
  <2>2. pc[a] = "opened" /\ ~Opens(a)
    BY <1>3 DEF Opens, Edits
  <2>3. buf'[a] = Edited(a, File) /\ \A x \in Actors \ {a} : buf'[x] = buf[x]
    BY <1>1, <1>3 DEF Edits, ProcsOK
  <2>. QED BY <1>3, <2>1, <2>2, <2>3, EnterFacts DEF Edits
<1>. QED BY <1>2, <1>3

\* PhaseInv is kept.
LEMMA NextPhase == ShapeInv /\ FileStep => PhaseInv'
<1>. SUFFICES ASSUME ShapeInv, FileStep PROVE PhaseInv'
  OBVIOUS
<1>. USE DEF ChangePhase, SavePhase, Before, Ended, File
<1>a. PhaseInv /\ FilesOK /\ ProcsOK /\ Commands \subseteq Actors /\ Absent # Garbled
  BY TypeParts, FileCronAssumption DEF ShapeInv, Actors
<1>b. /\ \A jobs \in SUBSET Jobs : jobs # Absent
      /\ \A a \in Actors : buf[a] \in SUBSET Jobs
      /\ {} \in SUBSET Jobs
  BY <1>a, FileCronAssumption DEF ProcsOK
<1>1. CASE Aside
  BY <1>1, <1>a DEF Aside, PhaseInv, Editors
<1>2. ASSUME NEW a \in Actors, Opens(a) PROVE PhaseInv'
  <2>1. UNCHANGED <<main, fd, input, commits>> /\ pc[a] = "idle" /\ pc'[a] = "create" /\ \A x \in Actors \ {a} : pc'[x] = pc[x]
    BY <1>2, BeginFacts DEF Opens
  <2>. QED BY <1>a, <2>1 DEF PhaseInv, Editors
<1>3. ASSUME NEW c \in Commands, Edits(c) PROVE PhaseInv'
  <2>1. c \in Actors /\ UNCHANGED <<main, fd, input, commits>> /\ pc[c] = "opened" /\ pc'[c] = "saveTrunc" /\ c \in Editors
        /\ \A x \in Actors \ {c} : pc'[x] = pc[x]
    BY <1>3, <1>a, BeginFacts
  <2>. QED BY <1>a, <2>1 DEF PhaseInv, Editors
<1>4. ASSUME NEW a \in Actors, Create(a) PROVE PhaseInv'
  BY <1>4, <1>a, CreateFacts DEF PhaseInv, Editors
<1>5. ASSUME NEW a \in Actors, Fill(a) PROVE PhaseInv'
  <2>1. File' # Absent
    BY <1>5, <1>a, <1>b, FillFacts DEF PhaseInv
  <2>. QED BY <1>5, <1>a, <2>1, FillFacts DEF PhaseInv, Editors
<1>6. ASSUME NEW c \in Commands, SaveTruncate(c) PROVE PhaseInv'
  BY <1>6, <1>a, SaveTruncateFacts DEF PhaseInv, Editors
<1>7. ASSUME NEW c \in Commands, SaveWrite(c) PROVE PhaseInv'
  <2>1. File' # Absent
    BY <1>7, <1>a, <1>b, SaveWriteFacts DEF PhaseInv
  <2>. QED BY <1>7, <1>a, <2>1, SaveWriteFacts DEF PhaseInv, Editors
<1>8. ASSUME NEW c \in Commands, SaveRename(c) PROVE PhaseInv'
  <2>1. File' # Absent
    BY <1>8, <1>a, SaveRenameFacts DEF PhaseInv
  <2>. QED BY <1>8, <1>a, <2>1, SaveRenameFacts DEF PhaseInv, Editors
<1>. QED BY <1>1, <1>2, <1>3, <1>4, <1>5, <1>6, <1>7, <1>8 DEF FileStep

\* Overlaps are recorded.
LEMMA NextOverlap == ShapeInv /\ OverlapInv /\ FileStep => OverlapInv'
<1>. SUFFICES ASSUME ShapeInv, OverlapInv, FileStep PROVE OverlapInv'
  OBVIOUS
<1>. USE DEF ChangePhase, SavePhase
<1>1. ASSUME overlap \subseteq overlap', \A x \in Actors : pc'[x] \in ChangePhase => pc[x] \in ChangePhase
      PROVE  OverlapInv'
  BY <1>1 DEF OverlapInv
<1>2. CASE Aside
  <2>1. overlap \subseteq overlap' /\ \A x \in Actors : pc'[x] \in ChangePhase => pc[x] = pc'[x]
    BY <1>2 DEF Aside
  <2>. QED BY <1>1, <2>1
<1>3. ASSUME NEW a \in Actors, Opens(a) \/ Edits(a) PROVE OverlapInv'
  BY <1>3, BeginFacts DEF OverlapInv
<1>4. ASSUME NEW a \in Actors, Create(a) PROVE OverlapInv'
  BY <1>4, <1>1, CreateFacts
<1>5. ASSUME NEW a \in Actors, Fill(a) PROVE OverlapInv'
  BY <1>5, <1>1, FillFacts
<1>6. ASSUME NEW c \in Commands, SaveTruncate(c) PROVE OverlapInv'
  BY <1>6, <1>1, SaveTruncateFacts
<1>7. ASSUME NEW c \in Commands, SaveWrite(c) PROVE OverlapInv'
  BY <1>7, <1>1, SaveWriteFacts
<1>8. ASSUME NEW c \in Commands, SaveRename(c) PROVE OverlapInv'
  BY <1>8, <1>1, SaveRenameFacts
<1>. QED BY <1>2, <1>3, <1>4, <1>5, <1>6, <1>7, <1>8 DEF FileStep, Actors

\* Who is not on record has the file for itself.
LEMMA NextAlone == ShapeInv /\ OverlapInv /\ AloneInv /\ FileStep => AloneInv'
<1>. SUFFICES ASSUME ShapeInv, OverlapInv, AloneInv, FileStep PROVE AloneInv'
  OBVIOUS
<1>. USE DEF ChangePhase, SavePhase, File
<1>a. PhaseInv /\ Commands \subseteq Actors
  BY DEF ShapeInv, Actors
\* Another process that works on the file is on record.
<1>b. ASSUME NEW a \in Actors, pc[a] \in ChangePhase, overlap' = overlap,
             \A x \in Actors \ {a} : pc'[x] = pc[x]
      PROVE  \A x \in Actors \ overlap' : x # a => pc'[x] \notin ChangePhase
  BY <1>b DEF OverlapInv
<1>1. CASE Aside
  BY <1>1 DEF Aside, AloneInv
<1>2. ASSUME NEW a \in Actors, Opens(a) \/ Edits(a) PROVE AloneInv'
  BY <1>2, BeginFacts DEF AloneInv
<1>3. ASSUME NEW a \in Actors, Create(a) PROVE AloneInv'
  BY <1>3, <1>b, CreateFacts DEF AloneInv
<1>4. ASSUME NEW a \in Actors, Fill(a) PROVE AloneInv'
  BY <1>4, <1>b, FillFacts DEF AloneInv
<1>5. ASSUME NEW c \in Commands, SaveTruncate(c) PROVE AloneInv'
  BY <1>5, <1>b, SaveTruncateFacts DEF AloneInv
<1>6. ASSUME NEW c \in Commands, SaveWrite(c) PROVE AloneInv'
  <2>1. c \notin overlap => temp'["jobs"] = buf'[c]
    BY <1>6, SaveWriteFacts DEF AloneInv
  <2>. QED BY <1>6, <1>b, <2>1, SaveWriteFacts DEF AloneInv
<1>7. ASSUME NEW c \in Commands, SaveRename(c) PROVE AloneInv'
  BY <1>7, <1>b, SaveRenameFacts DEF AloneInv
<1>. QED BY <1>1, <1>2, <1>3, <1>4, <1>5, <1>6, <1>7 DEF FileStep, Actors

\* The file parses, and nothing has failed, but for a reason.
LEMMA NextCause == ShapeInv /\ AloneInv /\ CauseInv /\ FileStep => CauseInv'
<1>. SUFFICES ASSUME ShapeInv, AloneInv, CauseInv, FileStep PROVE CauseInv'
  OBVIOUS
<1>. USE DEF ChangePhase, SavePhase, File, Excuse
<1>a. /\ PhaseInv /\ Commands \subseteq Actors
      /\ \A jobs \in SUBSET Jobs : jobs # Absent /\ jobs # Garbled
      /\ \A a \in Actors : buf[a] \in SUBSET Jobs
      /\ {} \in SUBSET Jobs
  BY TypeParts, FileCronAssumption DEF ShapeInv, Actors, ProcsOK
<1>1. CASE Aside
  BY <1>1 DEF Aside, CauseInv
<1>2. ASSUME NEW a \in Actors, Opens(a) \/ Edits(a) PROVE CauseInv'
  BY <1>2, BeginFacts DEF CauseInv
<1>3. ASSUME NEW a \in Actors, Create(a) PROVE CauseInv'
  BY <1>3, CreateFacts DEF CauseInv
<1>4. ASSUME NEW a \in Actors, Fill(a) PROVE CauseInv'
  <2>1. ASSUME a \notin overlap PROVE File' # Garbled
    <3>1. fd[a] = <<"main", "jobs">> /\ main["jobs"] = Garbled
      BY <1>4, <2>1, FillFacts DEF AloneInv
    <3>2. main'["jobs"] = {}
      <4>1. fd[a] # None
        BY <3>1, FileCronAssumption
      <4>. QED BY <1>4, <3>1, <4>1, FillFacts
    <3>. QED BY <1>a, <3>2
  <2>2. ASSUME a \in overlap PROVE overlap' # {}
    BY <1>4, <2>2, FillFacts
  <2>. QED BY <1>4, <2>1, <2>2, FillFacts DEF CauseInv
<1>5. ASSUME NEW c \in Commands, SaveTruncate(c) PROVE CauseInv'
  BY <1>5, SaveTruncateFacts DEF CauseInv
<1>6. ASSUME NEW c \in Commands, SaveWrite(c) PROVE CauseInv'
  <2>1. c \in overlap \/ main' = main
    BY <1>6, SaveWriteFacts DEF AloneInv
  <2>. QED BY <1>6, <2>1, SaveWriteFacts DEF CauseInv
<1>7. ASSUME NEW c \in Commands, SaveRename(c) PROVE CauseInv'
  <2>1. CASE c \in overlap
    BY <1>7, <2>1, SaveRenameFacts DEF CauseInv
  <2>2. CASE c \notin overlap
    <3>1. temp["jobs"] = buf[c] /\ buf[c] \in SUBSET Jobs /\ c \in Actors
      BY <1>7, <1>a, <2>2, SaveRenameFacts DEF AloneInv
    <3>2. temp["jobs"] # Absent /\ temp["jobs"] # Garbled
      BY <1>a, <3>1
    <3>3. pc'[c] = "done" /\ File' # Garbled /\ UNCHANGED <<overlap, cutShort>> /\ \A x \in Actors \ {c} : pc'[x] = pc[x]
      BY <1>7, <3>2, SaveRenameFacts
    <3>. QED BY <3>3 DEF CauseInv
  <2>. QED BY <2>1, <2>2
<1>. QED BY <1>1, <1>2, <1>3, <1>4, <1>5, <1>6, <1>7 DEF FileStep, Actors

\* As long as nobody is on record, an acknowledged edit leaves a file that
\* parses, and it is not created once more.
LEMMA NextSpoilt == ShapeInv /\ AloneInv /\ AckedInv /\ SpoiltInv /\ FileStep => SpoiltInv'
<1>. SUFFICES ASSUME ShapeInv, AloneInv, AckedInv, SpoiltInv, FileStep, overlap' = {} PROVE SpoiltInv'
  BY DEF SpoiltInv
<1>. USE DEF ChangePhase, SavePhase, File
<1>a. /\ Commands \subseteq Actors /\ commits \in Seq(Commands)
      /\ \A jobs \in SUBSET Jobs : jobs # Garbled
      /\ \A a \in Actors : buf[a] \in SUBSET Jobs
      /\ {} \in SUBSET Jobs
  BY TypeParts, FileCronAssumption DEF ShapeInv, Actors, ProcsOK
<1>1. CASE Aside
  BY <1>1 DEF Aside, SpoiltInv
<1>2. ASSUME NEW a \in Actors, Opens(a) \/ Edits(a) PROVE SpoiltInv'
  BY <1>2, BeginFacts DEF SpoiltInv
<1>3. ASSUME NEW a \in Actors, Create(a) PROVE SpoiltInv'
  <2>1. overlap = {} /\ commits' = commits /\ pc[a] = "create"
    BY <1>3, CreateFacts
  <2>2. \A n \in 1..Len(commits) : commits[n] \in overlap
    BY <2>1 DEF AckedInv
  <2>3. Len(commits) = 0
    <3>1. Len(commits) \in Nat /\ \A n \in 1..Len(commits) : FALSE
      BY <1>a, <2>1, <2>2
    <3>2. ASSUME Len(commits) # 0 PROVE FALSE
      <4>1. 1 \in 1..Len(commits)
        BY <3>1, <3>2
      <4>. QED BY <3>1, <4>1
    <3>. QED BY <3>2
  <2>. QED BY <2>1, <2>3 DEF SpoiltInv
<1>4. ASSUME NEW a \in Actors, Fill(a) PROVE SpoiltInv'
  <2>0. overlap = {} /\ pc[a] = "fill"
    BY <1>4, FillFacts
  <2>1. overlap = {} /\ fd[a] = <<"main", "jobs">> /\ main["jobs"] = Garbled /\ fd[a] # None
    BY <2>0, FileCronAssumption DEF AloneInv
  <2>2. main'["jobs"] = {}
    BY <1>4, <2>1, FillFacts
  <2>. QED BY <1>a, <2>2 DEF SpoiltInv
<1>5. ASSUME NEW c \in Commands, SaveTruncate(c) PROVE SpoiltInv'
  BY <1>5, SaveTruncateFacts DEF SpoiltInv
<1>6. ASSUME NEW c \in Commands, SaveWrite(c) PROVE SpoiltInv'
  <2>1. overlap = {} /\ main' = main /\ commits' = commits
    BY <1>6, SaveWriteFacts DEF AloneInv
  <2>. QED BY <2>1 DEF SpoiltInv
<1>7. ASSUME NEW c \in Commands, SaveRename(c) PROVE SpoiltInv'
  <2>1. overlap = {} /\ temp["jobs"] = buf[c] /\ buf[c] \in SUBSET Jobs
    BY <1>7, <1>a, SaveRenameFacts DEF AloneInv
  <2>2. temp["jobs"] # Garbled
    BY <1>a, <2>1
  <2>. QED BY <1>7, <2>1, <2>2, SaveRenameFacts DEF SpoiltInv
<1>. QED BY <1>1, <1>2, <1>3, <1>4, <1>5, <1>6, <1>7 DEF FileStep, Actors

\* Enter puts a process on record together with those it met.
LEMMA NextPair == PairInv /\ [Next]_vars => PairInv'
<1>. SUFFICES ASSUME PairInv, [Next]_vars PROVE PairInv'
  OBVIOUS
<1>1. ASSUME NEW a, Enter(a) PROVE PairInv'
  <2>1. CASE Changing \ {a} = {}
    BY <1>1, <2>1 DEF Enter, PairInv
  <2>2. CASE Changing \ {a} # {}
    <3>1. PICK b \in Changing : b # a
      BY <2>2
    <3>. QED BY <1>1, <2>2, <3>1 DEF Enter, PairInv
  <2>. QED BY <2>1, <2>2
<1>2. CASE Reads
  <2>1. UNCHANGED overlap \/ \E a : Enter(a)
    BY <1>2 DEF Reads, OpenStore, Operate, Refuse, LoadFails, ListJobs, FireNow, Edit, FireNowReturns, StartList,
       StartAdd, TakeSignal, ReloadList, RemoveEntries, ReloadAdd, StopDone, Tick, Restart, FireReturns, Signal,
       List, AddEntries, vars, histVars
  <2>. QED BY <1>1, <2>1 DEF PairInv
<1>3. ASSUME NEW a \in Actors, Crash(a) \/ Create(a) \/ Fill(a) \/ SaveTruncate(a) \/ SaveWrite(a) \/ SaveRename(a)
      PROVE  PairInv'
  <2>1. UNCHANGED overlap
    BY <1>3 DEF Crash, Create, Fill, SaveTruncate, SaveWrite, SaveRename
  <2>. QED BY <2>1 DEF PairInv
<1>. QED BY <1>2, <1>3, StepKinds DEF Actors

\* Nobody is on record.
Calm == overlap = {} /\ ~cutShort

\* The first two parts of LastingInv.
PlansKept ==
    /\ \A x \in Actors : pc[x] = "create" => File = Absent
    /\ \A x \in Actors : pc[x] \in SavePhase =>
          Parses("jobs") /\ \A j \in File : j.id # Subject(x) => j \in buf[x]

\* A step at the end of which nobody is on record takes no job from the file
\* but by an acknowledged edit, and leaves the plans of others valid.
LEMMA CalmStep ==
    ASSUME ShapeInv, OverlapInv, AloneInv, LastingInv, FileStep, Calm'
    PROVE  Calm /\ PlansKept' /\ \A j \in Jobs : Lasting(j) => Lasting(j)'
<1>. USE DEF ChangePhase, SavePhase, File, Parses
<1>a. /\ FilesOK /\ ProcsOK /\ PhaseInv /\ Commands \subseteq Actors
      /\ Absent # Garbled /\ \A jobs \in SUBSET Jobs : jobs # Absent /\ jobs # Garbled
  BY TypeParts, FileCronAssumption DEF ShapeInv, Actors
<1>b. Calm
  <2>1. overlap \subseteq overlap' /\ (cutShort => cutShort')
    <3>1. ASSUME NEW a \in Actors, Opens(a) \/ Edits(a) PROVE overlap \subseteq overlap' /\ cutShort' = cutShort
      BY <3>1, BeginFacts
    <3>. QED BY <1>a, <3>1, CreateFacts, FillFacts, SaveTruncateFacts, SaveWriteFacts, SaveRenameFacts DEF FileStep, Aside
  <2>. QED BY <2>1 DEF Calm
<1>c. PlansKept
  BY <1>b DEF LastingInv, Calm, PlansKept
\* Only one process works on the file, ...
<1>d. \A a, b \in Actors : pc[a] \in ChangePhase /\ pc[b] \in ChangePhase => a = b
  BY <1>b DEF Calm, OverlapInv
<1>e. \A a \in Actors : a \notin overlap
  BY <1>b DEF Calm
\* ... and jobs stay where it leaves the file alone.
<1>f. ASSUME main' = main, commits' = commits, input' = input PROVE \A j \in Jobs : Lasting(j) => Lasting(j)'
  BY <1>f DEF Lasting, Subject
<1>1. CASE Aside
  <2>1. PlansKept'
    BY <1>1, <1>c DEF Aside, PlansKept, Subject
  <2>. QED BY <1>1, <1>b, <1>f, <2>1 DEF Aside
<1>2. ASSUME NEW a \in Actors, Opens(a) PROVE PlansKept' /\ \A j \in Jobs : Lasting(j) => Lasting(j)'
  <2>1. UNCHANGED <<main, input, buf, commits>> /\ File = Absent /\ pc'[a] = "create" /\ \A x \in Actors \ {a} : pc'[x] = pc[x]
    BY <1>2, BeginFacts DEF Opens
  <2>2. PlansKept'
    BY <1>c, <2>1 DEF PlansKept, Subject
  <2>. QED BY <1>f, <2>1, <2>2
<1>3. ASSUME NEW c \in Commands, Edits(c) PROVE PlansKept' /\ \A j \in Jobs : Lasting(j) => Lasting(j)'
  <2>1. /\ c \in Actors /\ UNCHANGED <<main, input, commits>> /\ pc'[c] = "saveTrunc"
        /\ \A x \in Actors \ {c} : pc'[x] = pc[x] /\ buf'[x] = buf[x]
        /\ buf'[c] = Edited(c, File) /\ Readable(File) /\ c \in Editors
    BY <1>3, <1>a, BeginFacts DEF Edits
  <2>2. \A j \in File : j.id # Subject(c) => j \in Edited(c, File)
    BY <2>1 DEF Edited, Subject, Editors
  <2>3. PlansKept'
    BY <1>c, <2>1, <2>2 DEF PlansKept, Subject, Readable
  <2>. QED BY <1>f, <2>1, <2>3
<1>4. ASSUME NEW a \in Actors, Create(a) PROVE PlansKept' /\ \A j \in Jobs : Lasting(j) => Lasting(j)'
  <2>1. /\ pc[a] = "create" /\ pc'[a] = "fill" /\ \A x \in Actors \ {a} : pc'[x] = pc[x]
        /\ UNCHANGED <<input, commits>> /\ File = Absent
    BY <1>4, <1>c, CreateFacts DEF PlansKept
  <2>2. PlansKept'
    BY <1>d, <2>1 DEF PlansKept
  <2>3. \A j \in Jobs : Lasting(j) => Lasting(j)'
    BY <2>1 DEF Lasting, Subject
  <2>. QED BY <2>2, <2>3
<1>5. ASSUME NEW a \in Actors, Fill(a) PROVE PlansKept' /\ \A j \in Jobs : Lasting(j) => Lasting(j)'
  <2>1. /\ pc[a] = "fill" /\ pc'[a] = "opened" /\ \A x \in Actors \ {a} : pc'[x] = pc[x]
        /\ UNCHANGED <<input, commits>> /\ File = Garbled
    BY <1>5, <1>e, FillFacts DEF AloneInv
  <2>2. PlansKept'
    BY <1>d, <2>1 DEF PlansKept
  <2>3. \A j \in Jobs : Lasting(j) => Lasting(j)'
    BY <2>1 DEF Lasting, Subject
  <2>. QED BY <2>2, <2>3
<1>6. ASSUME NEW c \in Commands, SaveTruncate(c) \/ SaveWrite(c)
      PROVE PlansKept' /\ \A j \in Jobs : Lasting(j) => Lasting(j)'
  <2>1. /\ c \in Actors /\ pc[c] \in SavePhase /\ pc'[c] \in SavePhase /\ \A x \in Actors \ {c} : pc'[x] = pc[x]
        /\ UNCHANGED <<input, commits, buf>>
    BY <1>6, SaveTruncateFacts, SaveWriteFacts
  <2>2. main' = main
    BY <1>6, <1>e, SaveTruncateFacts, SaveWriteFacts DEF AloneInv
  <2>3. PlansKept'
    BY <1>c, <2>1, <2>2 DEF PlansKept, Subject
  <2>. QED BY <1>f, <2>1, <2>2, <2>3
<1>7. ASSUME NEW c \in Commands, SaveRename(c) PROVE PlansKept' /\ \A j \in Jobs : Lasting(j) => Lasting(j)'
  <2>1. c \in Actors /\ pc[c] = "saveRename" /\ temp["jobs"] = buf[c] /\ buf[c] \in SUBSET Jobs
    BY <1>7, <1>a, <1>e, SaveRenameFacts DEF AloneInv, ProcsOK
  <2>2. /\ main'["jobs"] = buf[c] /\ input' = input /\ commits' = Append(commits, c)
        /\ pc'[c] = "done" /\ \A x \in Actors \ {c} : pc'[x] = pc[x]
    BY <1>7, <1>a, <2>1, SaveRenameFacts
  <2>3. PlansKept'
    BY <1>d, <2>1, <2>2 DEF PlansKept
  <2>4. commits \in Seq(Commands)
    BY <1>a DEF ProcsOK
  <2>5. /\ Len(commits) \in Nat /\ Len(commits') = Len(commits) + 1 /\ commits'[Len(commits) + 1] = c
        /\ \A n \in 1..Len(commits) : commits'[n] = commits[n]
    BY <2>2, <2>4
  <2>6. ASSUME NEW j \in Jobs, Lasting(j) PROVE Lasting(j)'
    <3>1. CASE j \in File /\ Parses("jobs") /\ j.id # Subject(c)
      <4>1. j \in buf[c]
        BY <1>c, <2>1, <3>1 DEF PlansKept
      <4>2. main'["jobs"] # Absent /\ main'["jobs"] # Garbled
        BY <1>a, <2>1, <2>2
      <4>. QED BY <2>2, <4>1, <4>2 DEF Lasting
    <3>2. CASE j.id = Subject(c)
      <4>1. Len(commits) + 1 \in 1..Len(commits') /\ SubjectOf(input', commits'[Len(commits) + 1]) = j.id
        BY <2>2, <2>5, <3>2 DEF Subject, SubjectOf
      <4>. QED BY <4>1 DEF Lasting, Subject, SubjectOf
    <3>3. CASE \E n \in 1..Len(commits) : Subject(commits[n]) = j.id
      <4>1. PICK n \in 1..Len(commits) : Subject(commits[n]) = j.id
        BY <3>3
      <4>2. n \in 1..Len(commits') /\ commits'[n] = commits[n]
        BY <2>5
      <4>3. SubjectOf(input', commits'[n]) = j.id
        BY <2>2, <4>1, <4>2 DEF Subject, SubjectOf
      <4>. QED BY <4>2, <4>3 DEF Lasting, Subject, SubjectOf
    <3>. QED BY <2>6, <3>1, <3>2, <3>3 DEF Lasting
  <2>. QED BY <2>3, <2>6
<1>. QED BY <1>b, <1>1, <1>2, <1>3, <1>4, <1>5, <1>6, <1>7 DEF FileStep

\* How the daemon comes to register jobs at its start, and to fail.
Starting ==
    /\ pc'[Daemon] = "startAdd" =>
          \/ pc[Daemon] = "startAdd" /\ buf'[Daemon] = buf[Daemon]
          \/ Parses("jobs") /\ buf'[Daemon] = File /\ UNCHANGED <<main, input, commits>>
    /\ pc'[Daemon] = "error" =>
          \/ pc[Daemon] = "error" \/ ~Calm'
          \/ pc[Daemon] = "startAdd" /\ \E j \in buf[Daemon] : j.sched = Invalid

\* There is no other way.
LEMMA StartSteps == ShapeInv /\ CauseInv /\ [Next]_vars => Starting
<1>. SUFFICES ASSUME ShapeInv, CauseInv, [Next]_vars PROVE Starting
  OBVIOUS
<1>a. ProcsOK /\ EngineOK /\ Daemon \in Actors /\ Commands \subseteq Actors /\ Daemon \notin Commands
  BY TypeParts, FileCronAssumption DEF ShapeInv, Actors
<1>b. ASSUME NEW where, Go(Daemon, where), where \notin {"startAdd", "error"} PROVE Starting
  BY <1>a, <1>b, GoFacts DEF Starting
<1>c. ASSUME pc'[Daemon] = pc[Daemon], buf'[Daemon] = buf[Daemon] PROVE Starting
  BY <1>c DEF Starting
<1>d. ASSUME NEW a \in Actors \ {Daemon}, NEW where, Go(a, where), buf' = buf \/ \E v : buf' = [buf EXCEPT ![a] = v] PROVE Starting
  <2>1. pc'[Daemon] = pc[Daemon]
    BY <1>a, <1>d, GoFacts
  <2>2. buf'[Daemon] = buf[Daemon]
    BY <1>a, <1>d DEF ProcsOK
  <2>. QED BY <1>c, <2>1, <2>2
<1>1. ASSUME NEW a \in Actors, OpenStore(a) PROVE Starting
  <2>1. PICK where \in {"create", "opened"} : Go(a, where)
    BY <1>1 DEF OpenStore
  <2>2. buf' = buf
    BY <1>1 DEF OpenStore
  <2>. QED BY <1>b, <1>d, <2>1, <2>2
<1>2. ASSUME NEW c \in Commands, Operate(c) PROVE Starting
  <2>1. c \in Actors \ {Daemon}
    BY <1>a
  <2>2. \E where : Go(c, where)
    BY <1>2 DEF Operate, Refuse, LoadFails, ListJobs, FireNow, Edit
  <2>3. buf' = buf \/ \E v : buf' = [buf EXCEPT ![c] = v]
    BY <1>2 DEF Operate, Refuse, LoadFails, ListJobs, FireNow, Edit
  <2>. QED BY <1>d, <2>1, <2>2, <2>3
<1>3. ASSUME NEW c \in Commands, FireNowReturns(c) \/ SaveTruncate(c) \/ SaveWrite(c) \/ SaveRename(c) PROVE Starting
  <2>1. c \in Actors \ {Daemon}
    BY <1>a
  <2>2. \E where : Go(c, where)
    BY <1>3 DEF FireNowReturns, SaveTruncate, SaveWrite, SaveRename
  <2>3. buf' = buf \/ \E v : buf' = [buf EXCEPT ![c] = v]
    BY <1>3 DEF FireNowReturns, SaveTruncate, SaveWrite, SaveRename
  <2>. QED BY <1>d, <2>1, <2>2, <2>3
<1>4. ASSUME NEW a \in Actors, Create(a) \/ Fill(a) PROVE Starting
  <2>1. PICK where \in {"fill", "opened"} : Go(a, where)
    BY <1>4 DEF Create, Fill
  <2>2. buf' = buf
    BY <1>4 DEF Create, Fill
  <2>. QED BY <1>b, <1>d, <2>1, <2>2
<1>5. CASE StartList
  <2>1. pc[Daemon] = "opened" /\ UNCHANGED <<main, input, commits, cutShort>>
    BY <1>5 DEF StartList, List, fileVars
  <2>2. CASE Parses("jobs")
    <3>1. pc'[Daemon] = "startAdd" /\ buf'[Daemon] = File
      BY <1>5, <1>a, <2>2, GoFacts DEF StartList, List, ProcsOK
    <3>. QED BY <2>1, <2>2, <3>1 DEF Starting
  <2>3. CASE ~Parses("jobs")
    <3>1. Enter(Daemon) /\ pc'[Daemon] = "error"
      BY <1>5, <1>a, <2>3, GoFacts DEF StartList, List
    <3>2. ~Calm'
      BY <1>a, <2>1, <2>3, <3>1, Unreadable DEF Calm, Before, ChangePhase, SavePhase, Ended
    <3>. QED BY <3>1, <3>2 DEF Starting
  <2>. QED BY <2>2, <2>3
<1>6. CASE StartAdd
  <2>1. /\ pc[Daemon] = "startAdd"
        /\ Go(Daemon, "running") \/ (Go(Daemon, "error") /\ \E j \in buf[Daemon] : j.sched = Invalid)
    BY <1>6, <1>a, AddFacts DEF StartAdd
  <2>2. CASE Go(Daemon, "running")
    BY <1>b, <2>2
  <2>3. CASE Go(Daemon, "error") /\ \E j \in buf[Daemon] : j.sched = Invalid
    BY <1>a, <2>1, <2>3, GoFacts DEF Starting
  <2>. QED BY <2>1, <2>2, <2>3
<1>7. CASE ReloadList \/ ReloadAdd \/ TakeSignal \/ RemoveEntries \/ StopDone \/ Restart
  <2>1. PICK where \in {"remove", "running", "list", "stopping", "add", "exited", "idle"} : Go(Daemon, where)
    BY <1>7 DEF ReloadList, ReloadAdd, List, AddEntries, TakeSignal, RemoveEntries, StopDone, Restart
  <2>. QED BY <1>b, <2>1
<1>8. CASE Tick \/ (\E j \in Jobs : FireReturns(j)) \/ (\E s \in {"HUP", "TERM"} : Signal(s)) \/ UNCHANGED vars
  BY <1>8, <1>c DEF Tick, FireReturns, Signal, vars
<1>9. ASSUME NEW a \in Actors, Crash(a) PROVE Starting
  BY <1>9, <1>b, <1>d DEF Crash
<1>. QED BY <1>1, <1>2, <1>3, <1>4, <1>5, <1>6, <1>7, <1>8, <1>9, StepKinds DEF Reads

\* What the daemon may stumble over is in the file, or was edited away.
LEMMA NextLasting ==
    ShapeInv /\ OverlapInv /\ AloneInv /\ CauseInv /\ LastingInv /\ [Next]_vars => LastingInv'
<1>. SUFFICES ASSUME ShapeInv, OverlapInv, AloneInv, CauseInv, LastingInv, [Next]_vars, Calm' PROVE LastingInv'
  BY DEF LastingInv, Calm
<1>1. Calm /\ PlansKept' /\ (\A j \in Jobs : Lasting(j) => Lasting(j)') /\ Starting
  BY FileSteps, CalmStep, StartSteps
<1>2. buf[Daemon] \in SUBSET Jobs
  BY TypeParts DEF ShapeInv, ProcsOK, Actors
<1>3. /\ pc[Daemon] = "startAdd" => \A j \in buf[Daemon] : Lasting(j)
      /\ pc[Daemon] = "error" => \E j \in Jobs : j.sched = Invalid /\ Lasting(j)
  BY <1>1 DEF LastingInv, Calm
<1>4. ASSUME pc'[Daemon] = "startAdd" PROVE \A j \in buf'[Daemon] : Lasting(j)'
  <2>1. CASE pc[Daemon] = "startAdd" /\ buf'[Daemon] = buf[Daemon]
    BY <1>1, <1>2, <1>3, <2>1
  <2>2. CASE Parses("jobs") /\ buf'[Daemon] = File /\ UNCHANGED <<main, input, commits>>
    BY <2>2 DEF Lasting, Parses, File
  <2>. QED BY <1>1, <1>4, <2>1, <2>2 DEF Starting
<1>5. ASSUME pc'[Daemon] = "error" PROVE \E j \in Jobs : j.sched = Invalid /\ Lasting(j)'
  <2>1. \E j \in Jobs : j.sched = Invalid /\ Lasting(j)
    BY <1>1, <1>2, <1>3, <1>5 DEF Starting
  <2>. QED BY <1>1, <2>1
<1>. QED BY <1>1, <1>4, <1>5 DEF LastingInv, PlansKept, SavePhase
-----------------------------------------------------------------------------
\* Settled jobs stay in the file, in the list of a Reload, and scheduled.
LEMMA NextSettled == ShapeInv /\ SettledInv /\ [Next]_vars => SettledInv'
<1>. SUFFICES ASSUME ShapeInv, SettledInv, [Next]_vars PROVE SettledInv'
  OBVIOUS
<1>. USE DEF File, Parses
<1>a. /\ FilesOK /\ ProcsOK /\ EngineOK /\ Daemon \in Actors /\ Commands \subseteq Actors /\ Daemon \notin Commands
      /\ \A j \in Jobs : j.id \in Ids
  BY TypeParts, FileCronAssumption DEF ShapeInv, Actors, Ids
\* Steps that do not concern the daemon's list and entries.
<1>b. ASSUME entries' = entries, settled' \subseteq settled, buf'[Daemon] = buf[Daemon],
             settled' # {} => Parses("jobs")' /\ settled' \subseteq File',
             pc'[Daemon] = pc[Daemon] \/ pc'[Daemon] \notin {"running", "list", "remove", "add"}
                \/ (pc[Daemon] = "running" /\ pc'[Daemon] = "list")
      PROVE  SettledInv'
  BY <1>b DEF SettledInv, SettledStaysScheduled, Running
<1>c. \A where : \A a \in Actors \ {Daemon} : Go(a, where) => pc'[Daemon] = pc[Daemon]
  BY <1>a, GoFacts
<1>d. \A where : Go(Daemon, where) => pc'[Daemon] = where
  BY <1>a, GoFacts
<1>e. \A c \in Commands : c \in Actors \ {Daemon}
  BY <1>a
<1>f. settled # {} => Parses("jobs") /\ settled \subseteq File
  BY DEF SettledInv
<1>1. ASSUME NEW a \in Actors, OpenStore(a) PROVE SettledInv'
  <2>1. pc'[Daemon] = pc[Daemon] \/ pc'[Daemon] \notin {"running", "list", "remove", "add"}
    BY <1>1, <1>c, <1>d DEF OpenStore
  <2>. QED BY <1>1, <1>b, <1>f, <2>1 DEF OpenStore, fileVars, daemonVars
<1>2. ASSUME NEW a \in Actors, Create(a) \/ Fill(a) PROVE SettledInv'
  <2>1. pc'[Daemon] = pc[Daemon] \/ pc'[Daemon] \notin {"running", "list", "remove", "add"}
    BY <1>2, <1>c, <1>d DEF Create, Fill
  <2>2. Follow /\ UNCHANGED <<entries, buf>>
    BY <1>2 DEF Create, Fill, daemonVars
  <2>. QED BY <1>b, <2>1, <2>2 DEF Follow
<1>3. ASSUME NEW c \in Commands, SaveTruncate(c) \/ SaveWrite(c) \/ SaveRename(c) PROVE SettledInv'
  <2>1. pc'[Daemon] = pc[Daemon]
    BY <1>3, <1>c, <1>e DEF SaveTruncate, SaveWrite, SaveRename
  <2>2. Follow /\ UNCHANGED entries /\ buf'[Daemon] = buf[Daemon]
    BY <1>3, <1>a DEF SaveTruncate, SaveWrite, SaveRename, daemonVars, ProcsOK
  <2>. QED BY <1>b, <2>1, <2>2 DEF Follow
<1>4. ASSUME NEW c \in Commands, Operate(c) \/ FireNowReturns(c) PROVE SettledInv'
  <2>1. pc'[Daemon] = pc[Daemon]
    BY <1>4, <1>c, <1>e DEF Operate, Refuse, LoadFails, ListJobs, FireNow, Edit, FireNowReturns
  <2>2. UNCHANGED <<entries, main, settled>> /\ buf'[Daemon] = buf[Daemon]
    BY <1>4, <1>a DEF Operate, Refuse, LoadFails, ListJobs, FireNow, Edit, FireNowReturns, daemonVars, fileVars, histVars, ProcsOK
  <2>. QED BY <1>b, <1>f, <2>1, <2>2
<1>5. CASE StartList
  <2>1. pc'[Daemon] \in {"startAdd", "error"} /\ UNCHANGED <<main, settled>>
    BY <1>5, <1>d DEF StartList, List, fileVars
  <2>. QED BY <1>f, <2>1 DEF SettledInv, SettledStaysScheduled, Running
<1>6. CASE ReloadList
  <2>1. UNCHANGED <<main, settled, entries>> /\ pc[Daemon] = "list"
    BY <1>6 DEF ReloadList, List, fileVars
  <2>2. \/ pc'[Daemon] = "remove" /\ buf'[Daemon] = File
        \/ pc'[Daemon] = "running"
    BY <1>6, <1>a, <1>d DEF ReloadList, List, ProcsOK
  <2>. QED BY <1>f, <2>1, <2>2 DEF SettledInv, SettledStaysScheduled, Running
<1>7. ASSUME NEW from, NEW onError \in {"error", "running"}, AddEntries(from, onError) PROVE SettledInv'
  <2>1. pc'[Daemon] \in {"running", "error"} /\ main' = main
    BY <1>7, <1>d DEF AddEntries, fileVars
  <2>2. settled' \subseteq (IF Parses("jobs") THEN File ELSE {}) /\ \A j \in settled' : entries'[j.id] = j
    BY <1>7, <1>a, AddFacts
  <2>. QED BY <2>1, <2>2 DEF SettledInv, SettledStaysScheduled, Running
<1>8. CASE TakeSignal
  <2>1. pc'[Daemon] \in {"list", "stopping"} /\ pc[Daemon] = "running"
    BY <1>8, <1>d DEF TakeSignal
  <2>. QED BY <1>8, <1>b, <1>f, <2>1 DEF TakeSignal, fileVars, histVars
<1>9. CASE RemoveEntries
  <2>1. pc[Daemon] = "remove" /\ pc'[Daemon] = "add" /\ UNCHANGED <<main, settled, buf>>
    BY <1>9, <1>d DEF RemoveEntries, fileVars, histVars
  <2>2. ASSUME NEW j \in settled PROVE entries'[j.id] = j
    <3>1. j \in buf[Daemon] /\ entries[j.id] = j /\ j \in Jobs
      BY <2>1, <1>a DEF SettledInv, SettledStaysScheduled, Running, EngineOK
    <3>2. j.id \in Ids /\ j # None /\ j.sched # Invalid
      BY <1>a, <3>1, FileCronAssumption DEF EngineOK
    <3>3. Keeps(j.id)
      BY <3>1, <3>2 DEF Keeps, SameSchedule
    <3>. QED BY <1>9, <3>1, <3>2, <3>3 DEF RemoveEntries
  <2>. QED BY <1>f, <2>1, <2>2 DEF SettledInv, SettledStaysScheduled
<1>10. CASE StopDone \/ Restart
  <2>1. pc'[Daemon] \in {"exited", "idle"} /\ main' = main /\ settled' \subseteq settled
    BY <1>10, <1>d DEF StopDone, Restart, fileVars, histVars
  <2>. QED BY <1>f, <2>1 DEF SettledInv, SettledStaysScheduled, Running
<1>11. CASE Tick \/ (\E j \in Jobs : FireReturns(j)) \/ (\E s \in {"HUP", "TERM"} : Signal(s)) \/ UNCHANGED vars
  <2>1. UNCHANGED <<main, pc, buf, entries, settled>>
    BY <1>11 DEF Tick, FireReturns, Signal, vars, fileVars, daemonVars, histVars
  <2>. QED BY <1>b, <1>f, <2>1
<1>12. ASSUME NEW a \in Actors, Crash(a) PROVE SettledInv'
  <2>1. CASE a = Daemon
    <3>1. settled' = {}
      BY <1>12, <2>1 DEF Crash
    <3>. QED BY <3>1 DEF SettledInv, SettledStaysScheduled
  <2>2. CASE a # Daemon
    <3>1. UNCHANGED <<main, entries, settled>> /\ buf'[Daemon] = buf[Daemon] /\ pc'[Daemon] = pc[Daemon]
      BY <1>12, <1>a, <1>c, <2>2 DEF Crash, daemonVars, ProcsOK
    <3>. QED BY <1>b, <1>f, <3>1
  <2>. QED BY <2>1, <2>2
<1>. QED BY <1>1, <1>2, <1>3, <1>4, <1>5, <1>6, <1>7, <1>8, <1>9, <1>10, <1>11, <1>12, StepKinds
   DEF Reads, StartAdd, ReloadAdd
-----------------------------------------------------------------------------
\* More overlaps promise less.
LEMMA KeepsGrow ==
    ASSUME NEW co, NEW ov, NEW ov2, ov \subseteq ov2, NEW in, NEW jobs
    PROVE  /\ KeepsAll(co, ov, in, jobs) => KeepsAll(co, ov2, in, jobs)
           /\ \A x : KeepsBut(co, ov, in, x, jobs) => KeepsBut(co, ov2, in, x, jobs)
<1>1. \A n : Replaced(co, ov, in, n) => Replaced(co, ov2, in, n)
  BY DEF Replaced
<1>. QED BY <1>1 DEF KeepsAll, KeepsBut

\* A list that keeps all edits keeps them but for one.
LEMMA KeepsWeaken ==
    ASSUME NEW co, NEW ov, NEW in, NEW jobs, KeepsAll(co, ov, in, jobs), NEW x
    PROVE  KeepsBut(co, ov, in, x, jobs)
BY DEF KeepsAll, KeepsBut

\* The id that an overlapping command changes is promised to nobody.
LEMMA KeepsOverlapped ==
    ASSUME NEW co, NEW ov, NEW in, NEW x \in ov \cap EditorsOf(in), NEW jobs, KeepsBut(co, ov, in, x, jobs)
    PROVE  KeepsAll(co, ov, in, jobs)
BY DEF KeepsAll, KeepsBut, Replaced

\* One more commit.
LEMMA KeepsCommit ==
    ASSUME NEW co \in Seq(Commands), NEW ov, NEW in, NEW c \in Commands, NEW jobs
    PROVE  /\ KeepsBut(co, ov, in, c, jobs) /\ InEffect(in, c, jobs) => KeepsAll(Append(co, c), ov, in, jobs)
           /\ c \in ov /\ KeepsAll(co, ov, in, jobs) => KeepsAll(Append(co, c), ov, in, jobs)
           /\ \A x : c \in ov /\ KeepsBut(co, ov, in, x, jobs) => KeepsBut(Append(co, c), ov, in, x, jobs)
<1>. DEFINE co2 == Append(co, c)
            len == Len(co)
<1>1. /\ len \in Nat /\ Len(co2) = len + 1 /\ co2[len + 1] = c /\ \A n \in 1..len : co2[n] = co[n]
  OBVIOUS
<1>2. ASSUME NEW n \in 1..Len(co2) PROVE n \in 1..len \/ n = len + 1
  BY <1>1, <1>2
<1>3. ASSUME NEW n \in 1..len
      PROVE  /\ Replaced(co, ov, in, n) => Replaced(co2, ov, in, n)
             /\ SubjectOf(in, c) = SubjectOf(in, co[n]) => Replaced(co2, ov, in, n)
  <2>1. \A k \in (n + 1)..len : k \in (n + 1)..Len(co2) /\ co2[k] = co[k]
    BY <1>1, <1>3
  <2>2. len + 1 \in (n + 1)..Len(co2) /\ co2[len + 1] = c /\ co2[n] = co[n]
    BY <1>1, <1>3
  <2>. HIDE DEF co2, len
  <2>3. Replaced(co, ov, in, n) => Replaced(co2, ov, in, n)
    BY <2>1, <2>2 DEF Replaced, len
  <2>4. SubjectOf(in, c) = SubjectOf(in, co[n]) => Replaced(co2, ov, in, n)
    BY <2>2 DEF Replaced
  <2>. QED BY <2>3, <2>4
<1>. HIDE DEF co2
<1>4. KeepsBut(co, ov, in, c, jobs) /\ InEffect(in, c, jobs) => KeepsAll(co2, ov, in, jobs)
  BY <1>1, <1>2, <1>3 DEF KeepsAll, KeepsBut
<1>5. c \in ov /\ KeepsAll(co, ov, in, jobs) => KeepsAll(co2, ov, in, jobs)
  BY <1>1, <1>2, <1>3 DEF KeepsAll
<1>6. \A x : c \in ov /\ KeepsBut(co, ov, in, x, jobs) => KeepsBut(co2, ov, in, x, jobs)
  BY <1>1, <1>2, <1>3 DEF KeepsBut
<1>. QED BY <1>4, <1>5, <1>6 DEF co2

\* An edit changes what is promised of its own id only, and takes effect.
LEMMA KeepsEdit ==
    ASSUME NEW co, NEW ov, NEW jobs \in SUBSET Jobs, NEW c \in Editors, KeepsAll(co, ov, input, jobs)
    PROVE  KeepsBut(co, ov, input, c, Edited(c, jobs)) /\ InEffect(input, c, Edited(c, jobs))
<1>1. InEffect(input, c, Edited(c, jobs))
  BY DEF InEffect, Edited, SubjectOf, Editors
<1>2. ASSUME NEW d, InEffect(input, d, jobs), SubjectOf(input, c) # SubjectOf(input, d)
      PROVE  InEffect(input, d, Edited(c, jobs))
  BY <1>2 DEF InEffect, Edited, SubjectOf, Editors
<1>. QED BY <1>1, <1>2 DEF KeepsAll, KeepsBut

\* AckedInv is kept.
LEMMA NextAcked == ShapeInv /\ OverlapInv /\ AloneInv /\ AckedInv /\ FileStep => AckedInv'
<1>. SUFFICES ASSUME ShapeInv, OverlapInv, AloneInv, AckedInv, FileStep PROVE AckedInv'
  OBVIOUS
<1>. USE DEF ChangePhase, SavePhase, File, Readable
<1>a. /\ PhaseInv /\ FilesOK /\ ProcsOK /\ Commands \subseteq Actors /\ Editors = EditorsOf(input)
      /\ commits \in Seq(Commands) /\ Len(commits) \in Nat
  BY TypeParts DEF ShapeInv, Actors, Editors, EditorsOf, ProcsOK
<1>b. /\ main["jobs"] \notin {Absent, Garbled} => KeepsAll(commits, overlap, input, main["jobs"])
      /\ \A x \in Actors :
            /\ pc[x] \in SavePhase => KeepsBut(commits, overlap, input, x, buf[x]) /\ InEffect(input, x, buf[x])
            /\ pc[x] = "saveWrite" /\ temp["jobs"] \notin {Absent, Garbled} => KeepsAll(commits, overlap, input, temp["jobs"])
            /\ pc[x] = "saveRename" /\ temp["jobs"] \notin {Absent, Garbled} => KeepsBut(commits, overlap, input, x, temp["jobs"])
            /\ pc[x] \in {"create", "fill"} => \A n \in 1..Len(commits) : commits[n] \in overlap
  BY DEF AckedInv
\* The promises so far, with the overlaps of the next state.
<1>c. ASSUME overlap \subseteq overlap'
      PROVE  /\ main["jobs"] \notin {Absent, Garbled} => KeepsAll(commits, overlap', input, main["jobs"])
             /\ \A x \in Actors :
                   /\ pc[x] \in SavePhase => KeepsBut(commits, overlap', input, x, buf[x]) /\ InEffect(input, x, buf[x])
                   /\ pc[x] = "saveWrite" /\ temp["jobs"] \notin {Absent, Garbled} => KeepsAll(commits, overlap', input, temp["jobs"])
                   /\ pc[x] = "saveRename" /\ temp["jobs"] \notin {Absent, Garbled} => KeepsBut(commits, overlap', input, x, temp["jobs"])
                   /\ pc[x] \in {"create", "fill"} => \A n \in 1..Len(commits) : commits[n] \in overlap'
  BY <1>b, <1>c, KeepsGrow
<1>1. CASE Aside
  <2>1. overlap \subseteq overlap' /\ UNCHANGED <<main, temp, input, commits>>
        /\ \A x \in Actors : pc'[x] \in ChangePhase => pc'[x] = pc[x] /\ buf'[x] = buf[x]
    BY <1>1 DEF Aside
  <2>. QED BY <1>c, <2>1 DEF AckedInv
<1>2. ASSUME NEW a \in Actors, Opens(a) PROVE AckedInv'
  <2>1. /\ overlap \subseteq overlap' /\ UNCHANGED <<main, temp, input, commits>> /\ pc'[a] = "create" /\ main["jobs"] = Absent
        /\ \A x \in Actors \ {a} : pc'[x] = pc[x] /\ buf'[x] = buf[x]
    BY <1>2, BeginFacts
  <2>2. \A n \in 1..Len(commits) : FALSE
    BY <1>a, <2>1 DEF PhaseInv
  <2>. QED BY <1>c, <2>1, <2>2 DEF AckedInv
<1>3. ASSUME NEW c \in Commands, Edits(c) PROVE AckedInv'
  <2>1. /\ c \in Actors /\ overlap \subseteq overlap' /\ UNCHANGED <<main, temp, input, commits>> /\ pc'[c] = "saveTrunc"
        /\ main["jobs"] \notin {Absent, Garbled} /\ c \in Editors /\ buf'[c] = Edited(c, main["jobs"])
        /\ \A x \in Actors \ {c} : pc'[x] = pc[x] /\ buf'[x] = buf[x]
    BY <1>3, <1>a, BeginFacts
  <2>2. main["jobs"] \in SUBSET Jobs /\ KeepsAll(commits, overlap', input, main["jobs"])
    BY <1>a, <1>c, <2>1 DEF FilesOK, Contents
  <2>3. KeepsBut(commits, overlap', input, c, buf'[c]) /\ InEffect(input, c, buf'[c])
    BY <2>1, <2>2, KeepsEdit
  <2>. QED BY <1>c, <2>1, <2>3 DEF AckedInv
<1>4. ASSUME NEW a \in Actors, Create(a) PROVE AckedInv'
  BY <1>4, <1>b, CreateFacts DEF AckedInv
<1>5. ASSUME NEW a \in Actors, Fill(a) PROVE AckedInv'
  <2>1. KeepsAll(commits, overlap, input, {})
    BY <1>5, <1>b, FillFacts DEF KeepsAll
  <2>2. main'["jobs"] \in {main["jobs"], {}, Garbled} /\ temp' = temp /\ UNCHANGED <<input, buf, overlap, commits>>
        /\ pc'[a] = "opened" /\ \A x \in Actors \ {a} : pc'[x] = pc[x]
    BY <1>5, FillFacts
  <2>. QED BY <1>b, <2>1, <2>2 DEF AckedInv
<1>6. ASSUME NEW c \in Commands, SaveTruncate(c) PROVE AckedInv'
  BY <1>6, <1>b, SaveTruncateFacts DEF AckedInv
<1>7. ASSUME NEW c \in Commands, SaveWrite(c) PROVE AckedInv'
  <2>a. /\ c \in Actors /\ pc[c] = "saveWrite" /\ pc'[c] = "saveRename" /\ \A x \in Actors \ {c} : pc'[x] = pc[x]
        /\ UNCHANGED <<input, buf, overlap, commits>>
        /\ fd[c] \in {None, <<"main", "jobs">>, <<"temp", "jobs">>}
    BY <1>7, SaveWriteFacts
  <2>b. c \in overlap => KeepsAll(commits, overlap, input, buf[c])
    <3>1. c \in EditorsOf(input)
      BY <1>a, <2>a DEF PhaseInv
    <3>. QED BY <1>b, <2>a, <3>1, KeepsOverlapped
  <2>c. ASSUME temp["jobs"] \notin {Absent, Garbled} PROVE KeepsBut(commits, overlap, input, c, temp["jobs"])
    BY <1>b, <2>a, <2>c, KeepsWeaken
  <2>1. CASE fd[c] = None
    <3>1. main' = main /\ temp' = temp
      BY <1>7, <2>1, SaveWriteFacts
    <3>. QED BY <1>b, <2>a, <2>c, <3>1 DEF AckedInv
  <2>2. CASE fd[c] = <<"main", "jobs">>
    <3>1. temp' = temp /\ main'["jobs"] \in {buf[c], Garbled}
      BY <1>7, <2>2, SaveWriteFacts
    <3>2. c \in overlap
      BY <2>a, <2>2 DEF AloneInv
    <3>. QED BY <1>b, <2>a, <2>b, <2>c, <3>1, <3>2 DEF AckedInv
  <2>3. CASE fd[c] = <<"temp", "jobs">>
    <3>1. main' = main /\ temp'["jobs"] \in {buf[c], Garbled}
      BY <1>7, <2>3, SaveWriteFacts
    <3>2. KeepsBut(commits, overlap, input, c, buf[c])
      BY <1>b, <2>a
    <3>3. ASSUME NEW x \in Actors \ {c}, pc[x] \in ChangePhase
          PROVE  KeepsAll(commits, overlap, input, buf[c]) /\ KeepsBut(commits, overlap, input, x, buf[c])
      <4>1. c \in overlap
        BY <2>a, <3>3 DEF OverlapInv
      <4>. QED BY <2>b, <4>1, KeepsWeaken
    <3>. QED BY <1>b, <2>a, <3>1, <3>2, <3>3 DEF AckedInv
  <2>. QED BY <2>a, <2>1, <2>2, <2>3
<1>8. ASSUME NEW c \in Commands, SaveRename(c) PROVE AckedInv'
  <2>a. /\ c \in Actors /\ pc[c] = "saveRename" /\ \A x \in Actors \ {c} : pc'[x] = pc[x] /\ buf'[x] = buf[x]
        /\ UNCHANGED <<input, overlap>>
    BY <1>8, SaveRenameFacts
  <2>1. CASE temp["jobs"] = Absent
    <3>1. pc'[c] = "error" /\ UNCHANGED <<main, temp, commits>>
      BY <1>8, <2>1, SaveRenameFacts
    <3>. QED BY <1>b, <2>a, <3>1 DEF AckedInv
  <2>2. CASE temp["jobs"] # Absent
    <3>1. pc'[c] = "done" /\ commits' = Append(commits, c) /\ main'["jobs"] = temp["jobs"] /\ temp'["jobs"] = Absent
      BY <1>8, <2>2, SaveRenameFacts
    <3>2. ASSUME temp["jobs"] # Garbled PROVE KeepsAll(commits', overlap, input, temp["jobs"])
      <4>1. KeepsBut(commits, overlap, input, c, temp["jobs"])
        BY <1>b, <2>a, <2>2, <3>2
      <4>2. CASE c \in overlap
        <5>1. c \in overlap \cap EditorsOf(input)
          BY <1>a, <2>a, <4>2 DEF PhaseInv
        <5>2. KeepsAll(commits, overlap, input, temp["jobs"])
          BY <4>1, <5>1, KeepsOverlapped
        <5>. QED BY <1>a, <3>1, <4>2, <5>2, KeepsCommit
      <4>3. CASE c \notin overlap
        <5>1. temp["jobs"] = buf[c]
          BY <2>a, <4>3 DEF AloneInv
        <5>2. InEffect(input, c, temp["jobs"])
          BY <1>b, <2>a, <5>1
        <5>. QED BY <1>a, <3>1, <4>1, <5>2, KeepsCommit
      <4>. QED BY <4>2, <4>3
    <3>3. ASSUME NEW x \in Actors \ {c}, pc[x] \in ChangePhase PROVE c \in overlap
      BY <2>a, <3>3 DEF OverlapInv
    <3>4. ASSUME NEW x \in Actors \ {c}, pc[x] \in SavePhase PROVE KeepsBut(commits', overlap, input, x, buf[x])
      BY <1>a, <1>b, <3>1, <3>3, <3>4, KeepsCommit
    <3>5. ASSUME NEW x \in Actors \ {c}, pc[x] \in {"create", "fill"}, NEW n \in 1..Len(commits')
          PROVE  commits'[n] \in overlap
      <4>1. c \in overlap /\ \A k \in 1..Len(commits) : commits[k] \in overlap
        BY <1>b, <3>3, <3>5
      <4>2. commits'[n] = c \/ (n \in 1..Len(commits) /\ commits'[n] = commits[n])
        BY <1>a, <3>1, <3>5
      <4>. QED BY <4>1, <4>2
    <3>. QED BY <1>b, <2>a, <2>2, <3>1, <3>2, <3>4, <3>5 DEF AckedInv
  <2>. QED BY <2>1, <2>2
<1>. QED BY <1>1, <1>2, <1>3, <1>4, <1>5, <1>6, <1>7, <1>8 DEF FileStep
-----------------------------------------------------------------------------
\* The invariant holds at the start.
LEMMA InitInv == Init => FileCronInv
<1>. SUFFICES ASSUME Init PROVE FileCronInv
  OBVIOUS
<1>. USE DEF Init
<1>a. \A a \in Actors : pc[a] = "idle" /\ fd[a] = None /\ buf[a] = {}
  OBVIOUS
<1>b. Len(commits) = 0 /\ \A n \in 1..Len(commits) : FALSE
  OBVIOUS
<1>c. PICK f \in Files : main = [p \in {"jobs"} |-> f]
  OBVIOUS
<1>d. f \in Contents /\ f # Garbled
  BY FileCronAssumption DEF Contents
<1>1. FilesOK
  BY <1>c, <1>d DEF FilesOK, Contents
<1>2. ProcsOK
  <2>1. commits \in Seq(Commands)
    OBVIOUS
  <2>. QED BY <2>1 DEF ProcsOK, Places
<1>3. EngineOK
  <2>1. 0 \in Ticks /\ 0 \in 0..MaxSignals /\ 0 \in 0..MaxStarts /\ 0 \in 0..MaxFires
    BY FileCronAssumption DEF Ticks
  <2>. QED BY <2>1 DEF EngineOK, NoEntries, NoCalls
<1>4. FlagsOK
  BY Zenon DEF FlagsOK
<1>5. PhaseInv
  BY <1>a, <1>b DEF PhaseInv, SavePhase, Before
<1>6. OverlapInv /\ AloneInv
  BY <1>a DEF OverlapInv, AloneInv, ChangePhase, SavePhase
<1>7. CauseInv
  BY <1>a, <1>c, <1>d DEF CauseInv, File
<1>10. LastingInv
  BY <1>a, Daemon \in Actors DEF LastingInv, SavePhase, Actors
<1>8. SettledInv
  BY <1>a, Daemon \in Actors DEF SettledInv, SettledStaysScheduled, Actors
<1>9. AckedInv
  BY <1>a, <1>b DEF AckedInv, SavePhase, KeepsAll
<1>11. SpoiltInv /\ PairInv
  BY <1>b DEF SpoiltInv, PairInv
<1>. QED BY <1>1, <1>2, <1>3, <1>4, <1>5, <1>6, <1>7, <1>8, <1>9, <1>10, <1>11, TypeParts DEF FileCronInv, ShapeInv

\* Every step keeps it.
LEMMA NextInv == FileCronInv /\ [Next]_vars => FileCronInv'
<1>. SUFFICES ASSUME FileCronInv, [Next]_vars PROVE FileCronInv'
  OBVIOUS
<1>1. /\ ShapeInv /\ OverlapInv /\ AloneInv /\ CauseInv /\ LastingInv /\ SettledInv /\ AckedInv
      /\ SpoiltInv /\ PairInv
  BY DEF FileCronInv
<1>2. FilesOK /\ ProcsOK /\ EngineOK /\ FlagsOK
  BY <1>1, TypeParts DEF ShapeInv
<1>3. FileStep
  BY <1>1, FileSteps
<1>4. FilesOK' /\ ProcsOK' /\ EngineOK' /\ FlagsOK'
  BY <1>2, NextFiles, NextProcs, NextEngine, NextFlags
<1>5. ShapeInv'
  BY <1>1, <1>3, <1>4, NextPhase, TypePartsNext DEF ShapeInv
<1>. QED BY <1>1, <1>3, <1>5, NextOverlap, NextAlone, NextCause, NextLasting, NextSettled, NextAcked,
   NextSpoilt, NextPair DEF FileCronInv

\* The invariant of the job file and of the daemon holds throughout.
THEOREM FileCronInvariant == Spec => []FileCronInv
BY InitInv, NextInv, PTL DEF Spec

\* Types are kept; at most one signal waits.
THEOREM FileCronTypeCorrect == Spec => []TypeOK
<1>1. FileCronInv => TypeOK
  BY DEF FileCronInv, ShapeInv
<1>. QED BY FileCronInvariant, <1>1, PTL

\* An acknowledged `cron add` or `cron rm` stays in effect until a later one
\* of the same id, for any number of commands and whoever crashes: only a
\* process that had the file in hands at the same time as another can lose its
\* own edit, and only two such processes leave a file that does not parse.
THEOREM AckedStaysHolds == Spec => []AckedStays
<1>1. FileCronInv => AckedStays
  <2>. SUFFICES ASSUME FileCronInv, NEW n \in 1..Len(commits), commits[n] \notin overlap
                PROVE  IF Parses("jobs")
                       THEN \/ \E d \in {commits[k] : k \in (n + 1)..Len(commits)} \cup (overlap \cap Editors) :
                                  Subject(d) = Subject(commits[n])
                            \/ IF input[commits[n]].op = "add" THEN input[commits[n]].job \in File
                               ELSE \A j \in File : j.id # Subject(commits[n])
                       ELSE \E a, b \in overlap : a # b
    BY DEF AckedStays
  <2>0. \A d : Subject(d) = SubjectOf(input, d)
    BY DEF Subject, SubjectOf
  <2>1. CASE Parses("jobs")
    <3>1. Replaced(commits, overlap, input, n) \/ InEffect(input, commits[n], File)
      BY <2>1 DEF FileCronInv, AckedInv, KeepsAll, Readable, Parses, File
    <3>2. CASE Replaced(commits, overlap, input, n)
      BY <2>0, <2>1, <3>2 DEF Replaced, Editors, EditorsOf
    <3>3. CASE InEffect(input, commits[n], File)
      BY <2>0, <2>1, <3>3 DEF InEffect
    <3>. QED BY <3>1, <3>2, <3>3
  <2>2. CASE ~Parses("jobs")
    <3>1. commits \in Seq(Commands) /\ Len(commits) # 0
      BY TypeParts DEF FileCronInv, ShapeInv, ProcsOK
    <3>2. File = Garbled
      BY <2>2, <3>1 DEF FileCronInv, ShapeInv, PhaseInv, Parses, File
    <3>. QED BY <2>2, <3>1, <3>2 DEF FileCronInv, SpoiltInv, PairInv
  <2>. QED BY <2>1, <2>2
<1>. QED BY FileCronInvariant, <1>1, PTL

\* No crash makes a later command fail or keeps the daemon from starting,
\* but one between the two system calls that create the file; and only an
\* invalid schedule somebody wrote by hand, which no acknowledged edit has
\* replaced, stops the daemon.
THEOREM FailureHasCauseHolds == Spec => []FailureHasCause
<1>1. FileCronInv => FailureHasCause
  BY DEF FileCronInv, CauseInv, LastingInv, FailureHasCause
<1>. QED BY FileCronInvariant, <1>1, PTL

\* No Reload, not one that fails half-way, drops a job that was loaded and has
\* been in the file ever since.
THEOREM SettledStaysScheduledHolds == Spec => []SettledStaysScheduled
<1>1. FileCronInv => SettledStaysScheduled
  BY DEF FileCronInv, SettledInv
<1>. QED BY FileCronInvariant, <1>1, PTL
-----------------------------------------------------------------------------
(***************************************************************************)
(* A SIGHUP is not lost                                                    *)
(***************************************************************************)
\* The entries are those of the file, if it can be loaded at all.
Loaded == Parses("jobs") => Matches(File) \/ \E j \in File : j.sched = Invalid

\* A SIGHUP that came since the file last changed is still in the channel, or
\* the Reload under way has yet to read the file or has read it as it is, or
\* the file has been loaded.
HangupKept ==
    asked /\ Running =>
        \/ sigs # <<>>
        \/ pc[Daemon] = "list"
        \/ pc[Daemon] \in {"remove", "add"} /\ (Parses("jobs") => buf[Daemon] = File)
        \/ pc[Daemon] = "running" /\ Loaded

\* Only a daemon that was running has been asked, and between the two halves
\* of a Reload every entry is wanted.
HangupInv ==
    /\ HangupKept
    /\ asked => Running \/ pc[Daemon] = "stopping"
    /\ pc[Daemon] = "add" => \A i \in Ids : entries[i] # None => \E j \in buf[Daemon] : j.id = i

\* The second half of a Reload makes the entries those of its list, unless it
\* stops at an invalid schedule.
LEMMA AddMatches ==
    ASSUME EngineOK, ProcsOK, NEW from, NEW onError, AddEntries(from, onError),
           \A i \in Ids : entries[i] # None => \E j \in buf[Daemon] : j.id = i
    PROVE  \/ \E j \in buf[Daemon] : j.sched = Invalid
           \/ \A i \in Ids : entries'[i] # None <=> \E j \in buf[Daemon] : j.id = i
<1>. DEFINE new == {j \in buf[Daemon] : entries[j.id] = None}
            bad == {j \in new : j.sched = Invalid}
<1>1. CASE bad # {}
  BY <1>1
<1>2. CASE bad = {}
  <2>1. entries' = Registered(new)
    BY <1>2 DEF AddEntries
  <2>2. new \in SUBSET Jobs /\ None \notin Jobs
    BY FileCronAssumption DEF ProcsOK, Actors
  <2>3. ASSUME NEW i \in Ids PROVE entries'[i] # None <=> \E j \in buf[Daemon] : j.id = i
    <3>1. \/ entries'[i] = entries[i] /\ \A j \in new : j.id # i
          \/ entries'[i] \in new /\ entries'[i].id = i
      <4>. HIDE DEF new
      <4>. QED BY <2>1, <2>2, RegisteredFacts
    <3>2. CASE entries'[i] = entries[i] /\ \A j \in new : j.id # i
      BY <3>2
    <3>3. CASE entries'[i] \in new /\ entries'[i].id = i
      BY <2>2, <3>3
    <3>. QED BY <3>1, <3>2, <3>3
  <2>. QED BY <2>3
<1>. QED BY <1>1, <1>2

\* Every step keeps it: a SIGHUP that finds the channel full finds a signal in
\* it, which the loop takes after the Reload under way.
LEMMA NextHangup == ShapeInv /\ HangupInv /\ [Next]_vars => HangupInv'
<1>. SUFFICES ASSUME ShapeInv, HangupInv, [Next]_vars PROVE HangupInv'
  OBVIOUS
<1>. USE DEF File, Parses
<1>a. /\ FilesOK /\ ProcsOK /\ EngineOK /\ FlagsOK
      /\ Daemon \in Actors /\ Commands \subseteq Actors /\ Daemon \notin Commands
  BY TypeParts, FileCronAssumption DEF ShapeInv, Actors
\* Steps of others, after which the file is as it was or nobody has asked.
<1>b. ASSUME entries' = entries, sigs' = sigs, pc'[Daemon] = pc[Daemon], buf'[Daemon] = buf[Daemon],
             asked' => asked /\ main'["jobs"] = main["jobs"]
      PROVE  HangupInv'
  BY <1>b DEF HangupInv, HangupKept, Loaded, Matches, Running
\* A daemon that has not been started has not been asked.
<1>g. ASSUME asked' => asked, pc'[Daemon] \notin {"running", "list", "remove", "add", "stopping"},
             pc[Daemon] \notin {"running", "list", "remove", "add", "stopping"} \/ ~asked'
      PROVE  HangupInv'
  BY <1>g DEF HangupInv, HangupKept, Running
<1>c. \A where : \A a \in Actors \ {Daemon} : Go(a, where) => pc'[Daemon] = pc[Daemon]
  BY <1>a, GoFacts
<1>d. \A where : Go(Daemon, where) => pc'[Daemon] = where
  BY <1>a, GoFacts
<1>e. \A c \in Commands : c \in Actors \ {Daemon}
  BY <1>a
<1>f. Follow => (asked' => asked /\ main'["jobs"] = main["jobs"])
  BY <1>a, Zenon DEF Follow, FlagsOK
<1>1. ASSUME NEW a \in Actors, OpenStore(a) PROVE HangupInv'
  <2>1. CASE a = Daemon
    <3>1. pc[Daemon] = "idle" /\ pc'[Daemon] \in {"create", "opened"} /\ asked' = asked
      BY <1>1, <1>d, <2>1 DEF OpenStore
    <3>. QED BY <1>g, <3>1
  <2>2. CASE a # Daemon
    <3>1. pc'[Daemon] = pc[Daemon]
      BY <1>1, <1>c, <2>2 DEF OpenStore
    <3>. QED BY <1>1, <1>b, <3>1 DEF OpenStore, fileVars, daemonVars
  <2>. QED BY <2>1, <2>2
<1>2. ASSUME NEW a \in Actors, Create(a) \/ Fill(a) PROVE HangupInv'
  <2>1. Follow /\ UNCHANGED <<entries, buf, sigs>>
    BY <1>2 DEF Create, Fill, daemonVars
  <2>2. CASE a = Daemon
    <3>1. pc[Daemon] \in {"create", "fill"} /\ pc'[Daemon] \in {"fill", "opened"}
      BY <1>2, <1>d, <2>2 DEF Create, Fill
    <3>. QED BY <1>f, <1>g, <2>1, <3>1
  <2>3. CASE a # Daemon
    <3>1. pc'[Daemon] = pc[Daemon]
      BY <1>2, <1>c, <2>3 DEF Create, Fill
    <3>. QED BY <1>b, <1>f, <2>1, <3>1
  <2>. QED BY <2>2, <2>3
<1>3. ASSUME NEW c \in Commands, SaveTruncate(c) \/ SaveWrite(c) \/ SaveRename(c) PROVE HangupInv'
  <2>1. pc'[Daemon] = pc[Daemon]
    BY <1>3, <1>c, <1>e DEF SaveTruncate, SaveWrite, SaveRename
  <2>2. Follow /\ UNCHANGED <<entries, sigs>> /\ buf'[Daemon] = buf[Daemon]
    BY <1>3, <1>a DEF SaveTruncate, SaveWrite, SaveRename, daemonVars, ProcsOK
  <2>. QED BY <1>b, <1>f, <2>1, <2>2
<1>4. ASSUME NEW c \in Commands, Operate(c) \/ FireNowReturns(c) PROVE HangupInv'
  <2>1. pc'[Daemon] = pc[Daemon]
    BY <1>4, <1>c, <1>e DEF Operate, Refuse, LoadFails, ListJobs, FireNow, Edit, FireNowReturns
  <2>2. UNCHANGED <<entries, main, asked, sigs>> /\ buf'[Daemon] = buf[Daemon]
    BY <1>4, <1>a DEF Operate, Refuse, LoadFails, ListJobs, FireNow, Edit, FireNowReturns, daemonVars, fileVars, histVars, ProcsOK
  <2>. QED BY <1>b, <2>1, <2>2
<1>5. CASE StartList
  <2>1. pc[Daemon] = "opened" /\ pc'[Daemon] \in {"startAdd", "error"} /\ UNCHANGED asked
    BY <1>5, <1>d DEF StartList, List
  <2>. QED BY <1>g, <2>1
<1>6. CASE ReloadList
  <2>1. UNCHANGED <<main, asked, entries, sigs>> /\ pc[Daemon] = "list"
    BY <1>6 DEF ReloadList, List, fileVars
  <2>2. \/ pc'[Daemon] = "remove" /\ buf'[Daemon] = main["jobs"]
        \/ pc'[Daemon] = "running" /\ ~Parses("jobs")
    BY <1>6, <1>a, <1>d DEF ReloadList, List, ProcsOK
  <2>. QED BY <2>1, <2>2 DEF HangupInv, HangupKept, Loaded, Running
<1>7. CASE StartAdd
  <2>1. pc[Daemon] = "startAdd" /\ pc'[Daemon] \in {"running", "error"} /\ UNCHANGED asked
    BY <1>7, <1>d DEF StartAdd, AddEntries
  <2>2. ~asked
    BY <2>1 DEF HangupInv, Running
  <2>. QED BY <2>1, <2>2 DEF HangupInv, HangupKept
<1>8. CASE ReloadAdd
  <2>1. pc[Daemon] = "add" /\ pc'[Daemon] = "running" /\ UNCHANGED <<main, asked, sigs>>
    BY <1>8, <1>d DEF ReloadAdd, AddEntries, fileVars
  <2>2. \/ \E j \in buf[Daemon] : j.sched = Invalid
        \/ \A i \in Ids : entries'[i] # None <=> \E j \in buf[Daemon] : j.id = i
    BY <1>8, <1>a, <2>1, AddMatches DEF ReloadAdd, HangupInv
  <2>3. asked /\ sigs = <<>> => (Parses("jobs") => buf[Daemon] = main["jobs"])
    BY <2>1 DEF HangupInv, HangupKept, Running
  <2>4. asked /\ sigs = <<>> => Loaded'
    BY <2>1, <2>2, <2>3 DEF Loaded, Matches
  <2>. QED BY <2>1, <2>4 DEF HangupInv, HangupKept, Running
<1>9. CASE TakeSignal
  <2>1. pc'[Daemon] \in {"list", "stopping"} /\ pc[Daemon] = "running" /\ UNCHANGED asked
    BY <1>9, <1>d DEF TakeSignal, histVars
  <2>. QED BY <2>1 DEF HangupInv, HangupKept, Running
<1>10. CASE RemoveEntries
  <2>1. pc[Daemon] = "remove" /\ pc'[Daemon] = "add" /\ UNCHANGED <<main, asked, sigs, buf>>
    BY <1>10, <1>d DEF RemoveEntries, fileVars, histVars
  <2>2. \A i \in Ids : entries'[i] # None => \E j \in buf'[Daemon] : j.id = i
    BY <1>10, <2>1 DEF RemoveEntries, Keeps
  <2>. QED BY <2>1, <2>2 DEF HangupInv, HangupKept, Running
<1>11. CASE StopDone \/ Restart
  <2>1. /\ pc'[Daemon] \in {"exited", "idle"} /\ (asked' => asked)
        /\ pc[Daemon] \notin {"running", "list", "remove", "add", "stopping"} \/ ~asked'
    BY <1>11, <1>d DEF StopDone, Restart, histVars, Ended
  <2>. QED BY <1>g, <2>1
<1>12. CASE Tick \/ (\E j \in Jobs : FireReturns(j)) \/ UNCHANGED vars
  <2>1. UNCHANGED <<main, pc, buf, entries, asked, sigs>>
    BY <1>12 DEF Tick, FireReturns, vars, fileVars, daemonVars, histVars
  <2>. QED BY <1>b, <2>1
<1>13. ASSUME NEW s \in {"HUP", "TERM"}, Signal(s) PROVE HangupInv'
  <2>1. UNCHANGED <<main, pc, buf, entries>> /\ (asked' => asked \/ Running) /\ (Running \/ pc[Daemon] = "stopping")
    BY <1>13, <1>a, Zenon DEF Signal, fileVars, FlagsOK
  <2>2. sigs' # <<>>
    <3>1. sigs' = IF Len(sigs) < 1 THEN Append(sigs, s) ELSE sigs
      BY <1>13 DEF Signal, ChannelTakes
    <3>2. CASE sigs = <<>>
      BY <3>1, <3>2, OneSignal
    <3>3. CASE sigs # <<>>
      <4>1. PICK t \in {"HUP", "TERM"} : sigs = <<t>>
        BY <1>a, <3>3 DEF EngineOK
      <4>. QED BY <3>1, <3>3, <4>1, OneSignal
    <3>. QED BY <3>2, <3>3
  <2>. QED BY <2>1, <2>2 DEF HangupInv, HangupKept, Running
<1>14. ASSUME NEW a \in Actors, Crash(a) PROVE HangupInv'
  <2>1. CASE a = Daemon
    <3>1. ~asked' /\ pc'[Daemon] = "dead"
      BY <1>14, <1>d, <2>1 DEF Crash
    <3>. QED BY <1>g, <3>1
  <2>2. CASE a # Daemon
    <3>1. UNCHANGED <<main, entries, asked, sigs>> /\ buf'[Daemon] = buf[Daemon] /\ pc'[Daemon] = pc[Daemon]
      BY <1>14, <1>a, <1>c, <2>2 DEF Crash, daemonVars, ProcsOK
    <3>. QED BY <1>b, <3>1
  <2>. QED BY <2>1, <2>2
<1>. QED BY <1>1, <1>2, <1>3, <1>4, <1>5, <1>6, <1>7, <1>8, <1>9, <1>10, <1>11, <1>12, <1>13, <1>14, StepKinds
   DEF Reads

\* Whatever Reload was under way when it came, and although the channel holds
\* one signal and drops the rest: a SIGHUP after the last change of the file
\* is never lost, the safety part of HupTakesEffect.
THEOREM HangupKeptHolds == Spec => []HangupKept
<1>1. Init => HangupInv
  BY DEF Init, HangupInv, HangupKept, Running, Actors
<1>2. FileCronInv => ShapeInv
  BY DEF FileCronInv
<1>3. HangupInv => HangupKept
  BY DEF HangupInv
<1>. QED BY FileCronInvariant, NextHangup, <1>1, <1>2, <1>3, PTL DEF Spec
=============================================================================
