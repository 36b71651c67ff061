---------------------------- MODULE LayerResolver ----------------------------
(***************************************************************************)
(* internal/gateway/layers.go: Resolve materialises the layers of a        *)
(* function before it is spawned.  A layer that is not in the host's cache *)
(* directory is pulled from the object store (internal/layerstore) into a  *)
(* temporary directory, verified against its digest and renamed into       *)
(* place.  Concurrent calls for one digest share one pull: the first takes *)
(* a slot in r.pulling, the others wait for its channel to be closed.      *)
(*                                                                         *)
(* Several gateway processes may share a cache directory, each with its    *)
(* own r.pulling.  A layer tree is a function from paths to file contents; *)
(* an archive is what the object store holds, with the digest of its bytes *)
(* and its tar entries in order.                                           *)
(***************************************************************************)
EXTENDS Integers, Sequences, FiniteSets

CONSTANTS
    Calls,       \* calls of Resolve
    Procs,       \* gateway processes sharing the cache directory
    Names,       \* digests as written in a definition ("sha256:x" or "x")
    Keys,        \* object keys: the bare hex
    Key,         \* Key[n]: the bare hex of a digest
    Archives,    \* what an object may hold: [hash |-> ., entries |-> <<...>>]
    MountLists,  \* the def.Layers that calls come with
    MaxMounts,   \* how long they may be
    Faults,      \* what may go wrong: a subset of FaultKinds
    Absent,      \* no directory, no object
    None

FaultKinds == {"get", "stream", "disk", "timeout", "crash"}

\* A tar entry: a regular file, a symlink, a name that leaves the directory
\* (absolute, or with a ".." component), or something layers do not keep.
EntryKinds == {"reg", "symlink", "outside", "device"}

IsSequence(s) == s \in Seq({s[i] : i \in DOMAIN s})

ASSUME LayerResolverAssumption ==
    /\ Key \in [Names -> Keys]
    /\ \A a \in Archives : /\ IsSequence(a.entries)
                           /\ \A i \in DOMAIN a.entries : a.entries[i].kind \in EntryKinds
    /\ \A a, b \in Archives : a.hash = b.hash => a = b
    /\ Faults \subseteq FaultKinds
    /\ \A l \in MountLists : \A i \in DOMAIN l :
          l[i].digest \in Names \cup {None} /\ l[i].host \in {"", "there", "gone"}
    /\ None \notin Calls \X (1..MaxMounts)   \* a slot is free, or holds a channel

ASSUME MountListsAssumption ==
    /\ MaxMounts \in Nat
    /\ \A l \in MountLists : IsSequence(l) /\ Len(l) \in 1..MaxMounts

VARIABLES
    objects,     \* the bucket
    target,      \* CacheDir/<digest>: a tree, or Absent
    tmp,         \* CacheDir/.pulling-*: the temporary directory of a call
    up,          \* which processes run
    pulling,     \* r.pulling of each process: the channel of a pull, or None
    pc, home,    \* calls: where they are, and in which process
    mounts, at,  \* the mounts of a call and the one it is working on
    wait,        \* the channel it waits for
    stream,      \* the archive it downloads
    read,        \* how many entries of it were read
    failed,      \* history: the channels of pulls that failed
    joined       \* history: the channels a call has waited for

callVars == <<pc, home, mounts, at, wait>>
pullVars == <<tmp, stream, read>>
histVars == <<failed, joined>>
vars == <<objects, target, up, pulling, callVars, pullVars, histVars>>

Channels == Calls \X (1..MaxMounts)   \* a done channel: the call and its mount index

Init ==
    /\ objects \in [Keys -> Archives \cup {Absent}]
    /\ target = [n \in Names |-> Absent]
    /\ tmp = [c \in Calls |-> None]
    /\ up = [p \in Procs |-> TRUE]
    /\ pulling = [p \in Procs |-> [n \in Names |-> None]]
    /\ pc = [c \in Calls |-> "idle"]
    /\ home \in [Calls -> Procs]
    /\ mounts = [c \in Calls |-> <<>>]
    /\ at = [c \in Calls |-> 1]
    /\ wait = [c \in Calls |-> None]
    /\ stream = [c \in Calls |-> Absent]
    /\ read = [c \in Calls |-> 0]
    /\ failed = {}
    /\ joined = [c \in Calls |-> {}]

Mount(c)   == mounts[c][at[c]]
Name(c)    == Mount(c).digest
Channel(c) == <<c, at[c]>>
Slot(c)    == pulling[home[c]][Name(c)]

Go(c, where) == pc' = [pc EXCEPT ![c] = where]

\* The mount is done (m.HostPath = path): on to the next one, if any.
NextMount(c) ==
    /\ at' = [at EXCEPT ![c] = @ + 1]
    /\ Go(c, IF at[c] = Len(mounts[c]) THEN "ok" ELSE "mount")

(***************************************************************************)
(* Resolve                                                                 *)
(***************************************************************************)
\* acquire found room for an instance and calls Resolve with def.Layers.
Begin(c) ==
    /\ pc[c] = "idle" /\ up[home[c]]
    /\ \E l \in MountLists : mounts' = [mounts EXCEPT ![c] = l]
    /\ Go(c, "mount")
    /\ UNCHANGED <<objects, target, up, pulling, home, at, wait, pullVars, histVars>>

\* NopResolver: the path is given and exists on the host.
HostPathExists(m) == m.host = "there"

\* A mount without digest is only looked at, like NopResolver does.
HostMount(c) ==
    /\ pc[c] = "mount" /\ Name(c) = None
    /\ IF HostPathExists(Mount(c))
       THEN NextMount(c)
       ELSE Go(c, "failed") /\ UNCHANGED at
    /\ UNCHANGED <<objects, target, up, pulling, home, mounts, wait, pullVars, histVars>>

\* ensureLocal: the directory is already there.
Stat(c) ==
    /\ pc[c] = "mount" /\ Name(c) # None
    /\ IF target[Name(c)] # Absent
       THEN NextMount(c)
       ELSE Go(c, "lock") /\ UNCHANGED at
    /\ UNCHANGED <<objects, target, up, pulling, home, mounts, wait, pullVars, histVars>>

\* if ch, ok := r.pulling[digest]; ok
JoinPull(c) == Slot(c) # None

\* Under r.mu: wait for the pull that is under way, or take the slot.
LockSlot(c) ==
    /\ pc[c] = "lock"
    /\ IF JoinPull(c)
       THEN /\ wait' = [wait EXCEPT ![c] = Slot(c)]
            /\ joined' = [joined EXCEPT ![c] = @ \cup {Slot(c)}]
            /\ Go(c, "wait")
            /\ UNCHANGED pulling
       ELSE /\ pulling' = [pulling EXCEPT ![home[c]][Name(c)] = Channel(c)]
            /\ Go(c, "recheck")
            /\ UNCHANGED <<wait, joined>>
    /\ UNCHANGED <<objects, target, up, home, mounts, at, pullVars, failed>>

\* <-ch: the pull has ended, one way or the other.
Woken(c) ==
    /\ pc[c] = "wait"
    /\ Slot(c) # wait[c]
    /\ NextMount(c)
    /\ wait' = [wait EXCEPT ![c] = None]
    /\ UNCHANGED <<objects, target, up, pulling, home, mounts, pullVars, histVars>>

\* <-ctx.Done(): the two minutes that acquire grants are over.
TimedOut(c) ==
    /\ "timeout" \in Faults
    /\ pc[c] = "wait"
    /\ Go(c, "failed")
    /\ wait' = [wait EXCEPT ![c] = None]
    /\ UNCHANGED <<objects, target, up, pulling, home, mounts, at, pullVars, histVars>>

(***************************************************************************)
(* The pull                                                                *)
(***************************************************************************)
FoundOnRecheck(c) == target[Name(c)] # Absent

Recheck(c) ==
    /\ pc[c] = "recheck"
    /\ Go(c, IF FoundOnRecheck(c) THEN "unwindOk" ELSE "get")
    /\ UNCHANGED <<objects, target, up, pulling, home, mounts, at, wait, pullVars, histVars>>

\* Store.Get (S3Store: GetObject and Stat on the stripped key), MkdirTemp.
Get(c) ==
    /\ pc[c] = "get"
    /\ \/ /\ objects[Key[Name(c)]] # Absent
          /\ stream' = [stream EXCEPT ![c] = objects[Key[Name(c)]]]
          /\ tmp' = [tmp EXCEPT ![c] = <<>>]
          /\ read' = [read EXCEPT ![c] = 0]
          /\ Go(c, "extract")
       \/ /\ objects[Key[Name(c)]] = Absent \/ Faults \cap {"get", "disk", "timeout"} # {}
          /\ Go(c, "unwindErr")
          /\ UNCHANGED pullVars
    /\ UNCHANGED <<objects, target, up, pulling, home, mounts, at, wait, histVars>>

\* safeJoin and the symlink case of writeEntry refuse an entry.
Acceptable(e) == e.kind \notin {"symlink", "outside"}

\* Faulty variant: everything is unpacked as if it were a file.
WrittenAnyKind(t, e) ==
    [p \in DOMAIN t \cup {e.path} |-> IF p = e.path THEN e.data ELSE t[p]]

\* writeEntry: a file replaces what an earlier entry put at its path; devices
\* and hard links are skipped.
Written(t, e) ==
    IF e.kind = "reg"
    THEN [p \in DOMAIN t \cup {e.path} |-> IF p = e.path THEN e.data ELSE t[p]]
    ELSE t

\* One round of extractTarGz's loop.
ExtractEntry(c) ==
    /\ pc[c] = "extract"
    /\ read[c] < Len(stream[c].entries)
    /\ LET e == stream[c].entries[read[c] + 1] IN
        \/ /\ Acceptable(e)
           /\ tmp' = [tmp EXCEPT ![c] = Written(@, e)]
           /\ read' = [read EXCEPT ![c] = @ + 1]
           /\ UNCHANGED pc
        \/ /\ ~Acceptable(e) \/ Faults \cap {"stream", "disk", "timeout"} # {}
           /\ Go(c, "unwindErr")
           /\ UNCHANGED <<tmp, read>>
    /\ UNCHANGED <<objects, target, up, pulling, home, mounts, at, wait, stream, histVars>>

\* Faulty variant: the bytes are not compared with the digest.
DigestMatchesAny(n, a) == TRUE

\* digestMatches: the declared digest, with or without "sha256:", is the hash
\* of the raw bytes.
DigestMatches(n, a) == Key[n] = a.hash

Verify(c) ==
    /\ pc[c] = "extract"
    /\ read[c] = Len(stream[c].entries)
    /\ Go(c, IF DigestMatches(Name(c), stream[c]) THEN "rename" ELSE "unwindErr")
    /\ UNCHANGED <<objects, target, up, pulling, home, mounts, at, wait, pullVars, histVars>>

\* os.Rename; if it fails because another process was first, that is fine.
Rename(c) ==
    /\ pc[c] = "rename"
    /\ \/ /\ target[Name(c)] = Absent
          /\ target' = [target EXCEPT ![Name(c)] = tmp[c]]
          /\ tmp' = [tmp EXCEPT ![c] = None]
          /\ Go(c, "unwindOk")
       \/ /\ target[Name(c)] # Absent
          /\ Go(c, "unwindOk")
          /\ UNCHANGED <<target, tmp>>
       \/ /\ "disk" \in Faults /\ target[Name(c)] = Absent
          /\ Go(c, "unwindErr")
          /\ UNCHANGED <<target, tmp>>
    /\ UNCHANGED <<objects, up, pulling, home, mounts, at, wait, stream, read, failed, joined>>

\* defer: RemoveAll(cleanup), which is "" after a successful rename.
Cleanup(c) == tmp' = [tmp EXCEPT ![c] = None]

\* Faulty variant: only a successful pull gives the slot back.
FreeSlotOnSuccess(c) ==
    pulling' = [pulling EXCEPT ![home[c]][Name(c)] = IF pc[c] = "unwindOk" THEN None ELSE @]

\* defer: delete(r.pulling, digest); close(done)
FreeSlot(c) == pulling' = [pulling EXCEPT ![home[c]][Name(c)] = None]

\* ensureLocal returns: its deferred functions run, Resolve goes on.
Unwind(c) ==
    /\ pc[c] \in {"unwindOk", "unwindErr"}
    /\ Cleanup(c)
    /\ FreeSlot(c)
    /\ stream' = [stream EXCEPT ![c] = Absent]
    /\ read' = [read EXCEPT ![c] = 0]
    /\ IF pc[c] = "unwindOk"
       THEN NextMount(c) /\ UNCHANGED failed
       ELSE /\ Go(c, "failed")
            /\ failed' = failed \cup {Channel(c)}
            /\ UNCHANGED at
    /\ UNCHANGED <<objects, target, up, home, mounts, wait, joined>>

(***************************************************************************)
(* The environment                                                         *)
(***************************************************************************)
\* S3Store.Put: somebody pushes an archive under its digest; a second push of
\* the same archive succeeds and changes nothing.
Put(a) ==
    /\ a.hash \in Keys
    /\ objects[a.hash] = Absent
    /\ objects' = [objects EXCEPT ![a.hash] = a]
    /\ UNCHANGED <<target, up, pulling, callVars, pullVars, histVars>>

\* A gateway dies and with it its calls; what is on disk stays on disk.
Crash(p) ==
    /\ "crash" \in Faults /\ up[p]
    /\ up' = [up EXCEPT ![p] = FALSE]
    /\ pulling' = [pulling EXCEPT ![p] = [n \in Names |-> None]]
    /\ pc' = [c \in Calls |-> IF home[c] = p /\ pc[c] \notin {"idle", "ok", "failed"}
                              THEN "dead" ELSE pc[c]]
    /\ UNCHANGED <<objects, target, home, mounts, at, wait, pullVars, histVars>>

Restart(p) ==
    /\ ~up[p]
    /\ up' = [up EXCEPT ![p] = TRUE]
    /\ UNCHANGED <<objects, target, pulling, callVars, pullVars, histVars>>

Finished ==
    /\ \A c \in Calls : pc[c] \in {"ok", "failed", "dead"}
    /\ UNCHANGED vars

CallStep(c) ==
    \/ HostMount(c) \/ Stat(c) \/ LockSlot(c) \/ Woken(c)
    \/ Recheck(c) \/ Get(c) \/ ExtractEntry(c) \/ Verify(c) \/ Rename(c) \/ Unwind(c)

Next ==
    \/ \E c \in Calls : Begin(c) \/ CallStep(c) \/ TimedOut(c)
    \/ \E a \in Archives : Put(a)
    \/ \E p \in Procs : Crash(p) \/ Restart(p)
    \/ Finished

Spec == Init /\ [][Next]_vars

\* A call that was begun keeps running, and its download has a deadline.  The
\* deadline of a call that only waits is not relied on.
Fairness == \A c \in Calls : WF_vars(CallStep(c))

FairSpec == Spec /\ Fairness

-----------------------------------------------------------------------------
RegularEntries ==
    {e \in UNION {{a.entries[i] : i \in DOMAIN a.entries} : a \in Archives} : e.kind = "reg"}

\* The trees that can be made of regular entries.
Trees == UNION {[S -> {e.data : e \in RegularEntries}] :
                   S \in SUBSET {e.path : e \in RegularEntries}}

\* A directory that exists is a tree, an empty one too.
ASSUME TreesAssumption == Absent \notin Trees

(***************************************************************************)
(* Type invariant; the trees on disk, finished or not, hold nothing but    *)
(* regular files of an archive.                                            *)
(***************************************************************************)
TypeOK ==
    /\ objects \in [Keys -> Archives \cup {Absent}]
    /\ target \in [Names -> Trees \cup {Absent}]
    /\ tmp \in [Calls -> Trees \cup {None}]
    /\ up \in [Procs -> BOOLEAN]
    /\ pulling \in [Procs -> [Names -> Channels \cup {None}]]
    /\ pc \in [Calls -> {"idle", "mount", "lock", "wait", "recheck", "get", "extract",
                         "rename", "unwindOk", "unwindErr", "ok", "failed", "dead"}]
    /\ home \in [Calls -> Procs]
    /\ mounts \in [Calls -> MountLists \cup {<<>>}]
    /\ at \in [Calls -> 1..(MaxMounts + 1)]
    /\ wait \in [Calls -> Channels \cup {None}]
    /\ stream \in [Calls -> Archives \cup {Absent}]
    /\ read \in [Calls -> Nat]
    /\ failed \subseteq Channels
    /\ joined \in [Calls -> SUBSET Channels]

\* The reference for extraction, written down without the loop: the tree of
\* an archive has, at each path, the data of the last regular entry there;
\* an archive with an entry that is refused has no tree.
TreeOf(a) ==
    LET regular == {i \in DOMAIN a.entries : a.entries[i].kind = "reg"}
        last(p) == CHOOSE i \in regular :
                      /\ a.entries[i].path = p
                      /\ \A j \in regular : a.entries[j].path = p => j <= i
    IN  IF \E i \in DOMAIN a.entries : a.entries[i].kind \in {"symlink", "outside"}
        THEN Absent
        ELSE [p \in {a.entries[i].path : i \in regular} |-> a.entries[last(p)].data]

\* The tree that a digest names.
Payload ==
    [n \in Names |-> IF \E a \in Archives : a.hash = Key[n]
                     THEN TreeOf(CHOOSE a \in Archives : a.hash = Key[n])
                     ELSE Absent]

\* A call that was told "present" by a pull that had failed (layers.go:116).
Misled(c) == joined[c] \cap failed # {}

\* What a call asked for, and how far it is, as LayerCache sees it.
wantedBar == [c \in Calls |-> {mounts[c][i].digest : i \in DOMAIN mounts[c]} \ {None}]
answerBar ==
    [c \in Calls |->
        CASE pc[c] = "idle" -> "none"
          [] pc[c] = "ok" /\ ~Misled(c) -> "ok"
          [] pc[c] \in {"failed", "dead"} \/ (pc[c] = "ok" /\ Misled(c)) -> "failed"
          [] OTHER -> "pending"]

Cache == INSTANCE LayerCache WITH tree <- target, wanted <- wantedBar, answer <- answerBar

\* The resolver implements LayerCache, whatever crashes, breaks off or races:
\* a directory under the cache root is a complete, verified layer from the
\* step in which it appears, it is never changed again, and a call that
\* succeeds finds all its layers there -- except the calls that waited for a
\* pull which failed.
RefinesLayerCache == Cache!Spec

\* Nobody waits for ever on a pull, whichever way that pull ends: a call that
\* was begun is answered (or dies) without having to time out.
EveryCallAnswered ==
    \A c \in Calls : pc[c] # "idle" ~> pc[c] \in {"ok", "failed", "dead"}
=============================================================================
