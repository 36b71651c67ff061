----------------------------- MODULE LayerStore -----------------------------
(***************************************************************************)
(* internal/layers/store.go, the content-addressed layer store on disk, as *)
(* the commands `cfunc layer add | build-python | show | list` use it.     *)
(* Under the store's root are, per digest, the directory blobs/<digest>    *)
(* and the manifest blobs/<digest>.json, and one index.json from           *)
(* name@version to digest.                                                 *)
(*                                                                         *)
(* s.mu serialises the operations of one process; every command is a       *)
(* process of its own, and a process may die between any two system calls. *)
(* Manifests and the index are replaced by way of temporary files that     *)
(* processes share (AtomicFile).                                           *)
(***************************************************************************)
EXTENDS Integers, Sequences, FiniteSets

CONSTANTS
    Ops,        \* the operations
    Home,       \* Home[o]: the process that runs o
    Inputs,     \* what operations are asked to do: see the assumption
    Refs,       \* name@version: records [name, version]
    Digests,
    Files,      \* the files of a layer's tree
    Faults,     \* a subset of {"crash"}
    Absent,     \* no such file or directory
    Garbled,    \* an empty or mixed-up file that does not parse
    None

ASSUME LayerStoreAssumption ==
    /\ Faults \subseteq {"crash"}
    /\ "index" \notin Digests
    /\ None \notin Ops /\ None \notin Digests
    /\ \A file \in {"temp", "main"} \X (Digests \cup {"index"}) : file # None
    /\ Absent # Garbled /\ \A tree \in SUBSET Files : tree # Absent
    /\ \A index \in [Refs -> Digests \cup {None}] : index \notin {Absent, Garbled}
    /\ \A man \in [ref : Refs, digest : Digests] : man \notin {Absent, Garbled}
    /\ \A r \in Refs : DOMAIN r = {"name", "version"} /\ r.version \in Nat
    /\ \A i \in Inputs :
          \/ i.op = "add" /\ i.ref \in Refs /\ i.digest \in Digests /\ i.valid \in BOOLEAN
          \/ i.op = "show" /\ i.ref.name \in {r.name : r \in Refs}
          \/ i.op = "list"

Procs  == {Home[o] : o \in Ops}
Paths  == Digests \cup {"index"}   \* manifests and the index
EmptyIndex == [r \in Refs |-> None]

VARIABLES
    main, temp,  \* the files <path> and <path>.tmp
    blob,        \* blobs/<digest>: the set of files in it, or Absent
    incoming,    \* blobs/<digest>.incoming
    mu,          \* s.mu of each process: its holder
    pc, input,   \* operations: where they are, what they do
    fd,          \* where the file is that an operation has open for writing
    idx,         \* the index as an operation read it
    copied,      \* the files copyTree has done
    answer,      \* what Resolve or List returned: manifests
    overlap,     \* history: operations whose use of the index overlapped
    raced,       \* history: digests that two processes stored at once
    commits      \* history: the operations in the order of their index writes

diskVars == <<main, temp, blob, incoming>>
histVars == <<overlap, raced, commits>>
vars == <<diskVars, mu, pc, input, fd, idx, copied, answer, histVars>>

Init ==
    /\ main = [p \in Paths |-> Absent]
    /\ temp = [p \in Paths |-> Absent]
    /\ blob = [d \in Digests |-> Absent]
    /\ incoming = [d \in Digests |-> Absent]
    /\ mu = [p \in Procs |-> None]
    /\ pc = [o \in Ops |-> "idle"]
    /\ input \in [Ops -> Inputs]
    /\ fd = [o \in Ops |-> None]
    /\ idx = [o \in Ops |-> EmptyIndex]
    /\ copied = [o \in Ops |-> {}]
    /\ answer = [o \in Ops |-> {}]
    /\ overlap = {} /\ raced = {} /\ commits = <<>>

\* atomicWrite, for manifests and the index.
INSTANCE AtomicFile

Go(o, where) == pc' = [pc EXCEPT ![o] = where]
Free(o) == mu' = [mu EXCEPT ![Home[o]] = None]

\* An operation returns; its process exits or goes on to the next one.
Return(o, where) == Go(o, where) /\ Free(o)

(***************************************************************************)
(* Open                                                                    *)
(***************************************************************************)
UsesIndex == {o \in Ops : pc[o] \in {"openTrunc", "openWrite", "openRename",
                                     "idxTrunc", "idxWrite", "idxRename"}}

Elsewhere(o) == {q \in Ops : Home[q] # Home[o]}

\* o begins to read, change and write back the index.
EnterIndex(o) ==
    overlap' = IF UsesIndex \cap Elsewhere(o) = {} THEN overlap
               ELSE overlap \cup (UsesIndex \cap Elsewhere(o)) \cup {o}

\* A process opens the store, once; the first one creates an empty index.
Open(o) ==
    /\ pc[o] = "idle"
    /\ \A q \in Ops \ Elsewhere(o) : pc[q] \notin {"openTrunc", "openWrite", "openRename"}
    /\ IF main["index"] = Absent
       THEN Go(o, "openTrunc") /\ EnterIndex(o)
       ELSE Go(o, "opened") /\ UNCHANGED overlap
    /\ UNCHANGED <<diskVars, mu, input, fd, idx, copied, answer, raced, commits>>

OpenTruncate(o) ==
    /\ pc[o] = "openTrunc"
    /\ Truncate(o, "index")
    /\ Go(o, "openWrite")
    /\ UNCHANGED <<blob, incoming, mu, input, idx, copied, answer, histVars>>

OpenWrite(o) ==
    /\ pc[o] = "openWrite"
    /\ Write(o, "index", EmptyIndex)
    /\ Go(o, "openRename")
    /\ UNCHANGED <<blob, incoming, mu, input, idx, copied, answer, histVars>>

OpenRename(o) ==
    /\ pc[o] = "openRename"
    /\ IF ~CanRename("index")
       THEN Go(o, "error") /\ UNCHANGED <<main, temp, fd>>
       ELSE Go(o, "opened") /\ Rename("index")
    /\ UNCHANGED <<blob, incoming, mu, input, idx, copied, answer, histVars>>

(***************************************************************************)
(* Add                                                                     *)
(***************************************************************************)
Digest(o) == input[o].digest

\* s.mu is free.
Unlocked(o) == mu[Home[o]] = None

\* Name, version and mount path are checked and the tree is hashed (a symlink
\* is refused) before s.mu is taken.
AddBegin(o) ==
    /\ pc[o] = "opened" /\ input[o].op = "add"
    /\ IF input[o].valid
       THEN Unlocked(o) /\ mu' = [mu EXCEPT ![Home[o]] = o] /\ Go(o, "statBlob")
       ELSE Go(o, "refused") /\ UNCHANGED mu
    /\ UNCHANGED <<diskVars, input, fd, idx, copied, answer, histVars>>

Storing(d) == {o \in Ops : /\ input[o].op = "add" /\ Digest(o) = d
                           /\ pc[o] \in {"copy", "manTrunc", "manWrite", "manRename"}}

EnterBlob(o) ==
    raced' = IF Storing(Digest(o)) \cap Elsewhere(o) = {} THEN raced ELSE raced \cup {Digest(o)}

\* The blob is there already, or it is copied to <digest>.incoming first.
StatBlob(o) ==
    /\ pc[o] = "statBlob"
    /\ IF blob[Digest(o)] = Absent
       THEN /\ incoming' = [incoming EXCEPT ![Digest(o)] = {}]   \* RemoveAll first
            /\ Go(o, "copy")
       ELSE /\ Go(o, "manTrunc")
            /\ UNCHANGED incoming
    /\ EnterBlob(o)
    /\ UNCHANGED <<main, temp, blob, mu, input, fd, idx, copied, answer, overlap, commits>>

\* copyTree, one file: MkdirAll brings its directory back if it is gone.
CopyFile(o, f) ==
    /\ pc[o] = "copy" /\ f \notin copied[o]
    /\ incoming' = [incoming EXCEPT ![Digest(o)] = (IF @ = Absent THEN {} ELSE @) \cup {f}]
    /\ copied' = [copied EXCEPT ![o] = @ \cup {f}]
    /\ UNCHANGED <<main, temp, blob, mu, pc, input, fd, idx, answer, histVars>>

\* Faulty variant: the tree is moved into place as soon as it exists.
CopyDoneEarly(o) == TRUE

CopyDone(o) == copied[o] = Files

\* os.Rename(tmp, blobDir): fails if another process has been there.
PublishBlob(o) ==
    /\ pc[o] = "copy" /\ CopyDone(o)
    /\ LET d == Digest(o) IN
        IF incoming[d] # Absent /\ blob[d] = Absent
        THEN /\ blob' = [blob EXCEPT ![d] = incoming[d]]
             /\ Go(o, "manTrunc")
             /\ UNCHANGED mu
        ELSE Return(o, "error") /\ UNCHANGED blob
    /\ incoming' = [incoming EXCEPT ![Digest(o)] = Absent]
    /\ copied' = [copied EXCEPT ![o] = {}]
    /\ UNCHANGED <<main, temp, input, fd, idx, answer, histVars>>

\* Faulty variant: the digest is left out.
ManifestWithoutDigest(o) == [ref |-> input[o].ref, digest |-> None]

\* writeManifest: the last Add of some content decides what its manifest says.
Manifest(o) == [ref |-> input[o].ref, digest |-> Digest(o)]

ManifestTruncate(o) ==
    /\ pc[o] = "manTrunc"
    /\ Truncate(o, Digest(o))
    /\ Go(o, "manWrite")
    /\ UNCHANGED <<blob, incoming, mu, input, idx, copied, answer, histVars>>

ManifestWrite(o) ==
    /\ pc[o] = "manWrite"
    /\ Write(o, Digest(o), Manifest(o))
    /\ Go(o, "manRename")
    /\ UNCHANGED <<blob, incoming, mu, input, idx, copied, answer, histVars>>

ManifestRename(o) ==
    /\ pc[o] = "manRename"
    /\ IF ~CanRename(Digest(o))
       THEN Return(o, "error") /\ UNCHANGED <<main, temp, fd>>
       ELSE Go(o, "readIndex") /\ Rename(Digest(o)) /\ UNCHANGED mu
    /\ UNCHANGED <<blob, incoming, input, idx, copied, answer, histVars>>

\* Faulty variant: the index is started anew.
WithEntryOnly(i, o) == [EmptyIndex EXCEPT ![input[o].ref] = Digest(o)]

\* idx[name@version] = digest
WithEntry(i, o) == [i EXCEPT ![input[o].ref] = Digest(o)]

AddReadIndex(o) ==
    /\ pc[o] = "readIndex" /\ input[o].op = "add"
    /\ IF Parses("index")
       THEN /\ idx' = [idx EXCEPT ![o] = WithEntry(main["index"], o)]
            /\ EnterIndex(o)
            /\ Go(o, "idxTrunc") /\ UNCHANGED mu
       ELSE /\ Return(o, "error")
            /\ UNCHANGED <<idx, overlap>>
    /\ UNCHANGED <<diskVars, input, fd, copied, answer, raced, commits>>

IndexTruncate(o) ==
    /\ pc[o] = "idxTrunc"
    /\ Truncate(o, "index")
    /\ Go(o, "idxWrite")
    /\ UNCHANGED <<blob, incoming, mu, input, idx, copied, answer, histVars>>

IndexWrite(o) ==
    /\ pc[o] = "idxWrite"
    /\ Write(o, "index", idx[o])
    /\ Go(o, "idxRename")
    /\ UNCHANGED <<blob, incoming, mu, input, idx, copied, answer, histVars>>

IndexRename(o) ==
    /\ pc[o] = "idxRename"
    /\ IF ~CanRename("index")
       THEN Return(o, "error") /\ UNCHANGED <<main, temp, fd, commits>>
       ELSE /\ Return(o, "done")
            /\ Rename("index")
            /\ commits' = Append(commits, o)
    /\ idx' = [idx EXCEPT ![o] = EmptyIndex]
    /\ UNCHANGED <<blob, incoming, input, copied, answer, overlap, raced>>

(***************************************************************************)
(* Resolve and List                                                        *)
(***************************************************************************)
\* Without a version: the entry of that name that sorts last.
Latest(i, name) ==
    LET found == {r \in Refs : r.name = name /\ i[r] # None}
    IN  {i[r] : r \in {x \in found : \A y \in found : y.version <= x.version}}

\* The digests whose manifests an operation is going to read.
Selected(o, i) ==
    CASE input[o].op = "list" -> {i[r] : r \in Refs} \ {None}
      [] input[o].ref \in Refs -> {i[input[o].ref]} \ {None}
      [] OTHER -> Latest(i, input[o].ref.name)

ReadBegin(o) ==
    /\ pc[o] = "opened" /\ input[o].op # "add"
    /\ Unlocked(o) /\ mu' = [mu EXCEPT ![Home[o]] = o]
    /\ Go(o, "readIndex")
    /\ UNCHANGED <<diskVars, input, fd, idx, copied, answer, histVars>>

ReadIndex(o) ==
    /\ pc[o] = "readIndex" /\ input[o].op # "add"
    /\ IF ~Parses("index")
       THEN Return(o, "error") /\ UNCHANGED idx
       ELSE IF Selected(o, main["index"]) = {} /\ input[o].op = "show"
            THEN Return(o, "notFound") /\ UNCHANGED idx
            ELSE Go(o, "readMan") /\ idx' = [idx EXCEPT ![o] = main["index"]] /\ UNCHANGED mu
    /\ UNCHANGED <<diskVars, input, fd, copied, answer, histVars>>

ReadManifests(o) ==
    /\ pc[o] = "readMan"
    /\ LET ds == Selected(o, idx[o]) IN
        IF \A d \in ds : Parses(d)
        THEN answer' = [answer EXCEPT ![o] = {main[d] : d \in ds}] /\ Return(o, "done")
        ELSE UNCHANGED answer /\ Return(o, "error")
    /\ idx' = [idx EXCEPT ![o] = EmptyIndex]
    /\ UNCHANGED <<diskVars, input, fd, copied, histVars>>

(***************************************************************************)
(* A process dies: its operation ends where it is, the disk stays.         *)
(***************************************************************************)
Ended == {"done", "error", "refused", "notFound", "dead"}

Crash(p) ==
    /\ "crash" \in Faults
    /\ \E o \in Ops : Home[o] = p /\ pc[o] \notin Ended \cup {"idle"}
    /\ pc' = [o \in Ops |-> IF Home[o] = p /\ pc[o] \notin Ended THEN "dead" ELSE pc[o]]
    /\ mu' = [mu EXCEPT ![p] = None]
    /\ fd' = [o \in Ops |-> IF Home[o] = p THEN None ELSE fd[o]]
    /\ idx' = [o \in Ops |-> IF Home[o] = p THEN EmptyIndex ELSE idx[o]]
    /\ copied' = [o \in Ops |-> IF Home[o] = p THEN {} ELSE copied[o]]
    /\ UNCHANGED <<diskVars, input, answer, histVars>>

Finished == (\A o \in Ops : pc[o] \in Ended) /\ UNCHANGED vars

OpStep(o) ==
    \/ Open(o) \/ OpenTruncate(o) \/ OpenWrite(o) \/ OpenRename(o)
    \/ AddBegin(o) \/ StatBlob(o) \/ (\E f \in Files : CopyFile(o, f)) \/ PublishBlob(o)
    \/ ManifestTruncate(o) \/ ManifestWrite(o) \/ ManifestRename(o)
    \/ AddReadIndex(o) \/ IndexTruncate(o) \/ IndexWrite(o) \/ IndexRename(o)
    \/ ReadBegin(o) \/ ReadIndex(o) \/ ReadManifests(o)

Next ==
    \/ \E o \in Ops : OpStep(o)
    \/ \E p \in Procs : Crash(p)
    \/ Finished

Spec == Init /\ [][Next]_vars

-----------------------------------------------------------------------------
Manifests == [ref : Refs, digest : Digests]
Indexes   == [Refs -> Digests \cup {None}]

(***************************************************************************)
(* Type invariant.                                                         *)
(***************************************************************************)
TypeOK ==
    /\ \A f \in {main, temp} :
          /\ DOMAIN f = Paths
          /\ f["index"] \in Indexes \cup {Absent, Garbled}
          /\ \A d \in Digests : f[d] \in Manifests \cup {Absent, Garbled}
    /\ blob \in [Digests -> (SUBSET Files) \cup {Absent}]
    /\ incoming \in [Digests -> (SUBSET Files) \cup {Absent}]
    /\ mu \in [Procs -> Ops \cup {None}]
    /\ pc \in [Ops -> {"idle", "openTrunc", "openWrite", "openRename", "opened", "statBlob", "copy",
                        "manTrunc", "manWrite", "manRename", "readIndex", "idxTrunc", "idxWrite",
                        "idxRename", "readMan"} \cup Ended]
    /\ input \in [Ops -> Inputs]
    /\ fd \in [Ops -> ({"temp", "main"} \X Paths) \cup {None}]
    /\ idx \in [Ops -> Indexes]
    /\ copied \in [Ops -> SUBSET Files]
    /\ answer \in [Ops -> SUBSET Manifests]
    /\ overlap \subseteq Ops /\ raced \subseteq Digests
    /\ commits \in Seq(Ops)

\* Whatever the index names is there and whole: a crash between blob, manifest
\* and index leaves at most content that nobody refers to.  (Two processes
\* that store the same content at once can spoil it.)
IndexedIsComplete ==
    Parses("index") => \A r \in Refs :
        LET d == main["index"][r] IN
        d # None /\ d \notin raced => blob[d] = Files /\ Parses(d)

\* An Add that returned success stays indexed, whoever crashes where, until a
\* later Add of the same name@version replaces it.  Only operations that have
\* the index in hands at the same time do harm: such a one may lose its own
\* entry, and two of them may leave an index that does not parse, whoever's
\* entries were in it.
AckedStaysIndexed ==
    \A i \in 1..Len(commits) :
        LET o == commits[i]
            later == {commits[j] : j \in (i + 1)..Len(commits)} \cup overlap
        IN  o \notin overlap =>
              IF Parses("index")
              THEN main["index"][input[o].ref] \in
                     {Digest(q) : q \in {x \in {o} \cup later :
                                           input[x].op = "add" /\ input[x].ref = input[o].ref}}
              ELSE \E q, x \in overlap : Home[q] # Home[x]

\* A crash never blocks the store: what it leaves behind makes no later
\* operation fail, whatever that operation is.  Only commands that really run
\* at the same time make each other fail.
CrashIsHarmless ==
    (\E o \in Ops : pc[o] = "error") => overlap # {} \/ raced # {}
=============================================================================
