-------------------------- MODULE LayerStoreProofs --------------------------
(***************************************************************************)
(* The layer store on disk, for any number of processes, operations and    *)
(* layers, with a crash between any two system calls: what the index names *)
(* is whole (CompleteInv), what was acknowledged stays (AckedInv), and     *)
(* only operations that overlap make each other fail (IndexInv, BlobInv).  *)
(***************************************************************************)
EXTENDS LayerStore, TLAPS

OpenPhase == {"openTrunc", "openWrite", "openRename"}
IdxPhase  == {"idxTrunc", "idxWrite", "idxRename"}
ManPhase  == {"manTrunc", "manWrite", "manRename"}
LockPhase == {"statBlob", "copy", "readIndex", "readMan"} \cup ManPhase \cup IdxPhase

\* Who works under s.mu holds it, and only an Add stores.
LockInv ==
    \A o \in Ops :
        /\ pc[o] \in LockPhase => mu[Home[o]] = o
        /\ pc[o] \in {"statBlob", "copy"} \cup ManPhase \cup IdxPhase => input[o].op = "add"
        /\ pc[o] # "copy" => copied[o] = {}

\* A descriptor is open only between truncating and writing.
FdInv ==
    \A o \in Ops : fd[o] # None =>
        \/ pc[o] \in {"openWrite", "idxWrite"} /\ fd[o] \in {<<"temp", "index">>, <<"main", "index">>}
        \/ pc[o] = "manWrite" /\ fd[o] \in {<<"temp", Digest(o)>>, <<"main", Digest(o)>>}

\* A process does nothing else while it opens the store, and then the index
\* exists for good.
OpenedInv ==
    /\ \A o \in Ops : pc[o] \in {"opened"} \cup LockPhase => main["index"] # Absent
    /\ \A o, q \in Ops : pc[o] \in OpenPhase /\ q # o /\ Home[q] = Home[o] =>
          pc[q] \in {"idle"} \cup Ended

\* Positions, locks and descriptors.
ShapeInv == TypeOK /\ LockInv /\ FdInv /\ OpenedInv

\* What the history variable overlap is for: two operations that use the index
\* at the same time are on record.
OverlapInv ==
    \A o, q \in Ops :
        pc[o] \in OpenPhase \cup IdxPhase /\ pc[q] \in OpenPhase \cup IdxPhase /\ o # q => o \in overlap

\* Who is on record is there with an operation of another process.
PairInv == overlap # {} => \E q, x \in overlap : Home[q] # Home[x]

\* And raced: a digest that two operations store at the same time is.
RacedInv ==
    \A o, q \in Ops :
        /\ pc[o] \in {"copy"} \cup ManPhase /\ pc[q] \in {"copy"} \cup ManPhase
        /\ o # q /\ Digest(o) = Digest(q)
        => Digest(o) \in raced

\* A layer that is stored by one process at a time is published whole, and its
\* manifest is complete before it is renamed.
BlobInv ==
    /\ \A d \in Digests \ raced : blob[d] \in {Absent, Files}
    /\ \A o \in Ops : LET d == Digest(o) IN
          /\ pc[o] = "copy" /\ d \notin raced => blob[d] = Absent /\ incoming[d] = copied[o]
          /\ pc[o] \in ManPhase /\ d \notin raced => blob[d] = Files
          /\ pc[o] = "manWrite" /\ d \notin raced => temp[d] = Garbled /\ fd[o] = <<"temp", d>>
          /\ pc[o] = "manRename" /\ d \notin raced => temp[d] \in Manifests

\* A digest may be named by an index.
Good(d) == d \in raced \/ (blob[d] = Files /\ Parses(d))

GoodIndex(i) == \A r \in Refs : i[r] # None => Good(i[r])

\* Every index there is, written, being written or in memory, names only what
\* is complete; an operation that is about to add an entry has completed it.
CompleteInv ==
    /\ \A f \in {main, temp} : f["index"] \in Indexes => GoodIndex(f["index"])
    /\ \A o \in Ops : GoodIndex(idx[o])
    /\ \A o \in Ops : pc[o] \in {"readIndex"} \cup IdxPhase /\ input[o].op = "add" => Good(Digest(o))

\* An operation that overlaps with none has the temporary file for itself.
IndexInv ==
    /\ \A o \in Ops :
          /\ pc[o] \in {"openWrite", "idxWrite"} /\ o \notin overlap =>
                fd[o] = <<"temp", "index">> /\ temp["index"] = Garbled
          /\ pc[o] = "openRename" /\ o \notin overlap => temp["index"] = EmptyIndex
          /\ pc[o] = "idxRename" /\ o \notin overlap => temp["index"] = idx[o]
          /\ pc[o] \in IdxPhase => idx[o][input[o].ref] = Digest(o)
    /\ overlap = {} => main["index"] # Garbled
    /\ CrashIsHarmless

\* Below c, ov and in stand for commits, overlap and input.
\* d is what the i-th commit, a later one, or one that overlapped wrote.
Acceptable(c, ov, in, i, d) ==
    \E q \in Ops :
        /\ q = c[i] \/ q \in ov \/ \E j \in (i + 1)..Len(c) : q = c[j]
        /\ in[q].op = "add" /\ in[q].ref = in[c[i]].ref
        /\ in[q].digest = d

\* An index that keeps all promises ...
Keeps(c, ov, in, ix) ==
    \A i \in 1..Len(c) : c[i] \notin ov => Acceptable(c, ov, in, i, ix[in[c[i]].ref])

\* ... but for the entry that x is about to write.
KeepsBut(c, ov, in, ix, x) ==
    \A i \in 1..Len(c) : c[i] \notin ov =>
        \/ Acceptable(c, ov, in, i, ix[in[c[i]].ref])
        \/ in[x].ref = in[c[i]].ref /\ ix[in[x].ref] = in[x].digest

\* The index, and every one that is going to replace it, keeps the promises.
AckedInv ==
    /\ main["index"] \in Indexes => Keeps(commits, overlap, input, main["index"])
    /\ \A x \in Ops :
          /\ pc[x] \in IdxPhase => KeepsBut(commits, overlap, input, idx[x], x)
          /\ pc[x] = "idxWrite" /\ temp["index"] \in Indexes => Keeps(commits, overlap, input, temp["index"])
          /\ pc[x] = "idxRename" /\ temp["index"] \in Indexes => KeepsBut(commits, overlap, input, temp["index"], x)
          /\ pc[x] \in OpenPhase => \A i \in 1..Len(commits) : commits[i] \in overlap
    /\ \A i \in 1..Len(commits) : input[commits[i]].op = "add"
    /\ Len(commits) # 0 => main["index"] # Absent

-----------------------------------------------------------------------------
\* The type of what a path holds.
Value(p) == IF p = "index" THEN Indexes ELSE Manifests

\* The types of files and descriptors.
FilesOK ==
    /\ DOMAIN main = Paths /\ DOMAIN temp = Paths
    /\ \A p \in Paths : /\ main[p] \in Value(p) \cup {Absent, Garbled}
                        /\ temp[p] \in Value(p) \cup {Absent, Garbled}
    /\ fd \in [Ops -> ({"temp", "main"} \X Paths) \cup {None}]

\* The rest of TypeOK.
RestOK ==
    /\ blob \in [Digests -> (SUBSET Files) \cup {Absent}]
    /\ incoming \in [Digests -> (SUBSET Files) \cup {Absent}]
    /\ mu \in [Procs -> Ops \cup {None}]
    /\ pc \in [Ops -> {"idle", "opened"} \cup OpenPhase \cup LockPhase \cup Ended]
    /\ input \in [Ops -> Inputs]
    /\ idx \in [Ops -> Indexes]
    /\ copied \in [Ops -> SUBSET Files]
    /\ answer \in [Ops -> SUBSET Manifests]
    /\ overlap \subseteq Ops /\ raced \subseteq Digests
    /\ commits \in Seq(Ops)

\* TypeOK, in two parts.
LEMMA TypeParts == TypeOK <=> FilesOK /\ RestOK
<1>1. "index" \in Paths /\ Digests \subseteq Paths /\ \A p \in Paths : p = "index" \/ p \in Digests
  BY DEF Paths
<1>2. \A d \in Digests : d # "index"
  BY LayerStoreAssumption
<1>3. FilesOK <=> /\ \A f \in {main, temp} :
                        /\ DOMAIN f = Paths
                        /\ f["index"] \in Indexes \cup {Absent, Garbled}
                        /\ \A d \in Digests : f[d] \in Manifests \cup {Absent, Garbled}
                  /\ fd \in [Ops -> ({"temp", "main"} \X Paths) \cup {None}]
  BY <1>1, <1>2 DEF FilesOK, Value
<1>. HIDE DEF FilesOK
<1>. QED BY <1>3 DEF TypeOK, RestOK, OpenPhase, LockPhase, ManPhase, IdxPhase

\* The same in the next state.
LEMMA TypePartsNext == TypeOK' <=> FilesOK' /\ RestOK'
<1>1. "index" \in Paths /\ Digests \subseteq Paths /\ \A p \in Paths : p = "index" \/ p \in Digests
  BY DEF Paths
<1>2. \A d \in Digests : d # "index"
  BY LayerStoreAssumption
<1>3. FilesOK' <=> /\ \A f \in {main', temp'} :
                        /\ DOMAIN f = Paths
                        /\ f["index"] \in Indexes \cup {Absent, Garbled}
                        /\ \A d \in Digests : f[d] \in Manifests \cup {Absent, Garbled}
                   /\ fd' \in [Ops -> ({"temp", "main"} \X Paths) \cup {None}]
  BY <1>1, <1>2 DEF FilesOK, Value
<1>. HIDE DEF FilesOK
<1>. QED BY <1>3 DEF TypeOK, RestOK, OpenPhase, LockPhase, ManPhase, IdxPhase

\* The inputs of an Add.
LEMMA AddInput ==
    ASSUME RestOK, NEW o \in Ops, input[o].op = "add"
    PROVE  input[o].ref \in Refs /\ Digest(o) \in Digests /\ input[o].valid \in BOOLEAN
BY LayerStoreAssumption DEF RestOK, Digest

\* Opening <path>.tmp with O_TRUNC.
LEMMA TruncateFacts ==
    ASSUME FilesOK, NEW o \in Ops, NEW p \in Paths, Truncate(o, p)
    PROVE  /\ FilesOK' /\ main' = main
           /\ temp'[p] = Garbled /\ \A r \in Paths \ {p} : temp'[r] = temp[r]
           /\ fd'[o] = <<"temp", p>> /\ \A x \in Ops \ {o} : fd'[x] = fd[x]
BY DEF FilesOK, Truncate

\* A write goes to the file that was opened, on top of what is there.
LEMMA WriteFacts ==
    ASSUME FilesOK, NEW o \in Ops, NEW p \in Paths, NEW v \in Value(p), Write(o, p, v)
    PROVE  /\ FilesOK'
           /\ \A r \in Paths \ {p} : main'[r] = main[r] /\ temp'[r] = temp[r]
           /\ main'[p] \in {main[p], v, Garbled} /\ temp'[p] \in {temp[p], v, Garbled}
           /\ fd[o] # <<"main", p>> => main' = main
           /\ fd[o] = <<"temp", p>> => temp'[p] \in {v, Garbled} /\ (temp[p] = Garbled => temp'[p] = v)
           /\ fd'[o] = None /\ \A x \in Ops \ {o} : fd'[x] = fd[x]
<1>1. fd' = [fd EXCEPT ![o] = None]
  BY DEF Write
<1>2. CASE fd[o] = <<"temp", p>>
  <2>1. PICK w \in Over(temp[p], v) : temp' = [temp EXCEPT ![p] = w]
    BY <1>2 DEF Write
  <2>2. main' = main /\ w \in {v, Garbled} /\ (temp[p] = Garbled => w = v)
    BY <1>2, <2>1 DEF Write, Over
  <2>3. fd[o] # <<"main", p>>
    BY <1>2
  <2>. QED BY <1>1, <1>2, <2>1, <2>2, <2>3 DEF FilesOK
<1>3. CASE fd[o] = <<"main", p>>
  <2>1. PICK w \in Over(main[p], v) : main' = [main EXCEPT ![p] = w]
    BY <1>3 DEF Write
  <2>2. temp' = temp /\ w \in {v, Garbled}
    BY <1>3, <2>1 DEF Write, Over
  <2>3. fd[o] # <<"temp", p>>
    BY <1>3
  <2>. QED BY <1>1, <1>3, <2>1, <2>2, <2>3 DEF FilesOK
<1>4. CASE fd[o] # <<"temp", p>> /\ fd[o] # <<"main", p>>
  <2>1. main' = main /\ temp' = temp
    BY <1>4 DEF Write
  <2>. QED BY <1>1, <1>4, <2>1 DEF FilesOK
<1>. QED BY <1>2, <1>3, <1>4

\* A rename moves <path>.tmp, and open descriptors with it.
LEMMA RenameFacts ==
    ASSUME FilesOK, NEW p \in Paths, Rename(p)
    PROVE  /\ FilesOK'
           /\ main'[p] = temp[p] /\ temp'[p] = Absent
           /\ \A r \in Paths \ {p} : main'[r] = main[r] /\ temp'[r] = temp[r]
           /\ \A x \in Ops : /\ fd'[x] \in {None, fd[x], <<"main", p>>}
                             /\ fd'[x] \notin {None, fd[x]} => fd[x] = <<"temp", p>>
                             /\ fd[x] \notin {<<"temp", p>>, <<"main", p>>} => fd'[x] = fd[x]
<1>1. ASSUME NEW x \in Ops
      PROVE  /\ fd'[x] \in {None, fd[x], <<"main", p>>}
             /\ fd'[x] \notin {None, fd[x]} => fd[x] = <<"temp", p>>
             /\ fd[x] \notin {<<"temp", p>>, <<"main", p>>} => fd'[x] = fd[x]
  <2>1. fd[x] = <<"temp", p>> => fd'[x] = <<"main", p>>
    BY DEF Rename
  <2>2. fd[x] = <<"main", p>> => fd'[x] = None
    <3>1. <<"main", p>> # <<"temp", p>>
      OBVIOUS
    <3>. QED BY <3>1 DEF Rename
  <2>3. fd[x] \notin {<<"temp", p>>, <<"main", p>>} => fd'[x] = fd[x]
    BY DEF Rename
  <2>. QED BY <2>1, <2>2, <2>3
<1>2. fd' \in [Ops -> ({"temp", "main"} \X Paths) \cup {None}]
  BY DEF Rename, FilesOK
<1>. QED BY <1>1, <1>2 DEF FilesOK, Rename

\* Resolve and List look at digests that the index names.
LEMMA SelectedNamed ==
    ASSUME NEW o, NEW i \in Indexes
    PROVE  \A d \in Selected(o, i) : d \in Digests /\ \E r \in Refs : i[r] = d
BY DEF Selected, Latest, Indexes

\* Types are kept by every step.
LEMMA NextTypes == ShapeInv /\ [Next]_vars => FilesOK' /\ RestOK'
<1>. SUFFICES ASSUME ShapeInv, [Next]_vars PROVE FilesOK' /\ RestOK'
  OBVIOUS
<1>. USE DEF Ended, OpenPhase, LockPhase, ManPhase, IdxPhase, diskVars, histVars
<1>a. FilesOK /\ RestOK /\ "index" \in Paths /\ Digests \subseteq Paths /\ EmptyIndex \in Indexes
  BY TypeParts DEF ShapeInv, Paths, EmptyIndex, Indexes
<1>b. \A o \in Ops : Home[o] \in Procs
  BY DEF Procs
<1>c. \A o \in Ops : pc[o] \in {"statBlob", "copy"} \cup ManPhase \cup IdxPhase => Digest(o) \in Digests /\ input[o].ref \in Refs
  BY <1>a, AddInput DEF ShapeInv, LockInv
<1>d. Indexes = Value("index") /\ \A d \in Digests : Value(d) = Manifests
  BY LayerStoreAssumption DEF Value
<1>1. ASSUME NEW o \in Ops, Open(o) PROVE FilesOK' /\ RestOK'
  <2>1. FilesOK'
    BY <1>1, <1>a DEF Open, FilesOK
  <2>2. RestOK'
    BY <1>1, <1>a, <1>b, <1>c DEF Open, Go, EnterIndex, UsesIndex, Elsewhere, RestOK
  <2>. QED BY <2>1, <2>2
<1>2. ASSUME NEW o \in Ops, OpenTruncate(o) PROVE FilesOK' /\ RestOK'
  <2>1. FilesOK'
    BY <1>2, <1>a, <1>c, <1>d, TruncateFacts DEF OpenTruncate, Go, FilesOK, RestOK, Manifests
  <2>2. RestOK'
    BY <1>2, <1>a, <1>b, <1>c DEF OpenTruncate, Go, RestOK
  <2>. QED BY <2>1, <2>2
<1>3. ASSUME NEW o \in Ops, OpenWrite(o) PROVE FilesOK' /\ RestOK'
  <2>1. FilesOK'
    BY <1>3, <1>a, <1>c, <1>d, WriteFacts DEF OpenWrite, Go, FilesOK, RestOK, Manifests
  <2>2. RestOK'
    BY <1>3, <1>a, <1>b, <1>c DEF OpenWrite, Go, RestOK
  <2>. QED BY <2>1, <2>2
<1>4. ASSUME NEW o \in Ops, OpenRename(o) PROVE FilesOK' /\ RestOK'
  <2>1. FilesOK'
    BY <1>4, <1>a, <1>c, <1>d, RenameFacts DEF OpenRename, Go, CanRename, FilesOK, RestOK, Manifests
  <2>2. RestOK'
    BY <1>4, <1>a, <1>b, <1>c DEF OpenRename, Go, CanRename, RestOK
  <2>. QED BY <2>1, <2>2
<1>5. ASSUME NEW o \in Ops, AddBegin(o) PROVE FilesOK' /\ RestOK'
  <2>1. FilesOK'
    BY <1>5, <1>a DEF AddBegin, FilesOK
  <2>2. RestOK'
    BY <1>5, <1>a, <1>b, <1>c DEF AddBegin, Go, Unlocked, RestOK
  <2>. QED BY <2>1, <2>2
<1>6. ASSUME NEW o \in Ops, StatBlob(o) PROVE FilesOK' /\ RestOK'
  <2>1. FilesOK'
    BY <1>6, <1>a DEF StatBlob, FilesOK
  <2>2. RestOK'
    BY <1>6, <1>a, <1>b, <1>c DEF StatBlob, Go, EnterBlob, RestOK
  <2>. QED BY <2>1, <2>2
<1>7. ASSUME NEW o \in Ops, NEW f \in Files, CopyFile(o, f) PROVE FilesOK' /\ RestOK'
  <2>1. FilesOK'
    BY <1>7, <1>a DEF CopyFile, FilesOK
  <2>2. RestOK'
    BY <1>7, <1>a, <1>b, <1>c DEF CopyFile, Go, RestOK
  <2>. QED BY <2>1, <2>2
<1>8. ASSUME NEW o \in Ops, PublishBlob(o) PROVE FilesOK' /\ RestOK'
  <2>1. FilesOK'
    BY <1>8, <1>a DEF PublishBlob, FilesOK
  <2>2. RestOK'
    BY <1>8, <1>a, <1>b, <1>c DEF PublishBlob, Go, Return, Free, CopyDone, RestOK
  <2>. QED BY <2>1, <2>2
<1>9. ASSUME NEW o \in Ops, ManifestTruncate(o) PROVE FilesOK' /\ RestOK'
  <2>1. FilesOK'
    BY <1>9, <1>a, <1>c, <1>d, TruncateFacts DEF ManifestTruncate, Go, FilesOK, RestOK, Manifests
  <2>2. RestOK'
    BY <1>9, <1>a, <1>b, <1>c DEF ManifestTruncate, Go, RestOK
  <2>. QED BY <2>1, <2>2
<1>10. ASSUME NEW o \in Ops, ManifestWrite(o) PROVE FilesOK' /\ RestOK'
  <2>1. FilesOK'
    BY <1>10, <1>a, <1>c, <1>d, WriteFacts DEF ManifestWrite, Go, Manifest, FilesOK, RestOK, Manifests
  <2>2. RestOK'
    BY <1>10, <1>a, <1>b, <1>c DEF ManifestWrite, Go, Manifest, RestOK
  <2>. QED BY <2>1, <2>2
<1>11. ASSUME NEW o \in Ops, ManifestRename(o) PROVE FilesOK' /\ RestOK'
  <2>1. FilesOK'
    BY <1>11, <1>a, <1>c, <1>d, RenameFacts DEF ManifestRename, Go, CanRename, Return, Free, FilesOK, RestOK, Manifests
  <2>2. RestOK'
    BY <1>11, <1>a, <1>b, <1>c DEF ManifestRename, Go, CanRename, Return, Free, RestOK
  <2>. QED BY <2>1, <2>2
<1>12. ASSUME NEW o \in Ops, AddReadIndex(o) PROVE FilesOK' /\ RestOK'
  <2>1. FilesOK'
    BY <1>12, <1>a DEF AddReadIndex, FilesOK
  <2>2. RestOK'
    <3>1. Digest(o) \in Digests /\ input[o].ref \in Refs
      BY <1>12, <1>a, AddInput DEF AddReadIndex
    <3>2. Parses("index") => WithEntry(main["index"], o) \in Indexes
      BY <1>a, <1>d, <3>1 DEF FilesOK, Parses, WithEntry, Indexes
    <3>3. idx' \in [Ops -> Indexes] /\ overlap' \subseteq Ops
      BY <1>12, <1>a, <3>2 DEF AddReadIndex, EnterIndex, UsesIndex, RestOK
    <3>. QED BY <1>12, <1>a, <1>b, <3>3 DEF AddReadIndex, Go, Return, Free, RestOK
  <2>. QED BY <2>1, <2>2
<1>13. ASSUME NEW o \in Ops, IndexTruncate(o) PROVE FilesOK' /\ RestOK'
  <2>1. FilesOK'
    BY <1>13, <1>a, <1>c, <1>d, TruncateFacts DEF IndexTruncate, Go, FilesOK, RestOK, Manifests
  <2>2. RestOK'
    BY <1>13, <1>a, <1>b, <1>c DEF IndexTruncate, Go, RestOK
  <2>. QED BY <2>1, <2>2
<1>14. ASSUME NEW o \in Ops, IndexWrite(o) PROVE FilesOK' /\ RestOK'
  <2>1. FilesOK'
    BY <1>14, <1>a, <1>c, <1>d, WriteFacts DEF IndexWrite, Go, FilesOK, RestOK, Manifests
  <2>2. RestOK'
    BY <1>14, <1>a, <1>b, <1>c DEF IndexWrite, Go, RestOK
  <2>. QED BY <2>1, <2>2
<1>15. ASSUME NEW o \in Ops, IndexRename(o) PROVE FilesOK' /\ RestOK'
  <2>1. FilesOK'
    BY <1>15, <1>a, <1>c, <1>d, RenameFacts DEF IndexRename, Go, CanRename, Return, Free, FilesOK, RestOK, Manifests
  <2>2. RestOK'
    <3>1. commits' \in Seq(Ops) /\ idx' \in [Ops -> Indexes]
      <4>1. commits \in Seq(Ops) /\ idx \in [Ops -> Indexes]
        BY <1>a DEF RestOK
      <4>2. commits' \in {commits, Append(commits, o)} /\ idx' = [idx EXCEPT ![o] = EmptyIndex]
        BY <1>15 DEF IndexRename
      <4>. QED BY <1>a, <4>1, <4>2
    <3>2. mu' \in [Procs -> Ops \cup {None}] /\ \E w \in {"done", "error"} : Go(o, w)
      BY <1>15, <1>a, <1>b DEF IndexRename, Return, Free, RestOK
    <3>. QED BY <1>15, <1>a, <3>1, <3>2 DEF IndexRename, Go, RestOK
  <2>. QED BY <2>1, <2>2
<1>16. ASSUME NEW o \in Ops, ReadBegin(o) PROVE FilesOK' /\ RestOK'
  <2>1. FilesOK'
    BY <1>16, <1>a DEF ReadBegin, FilesOK
  <2>2. RestOK'
    BY <1>16, <1>a, <1>b, <1>c DEF ReadBegin, Go, Unlocked, RestOK
  <2>. QED BY <2>1, <2>2
<1>17. ASSUME NEW o \in Ops, ReadIndex(o) PROVE FilesOK' /\ RestOK'
  <2>1. FilesOK'
    BY <1>17, <1>a DEF ReadIndex, FilesOK
  <2>2. RestOK'
    <3>1. Parses("index") => main["index"] \in Indexes
      BY <1>a, <1>d DEF FilesOK, Parses
    <3>2. idx' \in [Ops -> Indexes]
      BY <1>17, <1>a, <3>1 DEF ReadIndex, RestOK
    <3>3. mu' \in [Procs -> Ops \cup {None}] /\ \E w \in {"readMan", "error", "notFound"} : Go(o, w)
      BY <1>17, <1>a, <1>b DEF ReadIndex, Return, Free, RestOK
    <3>. QED BY <1>17, <1>a, <3>2, <3>3 DEF ReadIndex, Go, RestOK
  <2>. QED BY <2>1, <2>2
<1>18. ASSUME NEW o \in Ops, ReadManifests(o) PROVE FilesOK' /\ RestOK'
  <2>1. FilesOK'
    BY <1>18, <1>a DEF ReadManifests, FilesOK
  <2>2. RestOK'
    <3>1. \A d \in Selected(o, idx[o]) : d \in Digests /\ (Parses(d) => main[d] \in Manifests)
      BY <1>a, <1>d, SelectedNamed DEF FilesOK, RestOK, Parses
    <3>2. answer' \in [Ops -> SUBSET Manifests] /\ idx' \in [Ops -> Indexes]
      BY <1>18, <1>a, <3>1 DEF ReadManifests, RestOK
    <3>3. mu' \in [Procs -> Ops \cup {None}] /\ \E w \in {"done", "error"} : Go(o, w)
      BY <1>18, <1>a, <1>b DEF ReadManifests, Return, Free, RestOK
    <3>. QED BY <1>18, <1>a, <3>2, <3>3 DEF ReadManifests, Go, RestOK
  <2>. QED BY <2>1, <2>2
<1>19. ASSUME NEW p \in Procs, Crash(p) PROVE FilesOK' /\ RestOK'
  BY <1>19, <1>a DEF Crash, FilesOK, RestOK
<1>20. CASE UNCHANGED vars
  BY <1>20, <1>a DEF vars, FilesOK, RestOK
<1>. QED BY <1>1, <1>2, <1>3, <1>4, <1>5, <1>6, <1>7, <1>8, <1>9, <1>10, <1>11, <1>12, <1>13, <1>14,
            <1>15, <1>16, <1>17, <1>18, <1>19, <1>20 DEF Next, OpStep, Finished

\* o goes to w, the others stay where they are.
Moves(o, w) == pc'[o] = w /\ \A x \in Ops \ {o} : pc'[x] = pc[x]

\* Go and Return, spelled out.
LEMMA GoMoves ==
    ASSUME RestOK, NEW o \in Ops, NEW w
    PROVE  /\ Go(o, w) => Moves(o, w)
           /\ Free(o) => /\ mu'[Home[o]] = None
                         /\ \A x \in Ops : Home[x] # Home[o] => mu'[Home[x]] = mu[Home[x]]
<1>1. \A x \in Ops : Home[x] \in Procs
  BY DEF Procs
<1>. QED BY <1>1 DEF RestOK, Go, Moves, Free

\* ShapeInv is inductive.
LEMMA NextShape == ShapeInv /\ [Next]_vars => ShapeInv'
<1>. SUFFICES ASSUME ShapeInv, [Next]_vars PROVE ShapeInv'
  OBVIOUS
<1>. USE DEF Ended, OpenPhase, LockPhase, ManPhase, IdxPhase, diskVars, histVars
<1>a. FilesOK /\ RestOK /\ "index" \in Paths /\ Digests \subseteq Paths /\ EmptyIndex \in Indexes
  BY TypeParts DEF ShapeInv, Paths, EmptyIndex, Indexes
<1>b. TypeOK'
  BY NextTypes, TypePartsNext
<1>c. \A o \in Ops : pc[o] \in {"statBlob", "copy"} \cup ManPhase \cup IdxPhase => Digest(o) \in Digests /\ input[o].ref \in Refs
  BY <1>a, AddInput DEF ShapeInv, LockInv
<1>d. /\ Indexes = Value("index") /\ \A d \in Digests : Value(d) = Manifests
      /\ \A v \in Indexes : v # Absent
  BY LayerStoreAssumption DEF Value, Indexes
<1>e. None \notin Ops /\ Absent # Garbled /\ (\A o \in Ops : Home[o] \in Procs) /\ "index" \notin Digests
  BY LayerStoreAssumption DEF Procs
<1>f. LockInv /\ FdInv /\ OpenedInv
  BY DEF ShapeInv
<1>1. ASSUME NEW o \in Ops, Open(o) PROVE ShapeInv'
  <2>1. input' = input /\ \E w \in {"openTrunc", "opened"} : Moves(o, w)
    BY <1>1, <1>a, GoMoves DEF Open
  <2>2. LockInv'
    BY <1>1, <1>a, <1>e, <1>f, <2>1, GoMoves DEF Open, Moves, LockInv, RestOK
  <2>4. FdInv'
    BY <1>1, <1>f, <2>1 DEF Open, Moves, FdInv, Digest
  <2>5. OpenedInv'
    <3>1. main' = main /\ pc[o] = "idle"
      BY <1>1 DEF Open
    <3>2. \A q \in Ops : Home[q] = Home[o] => pc[q] \notin OpenPhase
      BY <1>1 DEF Open, Elsewhere
    <3>3. CASE main["index"] = Absent
      <4>1. Moves(o, "openTrunc")
        BY <1>1, <1>a, <3>3, GoMoves DEF Open
      <4>2. \A q \in Ops : pc[q] \notin {"opened"} \cup LockPhase
        BY <1>f, <3>3 DEF OpenedInv
      <4>3. \A q \in Ops : pc[q] \in {"idle", "opened"} \cup OpenPhase \cup LockPhase \cup Ended
        BY <1>a DEF RestOK
      <4>. QED BY <1>f, <3>1, <3>2, <4>1, <4>2, <4>3 DEF Moves, OpenedInv
    <3>4. CASE main["index"] # Absent
      <4>1. Moves(o, "opened")
        BY <1>1, <1>a, <3>4, GoMoves DEF Open
      <4>. QED BY <1>f, <3>1, <3>2, <3>4, <4>1 DEF Moves, OpenedInv
    <3>. QED BY <3>3, <3>4
  <2>. QED BY <1>b, <2>2, <2>4, <2>5 DEF ShapeInv
<1>2. ASSUME NEW o \in Ops, OpenTruncate(o) PROVE ShapeInv'
  <2>1. input' = input /\ \E w \in {"openWrite"} : Moves(o, w)
    BY <1>2, <1>a, GoMoves DEF OpenTruncate
  <2>2. LockInv'
    BY <1>2, <1>a, <1>e, <1>f, <2>1, GoMoves DEF OpenTruncate, Moves, LockInv, RestOK
  <2>3. Truncate(o, "index") /\ "index" \in Paths
    BY <1>2, <1>a, <1>c DEF OpenTruncate
  <2>4. FdInv'
    BY <1>2, <1>a, <1>f, <2>1, <2>3, TruncateFacts DEF OpenTruncate, Moves, FdInv, Digest
  <2>5. OpenedInv'
    BY <1>2, <1>a, <1>d, <1>e, <1>f, <2>1, <2>3, TruncateFacts DEF OpenTruncate, Moves, OpenedInv
  <2>. QED BY <1>b, <2>2, <2>4, <2>5 DEF ShapeInv
<1>3. ASSUME NEW o \in Ops, OpenWrite(o) PROVE ShapeInv'
  <2>1. input' = input /\ \E w \in {"openRename"} : Moves(o, w)
    BY <1>3, <1>a, GoMoves DEF OpenWrite
  <2>2. LockInv'
    BY <1>3, <1>a, <1>e, <1>f, <2>1, GoMoves DEF OpenWrite, Moves, LockInv, RestOK
  <2>3. EmptyIndex \in Value("index") /\ Write(o, "index", EmptyIndex) /\ "index" \in Paths
    BY <1>3, <1>a, <1>c, <1>d DEF OpenWrite, RestOK, Manifest, Manifests
  <2>4. FdInv'
    BY <1>3, <1>a, <1>f, <2>1, <2>3, WriteFacts DEF OpenWrite, Moves, FdInv, Digest
  <2>5. OpenedInv'
    BY <1>3, <1>a, <1>d, <1>e, <1>f, <2>1, <2>3, WriteFacts DEF OpenWrite, Moves, OpenedInv
  <2>. QED BY <1>b, <2>2, <2>4, <2>5 DEF ShapeInv
<1>4. ASSUME NEW o \in Ops, OpenRename(o) PROVE ShapeInv'
  <2>1. input' = input /\ \E w \in {"error", "opened"} : Moves(o, w)
    BY <1>4, <1>a, GoMoves DEF OpenRename
  <2>2. LockInv'
    BY <1>4, <1>a, <1>e, <1>f, <2>1, GoMoves DEF OpenRename, Moves, LockInv, RestOK
  <2>3. /\ "index" \in Paths
        /\ UNCHANGED <<main, temp, fd>> \/ (Rename("index") /\ temp["index"] # Absent)
    BY <1>4, <1>a, <1>c DEF OpenRename, CanRename
  <2>4. FdInv'
    <3>1. pc[o] \in {"openRename", "manRename", "idxRename"} /\ fd[o] = None
      BY <1>4, <1>f DEF OpenRename, FdInv
    <3>2. CASE UNCHANGED fd
      BY <1>f, <2>1, <3>1, <3>2 DEF Moves, FdInv, Digest
    <3>3. CASE Rename("index")
      <4>1. \A x \in Ops : fd'[x] # None =>
               /\ fd[x] # None /\ x # o
               /\ fd'[x] = fd[x] \/ (fd[x] = <<"temp", "index">> /\ fd'[x] = <<"main", "index">>)
        BY <1>a, <2>3, <3>1, <3>3, RenameFacts, LayerStoreAssumption DEF Paths
      <4>2. \A y : <<"temp", "index">> = <<"temp", y>> => <<"main", "index">> = <<"main", y>>
        OBVIOUS
      <4>3. \A y : <<"temp", "index">> # <<"main", y>>
        OBVIOUS
      <4>. QED BY <1>f, <2>1, <4>1, <4>2, <4>3 DEF Moves, FdInv, Digest
    <3>. QED BY <2>3, <3>2, <3>3
  <2>5. OpenedInv'
    <3>1. CASE ~CanRename("index")
      <4>1. Moves(o, "error") /\ main' = main
        BY <1>4, <1>a, <3>1, GoMoves DEF OpenRename
      <4>. QED BY <1>f, <4>1 DEF Moves, OpenedInv
    <3>2. CASE CanRename("index")
      <4>1. Moves(o, "opened") /\ main'["index"] # Absent /\ pc[o] = "openRename"
        BY <1>4, <1>a, <3>2, GoMoves, RenameFacts DEF OpenRename, CanRename
      <4>. QED BY <1>f, <4>1 DEF Moves, OpenedInv
    <3>. QED BY <3>1, <3>2
  <2>. QED BY <1>b, <2>2, <2>4, <2>5 DEF ShapeInv
<1>5. ASSUME NEW o \in Ops, AddBegin(o) PROVE ShapeInv'
  <2>1. input' = input /\ \E w \in {"statBlob", "refused"} : Moves(o, w)
    BY <1>5, <1>a, GoMoves DEF AddBegin
  <2>2. LockInv'
    BY <1>5, <1>a, <1>e, <1>f, <2>1, GoMoves DEF AddBegin, Unlocked, Moves, LockInv, RestOK
  <2>4. FdInv'
    BY <1>5, <1>f, <2>1 DEF AddBegin, Moves, FdInv, Digest
  <2>5. OpenedInv'
    BY <1>5, <1>f, <2>1 DEF AddBegin, Moves, OpenedInv
  <2>. QED BY <1>b, <2>2, <2>4, <2>5 DEF ShapeInv
<1>6. ASSUME NEW o \in Ops, StatBlob(o) PROVE ShapeInv'
  <2>1. input' = input /\ \E w \in {"copy", "manTrunc"} : Moves(o, w)
    BY <1>6, <1>a, GoMoves DEF StatBlob
  <2>2. LockInv'
    BY <1>6, <1>a, <1>e, <1>f, <2>1, GoMoves DEF StatBlob, Moves, LockInv, RestOK
  <2>4. FdInv'
    BY <1>6, <1>f, <2>1 DEF StatBlob, Moves, FdInv, Digest
  <2>5. OpenedInv'
    BY <1>6, <1>f, <2>1 DEF StatBlob, Moves, OpenedInv
  <2>. QED BY <1>b, <2>2, <2>4, <2>5 DEF ShapeInv
<1>7. ASSUME NEW o \in Ops, NEW f \in Files, CopyFile(o, f) PROVE ShapeInv'
  <2>1. pc' = pc /\ fd' = fd /\ main' = main /\ mu' = mu /\ input' = input
    BY <1>7 DEF CopyFile
  <2>2. pc[o] = "copy" /\ \A x \in Ops \ {o} : copied'[x] = copied[x]
    BY <1>7, <1>a DEF CopyFile, RestOK
  <2>. QED BY <1>b, <1>f, <2>1, <2>2 DEF ShapeInv, LockInv, FdInv, OpenedInv, Digest
<1>8. ASSUME NEW o \in Ops, PublishBlob(o) PROVE ShapeInv'
  <2>1. input' = input /\ \E w \in {"manTrunc", "error"} : Moves(o, w)
    BY <1>8, <1>a, GoMoves DEF PublishBlob, Return
  <2>2. LockInv'
    BY <1>8, <1>a, <1>e, <1>f, <2>1, GoMoves DEF PublishBlob, Return, Moves, LockInv, RestOK
  <2>4. FdInv'
    BY <1>8, <1>f, <2>1 DEF PublishBlob, Moves, FdInv, Digest
  <2>5. OpenedInv'
    BY <1>8, <1>f, <2>1 DEF PublishBlob, Moves, OpenedInv, Return, Go
  <2>. QED BY <1>b, <2>2, <2>4, <2>5 DEF ShapeInv
<1>9. ASSUME NEW o \in Ops, ManifestTruncate(o) PROVE ShapeInv'
  <2>1. input' = input /\ \E w \in {"manWrite"} : Moves(o, w)
    BY <1>9, <1>a, GoMoves DEF ManifestTruncate
  <2>2. LockInv'
    BY <1>9, <1>a, <1>e, <1>f, <2>1, GoMoves DEF ManifestTruncate, Moves, LockInv, RestOK
  <2>3. Truncate(o, Digest(o)) /\ Digest(o) \in Paths
    BY <1>9, <1>a, <1>c DEF ManifestTruncate
  <2>4. FdInv'
    BY <1>9, <1>a, <1>f, <2>1, <2>3, TruncateFacts DEF ManifestTruncate, Moves, FdInv, Digest
  <2>5. OpenedInv'
    BY <1>9, <1>a, <1>d, <1>e, <1>f, <2>1, <2>3, TruncateFacts DEF ManifestTruncate, Moves, OpenedInv
  <2>. QED BY <1>b, <2>2, <2>4, <2>5 DEF ShapeInv
<1>10. ASSUME NEW o \in Ops, ManifestWrite(o) PROVE ShapeInv'
  <2>1. input' = input /\ \E w \in {"manRename"} : Moves(o, w)
    BY <1>10, <1>a, GoMoves DEF ManifestWrite
  <2>2. LockInv'
    BY <1>10, <1>a, <1>e, <1>f, <2>1, GoMoves DEF ManifestWrite, Moves, LockInv, RestOK
  <2>3. Manifest(o) \in Value(Digest(o)) /\ Write(o, Digest(o), Manifest(o)) /\ Digest(o) \in Paths
    BY <1>10, <1>a, <1>c, <1>d DEF ManifestWrite, RestOK, Manifest, Manifests
  <2>4. FdInv'
    BY <1>10, <1>a, <1>f, <2>1, <2>3, WriteFacts DEF ManifestWrite, Moves, FdInv, Digest
  <2>5. OpenedInv'
    BY <1>10, <1>a, <1>d, <1>e, <1>f, <2>1, <2>3, WriteFacts DEF ManifestWrite, Moves, OpenedInv
  <2>. QED BY <1>b, <2>2, <2>4, <2>5 DEF ShapeInv
<1>11. ASSUME NEW o \in Ops, ManifestRename(o) PROVE ShapeInv'
  <2>1. input' = input /\ \E w \in {"error", "readIndex"} : Moves(o, w)
    BY <1>11, <1>a, GoMoves DEF ManifestRename, Return
  <2>2. LockInv'
    BY <1>11, <1>a, <1>e, <1>f, <2>1, GoMoves DEF ManifestRename, Return, Moves, LockInv, RestOK
  <2>3. /\ Digest(o) \in Paths
        /\ UNCHANGED <<main, temp, fd>> \/ (Rename(Digest(o)) /\ temp[Digest(o)] # Absent)
    BY <1>11, <1>a, <1>c DEF ManifestRename, CanRename
  <2>4. FdInv'
    <3>1. pc[o] \in {"openRename", "manRename", "idxRename"} /\ fd[o] = None
      BY <1>11, <1>f DEF ManifestRename, FdInv
    <3>2. CASE UNCHANGED fd
      BY <1>f, <2>1, <3>1, <3>2 DEF Moves, FdInv, Digest
    <3>3. CASE Rename(Digest(o))
      <4>1. \A x \in Ops : fd'[x] # None =>
               /\ fd[x] # None /\ x # o
               /\ fd'[x] = fd[x] \/ (fd[x] = <<"temp", Digest(o)>> /\ fd'[x] = <<"main", Digest(o)>>)
        BY <1>a, <2>3, <3>1, <3>3, RenameFacts, LayerStoreAssumption DEF Paths
      <4>2. \A y : <<"temp", Digest(o)>> = <<"temp", y>> => <<"main", Digest(o)>> = <<"main", y>>
        OBVIOUS
      <4>3. \A y : <<"temp", Digest(o)>> # <<"main", y>>
        OBVIOUS
      <4>. QED BY <1>f, <2>1, <4>1, <4>2, <4>3 DEF Moves, FdInv, Digest
    <3>. QED BY <2>3, <3>2, <3>3
  <2>5. OpenedInv'
    <3>1. Digest(o) # "index" /\ pc[o] = "manRename"
      BY <1>11, <1>c, <1>e DEF ManifestRename
    <3>2. main'["index"] = main["index"]
      BY <1>a, <2>3, <3>1, RenameFacts
    <3>. QED BY <1>f, <2>1, <3>1, <3>2 DEF Moves, OpenedInv
  <2>. QED BY <1>b, <2>2, <2>4, <2>5 DEF ShapeInv
<1>12. ASSUME NEW o \in Ops, AddReadIndex(o) PROVE ShapeInv'
  <2>1. input' = input /\ \E w \in {"idxTrunc", "error"} : Moves(o, w)
    BY <1>12, <1>a, GoMoves DEF AddReadIndex, Return
  <2>2. LockInv'
    BY <1>12, <1>a, <1>e, <1>f, <2>1, GoMoves DEF AddReadIndex, Return, Moves, LockInv, RestOK
  <2>4. FdInv'
    BY <1>12, <1>f, <2>1 DEF AddReadIndex, Moves, FdInv, Digest
  <2>5. OpenedInv'
    BY <1>12, <1>f, <2>1 DEF AddReadIndex, Moves, OpenedInv, Return, Go
  <2>. QED BY <1>b, <2>2, <2>4, <2>5 DEF ShapeInv
<1>13. ASSUME NEW o \in Ops, IndexTruncate(o) PROVE ShapeInv'
  <2>1. input' = input /\ \E w \in {"idxWrite"} : Moves(o, w)
    BY <1>13, <1>a, GoMoves DEF IndexTruncate
  <2>2. LockInv'
    BY <1>13, <1>a, <1>e, <1>f, <2>1, GoMoves DEF IndexTruncate, Moves, LockInv, RestOK
  <2>3. Truncate(o, "index") /\ "index" \in Paths
    BY <1>13, <1>a, <1>c DEF IndexTruncate
  <2>4. FdInv'
    BY <1>13, <1>a, <1>f, <2>1, <2>3, TruncateFacts DEF IndexTruncate, Moves, FdInv, Digest
  <2>5. OpenedInv'
    BY <1>13, <1>a, <1>d, <1>e, <1>f, <2>1, <2>3, TruncateFacts DEF IndexTruncate, Moves, OpenedInv
  <2>. QED BY <1>b, <2>2, <2>4, <2>5 DEF ShapeInv
<1>14. ASSUME NEW o \in Ops, IndexWrite(o) PROVE ShapeInv'
  <2>1. input' = input /\ \E w \in {"idxRename"} : Moves(o, w)
    BY <1>14, <1>a, GoMoves DEF IndexWrite
  <2>2. LockInv'
    BY <1>14, <1>a, <1>e, <1>f, <2>1, GoMoves DEF IndexWrite, Moves, LockInv, RestOK
  <2>3. idx[o] \in Value("index") /\ Write(o, "index", idx[o]) /\ "index" \in Paths
    BY <1>14, <1>a, <1>c, <1>d DEF IndexWrite, RestOK, Manifest, Manifests
  <2>4. FdInv'
    BY <1>14, <1>a, <1>f, <2>1, <2>3, WriteFacts DEF IndexWrite, Moves, FdInv, Digest
  <2>5. OpenedInv'
    BY <1>14, <1>a, <1>d, <1>e, <1>f, <2>1, <2>3, WriteFacts DEF IndexWrite, Moves, OpenedInv
  <2>. QED BY <1>b, <2>2, <2>4, <2>5 DEF ShapeInv
<1>15. ASSUME NEW o \in Ops, IndexRename(o) PROVE ShapeInv'
  <2>1. input' = input /\ \E w \in {"error", "done"} : Moves(o, w)
    BY <1>15, <1>a, GoMoves DEF IndexRename, Return
  <2>2. LockInv'
    BY <1>15, <1>a, <1>e, <1>f, <2>1, GoMoves DEF IndexRename, Return, Moves, LockInv, RestOK
  <2>3. /\ "index" \in Paths
        /\ UNCHANGED <<main, temp, fd>> \/ (Rename("index") /\ temp["index"] # Absent)
    BY <1>15, <1>a, <1>c DEF IndexRename, CanRename
  <2>4. FdInv'
    <3>1. pc[o] \in {"openRename", "manRename", "idxRename"} /\ fd[o] = None
      BY <1>15, <1>f DEF IndexRename, FdInv
    <3>2. CASE UNCHANGED fd
      BY <1>f, <2>1, <3>1, <3>2 DEF Moves, FdInv, Digest
    <3>3. CASE Rename("index")
      <4>1. \A x \in Ops : fd'[x] # None =>
               /\ fd[x] # None /\ x # o
               /\ fd'[x] = fd[x] \/ (fd[x] = <<"temp", "index">> /\ fd'[x] = <<"main", "index">>)
        BY <1>a, <2>3, <3>1, <3>3, RenameFacts, LayerStoreAssumption DEF Paths
      <4>2. \A y : <<"temp", "index">> = <<"temp", y>> => <<"main", "index">> = <<"main", y>>
        OBVIOUS
      <4>3. \A y : <<"temp", "index">> # <<"main", y>>
        OBVIOUS
      <4>. QED BY <1>f, <2>1, <4>1, <4>2, <4>3 DEF Moves, FdInv, Digest
    <3>. QED BY <2>3, <3>2, <3>3
  <2>5. OpenedInv'
    BY <1>15, <1>a, <1>d, <1>e, <1>f, <2>1, <2>3, RenameFacts DEF IndexRename, Moves, OpenedInv
  <2>. QED BY <1>b, <2>2, <2>4, <2>5 DEF ShapeInv
<1>16. ASSUME NEW o \in Ops, ReadBegin(o) PROVE ShapeInv'
  <2>1. input' = input /\ \E w \in {"readIndex"} : Moves(o, w)
    BY <1>16, <1>a, GoMoves DEF ReadBegin
  <2>2. LockInv'
    BY <1>16, <1>a, <1>e, <1>f, <2>1, GoMoves DEF ReadBegin, Unlocked, Moves, LockInv, RestOK
  <2>4. FdInv'
    BY <1>16, <1>f, <2>1 DEF ReadBegin, Moves, FdInv, Digest
  <2>5. OpenedInv'
    BY <1>16, <1>f, <2>1 DEF ReadBegin, Moves, OpenedInv
  <2>. QED BY <1>b, <2>2, <2>4, <2>5 DEF ShapeInv
<1>17. ASSUME NEW o \in Ops, ReadIndex(o) PROVE ShapeInv'
  <2>1. input' = input /\ \E w \in {"error", "notFound", "readMan"} : Moves(o, w)
    BY <1>17, <1>a, GoMoves DEF ReadIndex, Return
  <2>2. LockInv'
    BY <1>17, <1>a, <1>e, <1>f, <2>1, GoMoves DEF ReadIndex, Return, Moves, LockInv, RestOK
  <2>4. FdInv'
    BY <1>17, <1>f, <2>1 DEF ReadIndex, Moves, FdInv, Digest
  <2>5. OpenedInv'
    BY <1>17, <1>f, <2>1 DEF ReadIndex, Moves, OpenedInv, Return, Go
  <2>. QED BY <1>b, <2>2, <2>4, <2>5 DEF ShapeInv
<1>18. ASSUME NEW o \in Ops, ReadManifests(o) PROVE ShapeInv'
  <2>1. input' = input /\ \E w \in {"done", "error"} : Moves(o, w)
    BY <1>18, <1>a, GoMoves DEF ReadManifests, Return
  <2>2. LockInv'
    BY <1>18, <1>a, <1>e, <1>f, <2>1, GoMoves DEF ReadManifests, Return, Moves, LockInv, RestOK
  <2>4. FdInv'
    BY <1>18, <1>f, <2>1 DEF ReadManifests, Moves, FdInv, Digest
  <2>5. OpenedInv'
    BY <1>18, <1>f, <2>1 DEF ReadManifests, Moves, OpenedInv, Return, Go
  <2>. QED BY <1>b, <2>2, <2>4, <2>5 DEF ShapeInv
<1>19. ASSUME NEW p \in Procs, Crash(p) PROVE ShapeInv'
  <2>1. \A x \in Ops : /\ Home[x] = p => pc'[x] \in Ended /\ fd'[x] = None /\ copied'[x] = {}
                       /\ Home[x] # p => /\ pc'[x] = pc[x] /\ fd'[x] = fd[x] /\ copied'[x] = copied[x]
                                         /\ mu'[Home[x]] = mu[Home[x]]
    BY <1>19, <1>a, <1>e DEF Crash, RestOK
  <2>2. main' = main /\ input' = input
    BY <1>19 DEF Crash
  <2>. QED BY <1>b, <1>f, <2>1, <2>2 DEF ShapeInv, LockInv, FdInv, OpenedInv, Digest
<1>20. CASE UNCHANGED vars
  BY <1>20, <1>b, <1>f DEF vars, ShapeInv, LockInv, FdInv, OpenedInv, Digest
<1>. QED BY <1>1, <1>2, <1>3, <1>4, <1>5, <1>6, <1>7, <1>8, <1>9, <1>10, <1>11, <1>12, <1>13, <1>14,
            <1>15, <1>16, <1>17, <1>18, <1>19, <1>20 DEF Next, OpStep, Finished

-----------------------------------------------------------------------------
\* A step that does not touch blobs, manifests or an operation that stores one.
BlobFrame ==
    /\ UNCHANGED <<input, blob, incoming, raced>>
    /\ \A d \in Digests : main'[d] = main[d] /\ temp'[d] = temp[d]
    /\ \A x \in Ops : pc'[x] \in {"copy"} \cup ManPhase =>
          pc'[x] = pc[x] /\ fd'[x] = fd[x] /\ copied'[x] = copied[x]

\* A step that does not touch the index or an operation that uses it.
IndexFrame ==
    /\ UNCHANGED <<input, overlap, commits>>
    /\ main'["index"] = main["index"] /\ temp'["index"] = temp["index"]
    /\ \A x \in Ops : pc'[x] \in OpenPhase \cup IdxPhase =>
          pc'[x] = pc[x] /\ fd'[x] = fd[x] /\ idx'[x] = idx[x]

\* The steps around the index leave blobs and manifests alone.
LEMMA BlobFrames ==
    ASSUME ShapeInv, NEW o \in Ops,
           \/ Open(o) \/ OpenTruncate(o) \/ OpenWrite(o) \/ OpenRename(o) \/ AddBegin(o)
           \/ AddReadIndex(o) \/ IndexTruncate(o) \/ IndexWrite(o) \/ IndexRename(o)
           \/ ReadBegin(o) \/ ReadIndex(o) \/ ReadManifests(o)
    PROVE  BlobFrame
<1>. USE DEF Ended, OpenPhase, LockPhase, ManPhase, IdxPhase, diskVars, histVars
<1>a. /\ FilesOK /\ RestOK /\ "index" \in Paths /\ Digests \subseteq Paths
      /\ EmptyIndex \in Value("index") /\ idx[o] \in Value("index")
  BY TypeParts DEF ShapeInv, Paths, EmptyIndex, Indexes, RestOK, Value
<1>b. "index" \notin Digests
  BY LayerStoreAssumption
<1>1. \E w \in {"openTrunc", "openWrite", "openRename", "opened", "statBlob", "readIndex", "idxTrunc",
                "idxWrite", "idxRename", "readMan"} \cup Ended : Moves(o, w)
  BY <1>a, GoMoves DEF Open, OpenTruncate, OpenWrite, OpenRename, AddBegin, AddReadIndex, IndexTruncate,
     IndexWrite, IndexRename, ReadBegin, ReadIndex, ReadManifests, Return
<1>2. UNCHANGED <<input, blob, incoming, raced, copied>>
  BY DEF Open, OpenTruncate, OpenWrite, OpenRename, AddBegin, AddReadIndex, IndexTruncate, IndexWrite,
     IndexRename, ReadBegin, ReadIndex, ReadManifests
<1>3. \/ UNCHANGED <<main, temp, fd>> \/ Truncate(o, "index") \/ Rename("index")
      \/ \E v \in {EmptyIndex, idx[o]} : Write(o, "index", v)
  BY DEF Open, OpenTruncate, OpenWrite, OpenRename, AddBegin, AddReadIndex, IndexTruncate, IndexWrite,
     IndexRename, ReadBegin, ReadIndex, ReadManifests
<1>4. \A d \in Digests : main'[d] = main[d] /\ temp'[d] = temp[d]
  BY <1>3, <1>a, <1>b, TruncateFacts, WriteFacts, RenameFacts
<1>5. ASSUME NEW x \in Ops \ {o}, pc[x] \in {"copy"} \cup ManPhase PROVE fd'[x] = fd[x]
  <2>1. fd[x] \notin {<<"temp", "index">>, <<"main", "index">>}
    <3>1. Digest(x) \in Digests
      BY <1>5, <1>a, AddInput DEF ShapeInv, LockInv
    <3>2. fd[x] \in {None, <<"temp", Digest(x)>>, <<"main", Digest(x)>>}
      BY <1>5 DEF ShapeInv, FdInv
    <3>. QED BY <3>1, <3>2, <1>b, LayerStoreAssumption
  <2>. QED BY <2>1, <1>3, <1>a, TruncateFacts, WriteFacts, RenameFacts
<1>. QED BY <1>1, <1>2, <1>4, <1>5 DEF BlobFrame, Moves

\* The steps that store a blob or a manifest leave the index alone, and so do
\* those that only read.
LEMMA IndexFrames ==
    ASSUME ShapeInv, NEW o \in Ops,
           \/ AddBegin(o) \/ StatBlob(o) \/ (\E f \in Files : CopyFile(o, f)) \/ PublishBlob(o)
           \/ ManifestTruncate(o) \/ ManifestWrite(o) \/ ManifestRename(o)
           \/ ReadBegin(o) \/ ReadIndex(o) \/ ReadManifests(o)
    PROVE  IndexFrame
<1>. USE DEF Ended, OpenPhase, LockPhase, ManPhase, IdxPhase, diskVars, histVars
<1>a. FilesOK /\ RestOK /\ "index" \in Paths /\ Digests \subseteq Paths
  BY TypeParts DEF ShapeInv, Paths
<1>b. "index" \notin Digests
  BY LayerStoreAssumption
<1>1. \/ pc' = pc
      \/ \E w \in {"statBlob", "copy", "readIndex", "readMan"} \cup ManPhase \cup Ended : Moves(o, w)
  BY <1>a, GoMoves DEF AddBegin, StatBlob, CopyFile, PublishBlob, ManifestTruncate, ManifestWrite,
     ManifestRename, ReadBegin, ReadIndex, ReadManifests, Return
<1>2. /\ UNCHANGED <<input, overlap, commits>> /\ \A x \in Ops \ {o} : idx'[x] = idx[x]
      /\ pc[o] \notin OpenPhase \cup IdxPhase
  BY <1>a DEF AddBegin, StatBlob, CopyFile, PublishBlob, ManifestTruncate, ManifestWrite,
     ManifestRename, ReadBegin, ReadIndex, ReadManifests, RestOK
<1>3. \/ UNCHANGED <<main, temp, fd>>
      \/ /\ pc[o] \in ManPhase
         /\ Truncate(o, Digest(o)) \/ Rename(Digest(o)) \/ Write(o, Digest(o), Manifest(o))
  BY DEF AddBegin, StatBlob, CopyFile, PublishBlob, ManifestTruncate, ManifestWrite,
     ManifestRename, ReadBegin, ReadIndex, ReadManifests
<1>4. CASE UNCHANGED <<main, temp, fd>>
  BY <1>1, <1>2, <1>4 DEF IndexFrame, Moves
<1>5. CASE /\ pc[o] \in ManPhase
           /\ Truncate(o, Digest(o)) \/ Rename(Digest(o)) \/ Write(o, Digest(o), Manifest(o))
  <2>1. Digest(o) \in Digests /\ Manifest(o) \in Value(Digest(o))
    <3>1. input[o].op = "add"
      BY <1>5 DEF ShapeInv, LockInv
    <3>. QED BY <3>1, <1>a, <1>b, AddInput DEF Manifest, Value, Manifests
  <2>2. main'["index"] = main["index"] /\ temp'["index"] = temp["index"]
    BY <1>5, <1>a, <1>b, <2>1, TruncateFacts, WriteFacts, RenameFacts
  <2>3. ASSUME NEW x \in Ops \ {o}, pc[x] \in OpenPhase \cup IdxPhase PROVE fd'[x] = fd[x]
    <3>1. fd[x] \in {None, <<"temp", "index">>, <<"main", "index">>}
      BY <2>3 DEF ShapeInv, FdInv
    <3>2. fd[x] \notin {<<"temp", Digest(o)>>, <<"main", Digest(o)>>}
      BY <2>1, <3>1, <1>b, LayerStoreAssumption
    <3>. QED BY <3>2, <1>5, <1>a, <2>1, TruncateFacts, WriteFacts, RenameFacts
  <2>. QED BY <1>1, <1>2, <2>2, <2>3 DEF IndexFrame, Moves
<1>. QED BY <1>3, <1>4, <1>5

\* A crash, or nothing at all, touches neither.
LEMMA OtherFrames ==
    ASSUME ShapeInv, (\E p \in Procs : Crash(p)) \/ UNCHANGED vars
    PROVE  BlobFrame /\ IndexFrame
<1>1. RestOK
  BY TypeParts DEF ShapeInv
<1>2. CASE UNCHANGED vars
  BY <1>2 DEF vars, diskVars, histVars, BlobFrame, IndexFrame
<1>3. ASSUME NEW p \in Procs, Crash(p) PROVE BlobFrame /\ IndexFrame
  <2>1. \A x \in Ops : \/ pc'[x] = pc[x] /\ fd'[x] = fd[x] /\ copied'[x] = copied[x] /\ idx'[x] = idx[x]
                       \/ pc'[x] \in Ended
    BY <1>1, <1>3 DEF Crash, RestOK, Ended
  <2>2. UNCHANGED <<main, temp, blob, incoming, input, overlap, raced, commits>>
    BY <1>3 DEF Crash, diskVars, histVars
  <2>. QED BY <2>1, <2>2 DEF BlobFrame, IndexFrame, OpenPhase, ManPhase, IdxPhase, Ended
<1>. QED BY <1>2, <1>3

\* OverlapInv is inductive: Open and AddReadIndex record whom they overlap.
LEMMA NextOverlap == ShapeInv /\ OverlapInv /\ [Next]_vars => OverlapInv' /\ overlap \subseteq overlap'
<1>. SUFFICES ASSUME ShapeInv, OverlapInv, [Next]_vars PROVE OverlapInv' /\ overlap \subseteq overlap'
  OBVIOUS
<1>a. RestOK
  BY TypeParts DEF ShapeInv
<1>1. CASE IndexFrame
  BY <1>1 DEF IndexFrame, OverlapInv
<1>2. ASSUME NEW o \in Ops, NEW w, Moves(o, w), overlap' = overlap,
             w \in OpenPhase \cup IdxPhase => pc[o] \in OpenPhase \cup IdxPhase
      PROVE  OverlapInv' /\ overlap \subseteq overlap'
  BY <1>2 DEF OverlapInv, Moves
<1>3. ASSUME NEW o \in Ops, NEW w, Moves(o, w), EnterIndex(o),
             \A q \in Ops \ {o} : pc[q] \in OpenPhase \cup IdxPhase => Home[q] # Home[o]
      PROVE  OverlapInv' /\ overlap \subseteq overlap'
  <2>1. \A q \in Ops \ {o} : pc[q] \in OpenPhase \cup IdxPhase => q \in UsesIndex \cap Elsewhere(o)
    BY <1>3 DEF UsesIndex, Elsewhere, OpenPhase, IdxPhase
  <2>2. overlap \subseteq overlap'
    BY <1>3 DEF EnterIndex
  <2>3. \A q \in Ops \ {o} : pc[q] \in OpenPhase \cup IdxPhase => q \in overlap' /\ o \in overlap'
    BY <1>3, <2>1 DEF EnterIndex
  <2>. QED BY <1>3, <2>2, <2>3 DEF OverlapInv, Moves
<1>4. ASSUME NEW o \in Ops, Open(o) PROVE OverlapInv' /\ overlap \subseteq overlap'
  <2>1. CASE main["index"] = Absent
    <3>1. Moves(o, "openTrunc") /\ EnterIndex(o)
      BY <1>4, <1>a, <2>1, GoMoves DEF Open
    <3>2. \A q \in Ops : pc[q] \notin IdxPhase
      BY <2>1 DEF ShapeInv, OpenedInv, LockPhase
    <3>3. \A q \in Ops : Home[q] = Home[o] => pc[q] \notin OpenPhase
      BY <1>4 DEF Open, Elsewhere, OpenPhase
    <3>. QED BY <1>3, <3>1, <3>2, <3>3
  <2>2. CASE main["index"] # Absent
    <3>1. Moves(o, "opened") /\ overlap' = overlap
      BY <1>4, <1>a, <2>2, GoMoves DEF Open
    <3>. QED BY <1>2, <3>1 DEF OpenPhase, IdxPhase
  <2>. QED BY <2>1, <2>2
<1>5. ASSUME NEW o \in Ops, AddReadIndex(o) PROVE OverlapInv' /\ overlap \subseteq overlap'
  <2>1. CASE Parses("index")
    <3>1. Moves(o, "idxTrunc") /\ EnterIndex(o) /\ pc[o] = "readIndex"
      BY <1>5, <1>a, <2>1, GoMoves DEF AddReadIndex
    <3>2. \A q \in Ops \ {o} : pc[q] \in IdxPhase => Home[q] # Home[o]
      BY <3>1 DEF ShapeInv, LockInv, LockPhase
    <3>3. \A q \in Ops \ {o} : pc[q] \in OpenPhase => Home[q] # Home[o]
      BY <3>1 DEF ShapeInv, OpenedInv, Ended
    <3>. QED BY <1>3, <3>1, <3>2, <3>3
  <2>2. CASE ~Parses("index")
    <3>1. Moves(o, "error") /\ overlap' = overlap
      BY <1>5, <1>a, <2>2, GoMoves DEF AddReadIndex, Return
    <3>. QED BY <1>2, <3>1 DEF OpenPhase, IdxPhase
  <2>. QED BY <2>1, <2>2
<1>6. ASSUME NEW o \in Ops, OpenTruncate(o) \/ OpenWrite(o) \/ OpenRename(o) \/ IndexTruncate(o)
                            \/ IndexWrite(o) \/ IndexRename(o)
      PROVE  OverlapInv' /\ overlap \subseteq overlap'
  <2>1. pc[o] \in OpenPhase \cup IdxPhase /\ overlap' = overlap /\ \E w : Moves(o, w)
    BY <1>6, <1>a, GoMoves DEF OpenTruncate, OpenWrite, OpenRename, IndexTruncate, IndexWrite, IndexRename,
       Return, OpenPhase, IdxPhase, histVars
  <2>. QED BY <1>2, <2>1
<1>. QED BY <1>1, <1>4, <1>5, <1>6, IndexFrames, OtherFrames DEF Next, OpStep, Finished

\* EnterIndex puts an operation on record together with those it met.
LEMMA NextPair == PairInv /\ [Next]_vars => PairInv'
<1>. SUFFICES ASSUME PairInv, [Next]_vars PROVE PairInv'
  OBVIOUS
<1>1. ASSUME NEW o \in Ops, EnterIndex(o) PROVE PairInv'
  <2>1. CASE UsesIndex \cap Elsewhere(o) = {}
    BY <1>1, <2>1 DEF EnterIndex, PairInv
  <2>2. CASE UsesIndex \cap Elsewhere(o) # {}
    <3>1. PICK q \in UsesIndex : q \in Elsewhere(o)
      BY <2>2
    <3>2. Home[q] # Home[o]
      BY <3>1 DEF Elsewhere
    <3>. QED BY <1>1, <2>2, <3>1, <3>2 DEF EnterIndex, PairInv
  <2>. QED BY <2>1, <2>2
<1>2. UNCHANGED overlap \/ \E o \in Ops : EnterIndex(o)
  BY DEF Next, OpStep, Crash, Finished, vars, histVars, Open, OpenTruncate, OpenWrite, OpenRename, AddBegin, StatBlob,
     CopyFile, PublishBlob, ManifestTruncate, ManifestWrite, ManifestRename, AddReadIndex, IndexTruncate, IndexWrite,
     IndexRename, ReadBegin, ReadIndex, ReadManifests
<1>. QED BY <1>1, <1>2 DEF PairInv

\* RacedInv is inductive: StatBlob records whom it meets.
LEMMA NextRaced == ShapeInv /\ RacedInv /\ [Next]_vars => RacedInv' /\ raced \subseteq raced'
<1>. SUFFICES ASSUME ShapeInv, RacedInv, [Next]_vars PROVE RacedInv' /\ raced \subseteq raced'
  OBVIOUS
<1>a. RestOK
  BY TypeParts DEF ShapeInv
<1>1. CASE BlobFrame
  BY <1>1 DEF BlobFrame, RacedInv, Digest
<1>2. ASSUME NEW o \in Ops, StatBlob(o) PROVE RacedInv' /\ raced \subseteq raced'
  <2>1. pc[o] = "statBlob" /\ input' = input /\ EnterBlob(o) /\ \E w : Moves(o, w)
    BY <1>2, <1>a, GoMoves DEF StatBlob
  <2>2. raced \subseteq raced'
    BY <2>1 DEF EnterBlob
  <2>3. ASSUME NEW q \in Ops \ {o}, pc[q] \in {"copy"} \cup ManPhase, Digest(q) = Digest(o)
        PROVE  Digest(o) \in raced'
    <3>1. Home[q] # Home[o] /\ input[q].op = "add"
      BY <2>1, <2>3 DEF ShapeInv, LockInv, LockPhase
    <3>2. q \in Storing(Digest(o)) \cap Elsewhere(o)
      BY <2>3, <3>1 DEF Storing, Elsewhere, ManPhase
    <3>. QED BY <2>1, <3>2 DEF EnterBlob
  <2>. QED BY <2>1, <2>2, <2>3 DEF RacedInv, Moves, Digest
<1>3. ASSUME NEW o \in Ops, \/ (\E f \in Files : CopyFile(o, f)) \/ PublishBlob(o) \/ ManifestTruncate(o)
                            \/ ManifestWrite(o) \/ ManifestRename(o)
      PROVE  RacedInv' /\ raced \subseteq raced'
  <2>1. /\ pc[o] \in {"copy"} \cup ManPhase /\ input' = input /\ raced' = raced
        /\ pc' = pc \/ \E w : Moves(o, w)
    BY <1>3, <1>a, GoMoves DEF CopyFile, PublishBlob, ManifestTruncate, ManifestWrite, ManifestRename,
       Return, ManPhase, histVars
  <2>. QED BY <2>1 DEF RacedInv, Moves, Digest
<1>. QED BY <1>1, <1>2, <1>3, BlobFrames, OtherFrames DEF Next, OpStep, Finished

\* The files of a manifest after each of the three steps of atomicWrite.
LEMMA ManifestFacts ==
    ASSUME ShapeInv, NEW o \in Ops, ManifestTruncate(o) \/ ManifestWrite(o) \/ ManifestRename(o)
    PROVE  /\ Digest(o) \in Digests /\ input[o].op = "add"
           /\ UNCHANGED <<input, blob, incoming, copied, raced>>
           /\ \A d \in Digests \ {Digest(o)} : main'[d] = main[d] /\ temp'[d] = temp[d]
           /\ \A x \in Ops : pc[x] = "manWrite" /\ Digest(x) # Digest(o) => fd'[x] = fd[x]
           /\ ManifestTruncate(o) => /\ pc[o] = "manTrunc" /\ Moves(o, "manWrite") /\ main' = main
                                     /\ temp'[Digest(o)] = Garbled /\ fd'[o] = <<"temp", Digest(o)>>
           /\ ManifestWrite(o) =>
                 /\ pc[o] = "manWrite" /\ Moves(o, "manRename")
                 /\ fd[o] = <<"temp", Digest(o)>> =>
                       /\ main' = main
                       /\ temp[Digest(o)] = Garbled => temp'[Digest(o)] \in Manifests
           /\ ManifestRename(o) =>
                 /\ pc[o] = "manRename"
                 /\ \/ Moves(o, "error") /\ main' = main /\ temp' = temp /\ temp[Digest(o)] = Absent
                    \/ Moves(o, "readIndex") /\ main'[Digest(o)] = temp[Digest(o)]
<1>. DEFINE d == Digest(o)
<1>a. FilesOK /\ RestOK /\ Digests \subseteq Paths /\ "index" \notin Digests
  BY TypeParts, LayerStoreAssumption DEF ShapeInv, Paths
<1>b. pc[o] \in ManPhase
  BY DEF ManifestTruncate, ManifestWrite, ManifestRename, ManPhase
<1>c. d \in Digests /\ input[o].op = "add" /\ Manifest(o) \in Value(d) /\ Manifest(o) \in Manifests
  BY <1>a, <1>b, AddInput DEF ShapeInv, LockInv, Manifest, Manifests, Value
<1>1. UNCHANGED <<input, blob, incoming, copied, raced>>
  BY DEF ManifestTruncate, ManifestWrite, ManifestRename, histVars
<1>2. Truncate(o, d) \/ Write(o, d, Manifest(o)) \/ Rename(d) \/ UNCHANGED <<main, temp, fd>>
  BY DEF ManifestTruncate, ManifestWrite, ManifestRename
<1>3. \A e \in Digests \ {d} : main'[e] = main[e] /\ temp'[e] = temp[e]
  BY <1>2, <1>a, <1>c, TruncateFacts, WriteFacts, RenameFacts
<1>4. ASSUME NEW x \in Ops, pc[x] = "manWrite", Digest(x) # d PROVE fd'[x] = fd[x]
  <2>1. fd[x] \in {None, <<"temp", Digest(x)>>, <<"main", Digest(x)>>}
    BY <1>4 DEF ShapeInv, FdInv
  <2>2. fd[x] \notin {<<"temp", d>>, <<"main", d>>} /\ x # o
    BY <1>4, <1>a, <1>c, <2>1, LayerStoreAssumption DEF Paths
  <2>. QED BY <2>2, <1>2, <1>a, <1>c, TruncateFacts, WriteFacts, RenameFacts
<1>5. ASSUME ManifestTruncate(o)
      PROVE  /\ pc[o] = "manTrunc" /\ Moves(o, "manWrite") /\ main' = main
             /\ temp'[d] = Garbled /\ fd'[o] = <<"temp", d>>
  BY <1>5, <1>a, <1>c, TruncateFacts, GoMoves DEF ManifestTruncate
<1>6. ASSUME ManifestWrite(o)
      PROVE  /\ pc[o] = "manWrite" /\ Moves(o, "manRename")
             /\ fd[o] = <<"temp", d>> => main' = main /\ (temp[d] = Garbled => temp'[d] \in Manifests)
  <2>1. Write(o, d, Manifest(o)) /\ pc[o] = "manWrite" /\ Moves(o, "manRename")
    BY <1>6, <1>a, GoMoves DEF ManifestWrite
  <2>2. <<"temp", d>> # <<"main", d>>
    OBVIOUS
  <2>. QED BY <2>1, <2>2, <1>a, <1>c, WriteFacts
<1>7. ASSUME ManifestRename(o)
      PROVE  /\ pc[o] = "manRename"
             /\ \/ Moves(o, "error") /\ main' = main /\ temp' = temp /\ temp[d] = Absent
                \/ Moves(o, "readIndex") /\ main'[d] = temp[d]
  BY <1>7, <1>a, <1>c, RenameFacts, GoMoves DEF ManifestRename, CanRename, Return
<1>. QED BY <1>1, <1>3, <1>4, <1>5, <1>6, <1>7, <1>c

\* BlobInv is inductive.
LEMMA NextBlob == ShapeInv /\ RacedInv /\ BlobInv /\ [Next]_vars => BlobInv'
<1>. SUFFICES ASSUME ShapeInv, RacedInv, BlobInv, [Next]_vars PROVE BlobInv'
  OBVIOUS
<1>a. FilesOK /\ RestOK
  BY TypeParts DEF ShapeInv
<1>b. RacedInv' /\ raced \subseteq raced'
  BY NextRaced
<1>c. \A o \in Ops : pc[o] \in {"statBlob", "copy"} \cup ManPhase => Digest(o) \in Digests
  BY <1>a, AddInput DEF ShapeInv, LockInv
<1>d. \A x \in SUBSET Files : x # Absent
  BY LayerStoreAssumption
<1>1. CASE BlobFrame
  <2>1. \A o \in Ops : pc'[o] \in {"copy"} \cup ManPhase => Digest(o) \in Digests /\ Digest(o)' = Digest(o)
    BY <1>1, <1>c DEF BlobFrame, Digest
  <2>. QED BY <1>1, <2>1 DEF BlobFrame, BlobInv, ManPhase
<1>2. ASSUME NEW o \in Ops, StatBlob(o) PROVE BlobInv'
  <2>. DEFINE d == Digest(o)
  <2>1. /\ pc[o] = "statBlob" /\ d \in Digests /\ copied[o] = {}
        /\ UNCHANGED <<input, blob, temp, fd, copied>>
    BY <1>2, <1>c DEF StatBlob, ShapeInv, LockInv
  <2>2. /\ \/ blob[d] = Absent /\ Moves(o, "copy") /\ incoming'[d] = {}
           \/ blob[d] # Absent /\ Moves(o, "manTrunc")
        /\ \A e \in Digests \ {d} : incoming'[e] = incoming[e]
    BY <1>2, <1>a, <2>1, GoMoves DEF StatBlob, RestOK
  <2>3. pc'[o] \in {"copy"} \cup ManPhase
    BY <2>2 DEF Moves, ManPhase
  <2>4. \A x \in Ops \ {o} : pc[x] \in {"copy"} \cup ManPhase /\ Digest(x) \notin raced' => Digest(x) # d
    BY <1>b, <2>1, <2>2, <2>3 DEF RacedInv, Moves, Digest
  <2>5. \A e \in Digests \ raced' : blob'[e] \in {Absent, Files}
    BY <1>b, <2>1 DEF BlobInv
  <2>6. \A x \in Ops \ {o} : /\ pc'[x] = pc[x] /\ Digest(x)' = Digest(x)
                             /\ pc[x] \in {"copy"} \cup ManPhase => Digest(x) \in Digests
    BY <1>c, <2>1, <2>2 DEF Moves, Digest
  <2>7. ASSUME NEW x \in Ops, Digest(x) \notin raced'
        PROVE  LET e == Digest(x) IN
               /\ pc'[x] = "copy" => blob'[e] = Absent /\ incoming'[e] = copied'[x]
               /\ pc'[x] \in ManPhase => blob'[e] = Files
               /\ pc'[x] = "manWrite" => temp'[e] = Garbled /\ fd'[x] = <<"temp", e>>
               /\ pc'[x] = "manRename" => temp'[e] \in Manifests
    <3>1. CASE x = o
      BY <2>1, <2>2, <2>5, <2>7, <3>1 DEF Moves, ManPhase
    <3>2. CASE x # o
      BY <1>b, <2>1, <2>2, <2>4, <2>6, <2>7, <3>2 DEF BlobInv, ManPhase
    <3>. QED BY <3>1, <3>2
  <2>8. \A x \in Ops : Digest(x)' = Digest(x)
    BY <2>1 DEF Digest
  <2>. QED BY <2>5, <2>7, <2>8 DEF BlobInv
<1>3. ASSUME NEW o \in Ops, NEW f \in Files, CopyFile(o, f) PROVE BlobInv'
  <2>. DEFINE d == Digest(o)
  <2>1. /\ pc[o] = "copy" /\ d \in Digests
        /\ UNCHANGED <<input, blob, temp, fd, pc, raced>>
    BY <1>3, <1>c DEF CopyFile, histVars
  <2>2. /\ incoming'[d] = (IF incoming[d] = Absent THEN {} ELSE incoming[d]) \cup {f}
        /\ \A e \in Digests \ {d} : incoming'[e] = incoming[e]
        /\ copied'[o] = copied[o] \cup {f} /\ \A x \in Ops \ {o} : copied'[x] = copied[x]
    BY <1>3, <1>a, <2>1 DEF CopyFile, RestOK
  <2>3. \A x \in Ops \ {o} : pc[x] \in {"copy"} \cup ManPhase /\ Digest(x) \notin raced => Digest(x) \in Digests \ {d}
    BY <1>c, <2>1 DEF RacedInv
  <2>4. d \notin raced => incoming'[d] = copied'[o]
    <3>1. copied[o] # Absent
      BY <1>a, <1>d DEF RestOK
    <3>. QED BY <2>1, <2>2, <3>1 DEF BlobInv
  <2>5. \A x \in Ops : Digest(x)' = Digest(x)
    BY <2>1 DEF Digest
  <2>. QED BY <2>1, <2>2, <2>3, <2>4, <2>5 DEF BlobInv
<1>4. ASSUME NEW o \in Ops, PublishBlob(o) PROVE BlobInv'
  <2>. DEFINE d == Digest(o)
  <2>1. /\ pc[o] = "copy" /\ d \in Digests /\ copied[o] = Files
        /\ UNCHANGED <<input, temp, fd, raced>>
    BY <1>4, <1>c DEF PublishBlob, CopyDone, histVars
  <2>2. /\ \A e \in Digests \ {d} : incoming'[e] = incoming[e] /\ blob'[e] = blob[e]
        /\ \A x \in Ops \ {o} : copied'[x] = copied[x]
        /\ \/ incoming[d] # Absent /\ blob[d] = Absent /\ blob'[d] = incoming[d] /\ Moves(o, "manTrunc")
           \/ ~(incoming[d] # Absent /\ blob[d] = Absent) /\ Moves(o, "error") /\ blob' = blob
    BY <1>4, <1>a, <2>1, GoMoves DEF PublishBlob, RestOK, Return
  <2>3. \A x \in Ops \ {o} : pc[x] \in {"copy"} \cup ManPhase /\ Digest(x) \notin raced => Digest(x) \in Digests \ {d}
    BY <1>c, <2>1 DEF RacedInv
  <2>4. d \notin raced => blob'[d] = Files /\ Moves(o, "manTrunc")
    BY <1>d, <2>1, <2>2 DEF BlobInv
  <2>5. \A x \in Ops : Digest(x)' = Digest(x)
    BY <2>1 DEF Digest
  <2>6. \A e \in Digests \ raced' : blob'[e] \in {Absent, Files}
    BY <2>1, <2>2, <2>4 DEF BlobInv
  <2>. QED BY <2>1, <2>2, <2>3, <2>4, <2>5, <2>6 DEF BlobInv, Moves, ManPhase
<1>5. ASSUME NEW o \in Ops, ManifestTruncate(o) \/ ManifestWrite(o) \/ ManifestRename(o) PROVE BlobInv'
  <2>. DEFINE d == Digest(o)
  <2>1. pc[o] \in ManPhase /\ \E w : Moves(o, w)
    BY <1>5, ManifestFacts DEF ManPhase
  <2>2. \A x \in Ops \ {o} : pc[x] \in {"copy"} \cup ManPhase /\ Digest(x) \notin raced => Digest(x) \in Digests \ {d}
    BY <1>c, <2>1 DEF RacedInv
  <2>3. \A x \in Ops : Digest(x)' = Digest(x)
    BY <1>5, ManifestFacts DEF Digest
  <2>4. ASSUME NEW x \in Ops \ {o}, d # Digest(x), Digest(x) \notin raced
        PROVE  LET e == Digest(x) IN
               /\ pc'[x] = "copy" => blob'[e] = Absent /\ incoming'[e] = copied'[x]
               /\ pc'[x] \in ManPhase => blob'[e] = Files
               /\ pc'[x] = "manWrite" => temp'[e] = Garbled /\ fd'[x] = <<"temp", e>>
               /\ pc'[x] = "manRename" => temp'[e] \in Manifests
    <3>1. pc'[x] = pc[x]
      BY <2>1 DEF Moves
    <3>2. pc[x] \in {"copy"} \cup ManPhase => Digest(x) \in Digests
      BY <1>c
    <3>. QED BY <1>5, <2>4, <3>1, <3>2, ManifestFacts DEF BlobInv, ManPhase
  <2>5. ASSUME d \notin raced
        PROVE  /\ pc'[o] # "copy"
               /\ pc'[o] \in ManPhase => blob'[d] = Files
               /\ pc'[o] = "manWrite" => temp'[d] = Garbled /\ fd'[o] = <<"temp", d>>
               /\ pc'[o] = "manRename" => temp'[d] \in Manifests
    <3>1. blob'[d] = Files
      BY <1>5, <2>1, <2>5, ManifestFacts DEF BlobInv
    <3>. QED BY <1>5, <2>5, <3>1, ManifestFacts DEF BlobInv, Moves
  <2>6. UNCHANGED <<blob, raced>>
    BY <1>5, ManifestFacts
  <2>7. ASSUME NEW x \in Ops
        PROVE  LET e == Digest(x) IN
               /\ pc'[x] = "copy" /\ e \notin raced => blob'[e] = Absent /\ incoming'[e] = copied'[x]
               /\ pc'[x] \in ManPhase /\ e \notin raced => blob'[e] = Files
               /\ pc'[x] = "manWrite" /\ e \notin raced => temp'[e] = Garbled /\ fd'[x] = <<"temp", e>>
               /\ pc'[x] = "manRename" /\ e \notin raced => temp'[e] \in Manifests
    <3>1. CASE x = o
      BY <2>5, <3>1
    <3>2. CASE x # o
      <4>1. pc'[x] = pc[x]
        BY <2>1, <3>2 DEF Moves
      <4>. QED BY <2>2, <2>4, <3>2, <4>1 DEF ManPhase
    <3>. QED BY <3>1, <3>2
  <2>. QED BY <2>3, <2>6, <2>7 DEF BlobInv
<1>. QED BY <1>1, <1>2, <1>3, <1>4, <1>5, BlobFrames, OtherFrames DEF Next, OpStep, Finished

\* What is complete stays complete.
LEMMA GoodStays ==
    ASSUME ShapeInv, RacedInv, BlobInv, [Next]_vars, NEW d \in Digests, Good(d)
    PROVE  Good(d)'
<1>a. FilesOK /\ RestOK
  BY TypeParts DEF ShapeInv
<1>b. raced \subseteq raced'
  BY NextRaced
<1>c. /\ Files # Absent /\ \A v \in Manifests : v \notin {Absent, Garbled}
  BY LayerStoreAssumption DEF Manifests
<1>1. CASE BlobFrame
  BY <1>1 DEF BlobFrame, Good, Parses
<1>2. ASSUME NEW o \in Ops, StatBlob(o) \/ (\E f \in Files : CopyFile(o, f)) PROVE Good(d)'
  BY <1>2, <1>b DEF StatBlob, CopyFile, Good, Parses
<1>3. ASSUME NEW o \in Ops, PublishBlob(o) PROVE Good(d)'
  <2>1. blob[d] = Files => blob'[d] = Files
    BY <1>3, <1>a, <1>c DEF PublishBlob, RestOK
  <2>2. main' = main /\ raced' = raced
    BY <1>3 DEF PublishBlob, histVars
  <2>. QED BY <2>1, <2>2 DEF Good, Parses
<1>4. ASSUME NEW o \in Ops, ManifestTruncate(o) \/ ManifestWrite(o) \/ ManifestRename(o) PROVE Good(d)'
  <2>1. UNCHANGED <<blob, raced>>
    BY <1>4, ManifestFacts
  <2>2. CASE d # Digest(o)
    BY <1>4, <2>1, <2>2, ManifestFacts DEF Good, Parses
  <2>3. CASE d = Digest(o) /\ d \notin raced
    <3>1. main'[d] = main[d] \/ main'[d] \in Manifests
      BY <1>4, <2>3, ManifestFacts DEF BlobInv
    <3>. QED BY <1>c, <2>1, <2>3, <3>1 DEF Good, Parses
  <2>4. CASE d \in raced
    BY <2>1, <2>4 DEF Good
  <2>. QED BY <2>2, <2>3, <2>4
<1>. QED BY <1>1, <1>2, <1>3, <1>4, BlobFrames, OtherFrames DEF Next, OpStep, Finished

-----------------------------------------------------------------------------
\* The steps that replace the index.
IndexSteps(o) ==
    \/ OpenTruncate(o) \/ OpenWrite(o) \/ OpenRename(o)
    \/ IndexTruncate(o) \/ IndexWrite(o) \/ IndexRename(o)

\* What they write.
Written(o) == IF pc[o] \in OpenPhase THEN EmptyIndex ELSE idx[o]

\* The index after each of the three steps of atomicWrite.
LEMMA IndexFacts ==
    ASSUME ShapeInv, NEW o \in Ops, IndexSteps(o)
    PROVE  /\ UNCHANGED <<input, overlap>> /\ Written(o) \in Indexes
           /\ \A x \in Ops \ {o} : idx'[x] = idx[x]
           /\ \/ /\ pc[o] \in {"openTrunc", "idxTrunc"}
                 /\ Moves(o, IF pc[o] = "openTrunc" THEN "openWrite" ELSE "idxWrite")
                 /\ UNCHANGED <<main, idx, commits>>
                 /\ temp'["index"] = Garbled /\ fd'[o] = <<"temp", "index">>
              \/ /\ pc[o] \in {"openWrite", "idxWrite"}
                 /\ Moves(o, IF pc[o] = "openWrite" THEN "openRename" ELSE "idxRename")
                 /\ UNCHANGED <<idx, commits>>
                 /\ main'["index"] \in {main["index"], Written(o), Garbled}
                 /\ temp'["index"] \in {temp["index"], Written(o), Garbled}
                 /\ fd[o] = <<"temp", "index">> =>
                       main' = main /\ (temp["index"] = Garbled => temp'["index"] = Written(o))
              \/ /\ pc[o] \in {"openRename", "idxRename"}
                 /\ Moves(o, "error") /\ UNCHANGED <<main, temp, commits>> /\ temp["index"] = Absent
                 /\ idx'[o] \in {idx[o], EmptyIndex}
              \/ /\ pc[o] = "openRename" /\ Moves(o, "opened") /\ UNCHANGED <<idx, commits>>
                 /\ main'["index"] = temp["index"] /\ temp["index"] # Absent /\ temp'["index"] = Absent
              \/ /\ pc[o] = "idxRename" /\ Moves(o, "done") /\ idx'[o] = EmptyIndex
                 /\ main'["index"] = temp["index"] /\ temp["index"] # Absent /\ temp'["index"] = Absent
                 /\ commits' = Append(commits, o)
<1>a. /\ FilesOK /\ RestOK /\ "index" \in Paths /\ Value("index") = Indexes
      /\ EmptyIndex \in Indexes /\ idx \in [Ops -> Indexes]
  BY TypeParts DEF ShapeInv, Paths, EmptyIndex, Indexes, RestOK, Value
<1>b. Written(o) \in Indexes
  BY <1>a DEF Written
<1>c. <<"temp", "index">> # <<"main", "index">>
  OBVIOUS
<1>1. CASE OpenTruncate(o)
  BY <1>1, <1>a, <1>b, TruncateFacts, GoMoves DEF OpenTruncate, histVars
<1>2. CASE IndexTruncate(o)
  BY <1>2, <1>a, <1>b, TruncateFacts, GoMoves DEF IndexTruncate, histVars
<1>3. CASE OpenWrite(o)
  <2>1. pc[o] = "openWrite" /\ Moves(o, "openRename") /\ UNCHANGED <<input, overlap, idx, commits>>
    BY <1>3, <1>a, GoMoves DEF OpenWrite, histVars
  <2>2. Write(o, "index", Written(o))
    BY <1>3 DEF OpenWrite, Written, OpenPhase
  <2>. QED BY <2>1, <2>2, <1>a, <1>b, <1>c, WriteFacts
<1>4. CASE IndexWrite(o)
  <2>1. pc[o] = "idxWrite" /\ Moves(o, "idxRename") /\ UNCHANGED <<input, overlap, idx, commits>>
    BY <1>4, <1>a, GoMoves DEF IndexWrite, histVars
  <2>2. Write(o, "index", Written(o))
    BY <1>4 DEF IndexWrite, Written, OpenPhase
  <2>. QED BY <2>1, <2>2, <1>a, <1>b, <1>c, WriteFacts
<1>5. CASE OpenRename(o)
  BY <1>5, <1>a, <1>b, RenameFacts, GoMoves DEF OpenRename, CanRename, histVars
<1>6. CASE IndexRename(o)
  BY <1>6, <1>a, <1>b, RenameFacts, GoMoves DEF IndexRename, CanRename, Return
<1>. QED BY <1>1, <1>2, <1>3, <1>4, <1>5, <1>6 DEF IndexSteps

\* i is an index that is there already, empty, or the current one with the
\* entry of an Add whose manifest is written.
Known(i) ==
    \/ i = EmptyIndex \/ i = main["index"] \/ i = temp["index"] \/ \E x \in Ops : i = idx[x]
    \/ \E o \in Ops : /\ pc[o] = "readIndex" /\ input[o].op = "add"
                       /\ main["index"] \in Indexes /\ i = WithEntry(main["index"], o)

\* No step makes up an index.
LEMMA NextKnown ==
    ASSUME ShapeInv, [Next]_vars
    PROVE  /\ main'["index"] \in Indexes => Known(main'["index"])
           /\ temp'["index"] \in Indexes => Known(temp'["index"])
           /\ \A x \in Ops : Known(idx'[x])
<1>a. FilesOK /\ RestOK /\ "index" \in Paths /\ Value("index") = Indexes
  BY TypeParts DEF ShapeInv, Paths, Value
<1>b. Absent \notin Indexes /\ Garbled \notin Indexes
  BY LayerStoreAssumption DEF Indexes
<1>. DEFINE Goal == /\ main'["index"] \in Indexes => Known(main'["index"])
                    /\ temp'["index"] \in Indexes => Known(temp'["index"])
                    /\ \A x \in Ops : Known(idx'[x])
<1>1. ASSUME main'["index"] = main["index"], temp'["index"] = temp["index"],
             \A x \in Ops : idx'[x] \in {idx[x], EmptyIndex, main["index"]}
      PROVE  Goal
  BY <1>1 DEF Known
<1>2. ASSUME NEW o \in Ops, IndexSteps(o) PROVE Goal
  <2>1. Written(o) \in {EmptyIndex, idx[o]}
    BY DEF Written
  <2>2. main'["index"] \in {main["index"], temp["index"], EmptyIndex, idx[o], Absent, Garbled}
    BY <1>2, <2>1, IndexFacts
  <2>3. temp'["index"] \in {temp["index"], EmptyIndex, idx[o], Absent, Garbled}
    BY <1>2, <2>1, IndexFacts
  <2>4. \A x \in Ops : idx'[x] \in {idx[x], EmptyIndex}
    BY <1>2, IndexFacts
  <2>. QED BY <1>b, <2>2, <2>3, <2>4 DEF Known
<1>3. ASSUME NEW o \in Ops, AddReadIndex(o) PROVE Goal
  <2>1. UNCHANGED <<main, temp>> /\ pc[o] = "readIndex" /\ input[o].op = "add"
    BY <1>3 DEF AddReadIndex, diskVars
  <2>2. CASE Parses("index")
    <3>1. main["index"] \in Indexes
      BY <1>a, <2>2 DEF Parses, FilesOK
    <3>2. idx'[o] = WithEntry(main["index"], o) /\ \A x \in Ops \ {o} : idx'[x] = idx[x]
      BY <1>3, <1>a, <2>2 DEF AddReadIndex, RestOK
    <3>. QED BY <2>1, <3>1, <3>2 DEF Known
  <2>3. CASE ~Parses("index")
    BY <1>3, <1>1, <2>1, <2>3 DEF AddReadIndex
  <2>. QED BY <2>2, <2>3
<1>4. ASSUME NEW o \in Ops, ReadIndex(o) \/ ReadManifests(o) PROVE Goal
  <2>1. UNCHANGED <<main, temp>> /\ \A x \in Ops : idx'[x] \in {idx[x], EmptyIndex, main["index"]}
    BY <1>4, <1>a DEF ReadIndex, ReadManifests, diskVars, RestOK
  <2>. QED BY <1>1, <2>1
<1>5. ASSUME NEW o \in Ops, \/ Open(o) \/ AddBegin(o) \/ StatBlob(o) \/ (\E f \in Files : CopyFile(o, f))
                            \/ PublishBlob(o) \/ ManifestTruncate(o) \/ ManifestWrite(o)
                            \/ ManifestRename(o) \/ ReadBegin(o)
      PROVE  Goal
  <2>1. idx' = idx
    BY <1>5 DEF Open, AddBegin, StatBlob, CopyFile, PublishBlob, ManifestTruncate, ManifestWrite,
       ManifestRename, ReadBegin
  <2>2. main'["index"] = main["index"] /\ temp'["index"] = temp["index"]
    BY <1>5, IndexFrames DEF IndexFrame, Open, diskVars
  <2>. QED BY <1>1, <2>1, <2>2
<1>6. ASSUME NEW p \in Procs, Crash(p) PROVE Goal
  BY <1>1, <1>6 DEF Crash, diskVars
<1>7. CASE UNCHANGED vars
  BY <1>1, <1>7 DEF vars, diskVars
<1>. QED BY <1>2, <1>3, <1>4, <1>5, <1>6, <1>7 DEF Next, OpStep, Finished, IndexSteps

\* CompleteInv is inductive.
LEMMA NextComplete == ShapeInv /\ RacedInv /\ BlobInv /\ CompleteInv /\ [Next]_vars => CompleteInv'
<1>. SUFFICES ASSUME ShapeInv, RacedInv, BlobInv, CompleteInv, [Next]_vars PROVE CompleteInv'
  OBVIOUS
<1>a. FilesOK /\ RestOK /\ FilesOK' /\ RestOK'
  BY TypeParts, NextTypes DEF ShapeInv
<1>b. EmptyIndex \in Indexes /\ GoodIndex(EmptyIndex)
  BY DEF EmptyIndex, Indexes, GoodIndex
<1>1. ASSUME NEW i \in Indexes, Known(i) PROVE GoodIndex(i)
  <2>1. CASE \E o \in Ops : /\ pc[o] = "readIndex" /\ input[o].op = "add"
                            /\ main["index"] \in Indexes /\ i = WithEntry(main["index"], o)
    <3>1. PICK o \in Ops : /\ pc[o] = "readIndex" /\ input[o].op = "add"
                           /\ main["index"] \in Indexes /\ i = WithEntry(main["index"], o)
      BY <2>1
    <3>2. GoodIndex(main["index"]) /\ Good(Digest(o))
      BY <3>1 DEF CompleteInv
    <3>. QED BY <3>1, <3>2 DEF WithEntry, GoodIndex, Indexes
  <2>. QED BY <1>1, <1>b, <2>1 DEF Known, CompleteInv
<1>2. ASSUME NEW i \in Indexes, Known(i), NEW r \in Refs, i[r] # None
      PROVE  i[r] \in raced' \/ (blob'[i[r]] = Files /\ main'[i[r]] \notin {Absent, Garbled})
  <2>1. i[r] \in Digests /\ Good(i[r])
    BY <1>1, <1>2 DEF GoodIndex, Indexes
  <2>2. ASSUME NEW d \in Digests, Good(d)
        PROVE  d \in raced' \/ (blob'[d] = Files /\ main'[d] \notin {Absent, Garbled})
    BY <2>2, GoodStays DEF Good, Parses
  <2>. QED BY <2>1, <2>2
<1>3. (\A f \in {main, temp} : f["index"] \in Indexes => GoodIndex(f["index"]))'
  BY <1>2, NextKnown DEF GoodIndex, Good, Parses
<1>4. (\A o \in Ops : GoodIndex(idx[o]))'
  BY <1>2, <1>a, NextKnown DEF GoodIndex, Good, Parses, RestOK
<1>5. ASSUME NEW x \in Ops, pc'[x] \in {"readIndex"} \cup IdxPhase, input'[x].op = "add"
      PROVE  Good(Digest(x))'
  <2>1. input' = input
    BY DEF Next, OpStep, Open, OpenTruncate, OpenWrite, OpenRename, AddBegin, StatBlob, CopyFile, PublishBlob,
       ManifestTruncate, ManifestWrite, ManifestRename, AddReadIndex, IndexTruncate, IndexWrite, IndexRename,
       ReadBegin, ReadIndex, ReadManifests, Crash, Finished, vars
  <2>. DEFINE d == Digest(x)
  <2>2. d \in Digests /\ Digest(x)' = d /\ input[x].op = "add"
    BY <1>5, <1>a, <2>1, AddInput DEF Digest
  <2>3. CASE pc[x] \in {"readIndex"} \cup IdxPhase
    <3>1. Good(d)
      BY <2>2, <2>3 DEF CompleteInv
    <3>. QED BY <2>2, <3>1, GoodStays DEF Good, Parses
  <2>4. CASE ManifestRename(x)
    <3>1. blob' = blob /\ raced' = raced /\ (d \notin raced => main'[d] \in Manifests /\ blob[d] = Files)
      <4>1. pc[x] = "manRename" /\ Moves(x, "readIndex") /\ main'[d] = temp[d]
        BY <1>5, <2>4, ManifestFacts DEF Moves, IdxPhase
      <4>. QED BY <2>4, <4>1, ManifestFacts DEF BlobInv, ManPhase
    <3>2. \A v \in Manifests : v \notin {Absent, Garbled}
      BY LayerStoreAssumption DEF Manifests
    <3>. QED BY <2>2, <3>1, <3>2 DEF Good, Parses
  <2>5. pc[x] \in {"readIndex"} \cup IdxPhase \/ ManifestRename(x)
    <3>1. ASSUME NEW o \in Ops, OpStep(o) PROVE pc' = pc \/ \E w : Moves(o, w)
      BY <1>a, <3>1, GoMoves DEF OpStep, Open, OpenTruncate, OpenWrite, OpenRename, AddBegin, StatBlob, CopyFile,
         PublishBlob, ManifestTruncate, ManifestWrite, ManifestRename, AddReadIndex, IndexTruncate, IndexWrite,
         IndexRename, ReadBegin, ReadIndex, ReadManifests, Return
    <3>2. ASSUME OpStep(x) PROVE pc[x] \in {"readIndex"} \cup IdxPhase \/ ManifestRename(x)
      BY <1>5, <1>a, <2>1, <3>2 DEF OpStep, Open, OpenTruncate, OpenWrite, OpenRename, AddBegin, StatBlob, CopyFile,
         PublishBlob, ManifestTruncate, ManifestWrite, AddReadIndex, IndexTruncate, IndexWrite,
         IndexRename, ReadBegin, ReadIndex, ReadManifests, Return, Go, RestOK, IdxPhase
    <3>3. ASSUME NEW p \in Procs, Crash(p) PROVE pc'[x] \in Ended \/ pc'[x] = pc[x]
      BY <3>3 DEF Crash, Ended
    <3>4. UNCHANGED vars => pc' = pc
      BY DEF vars
    <3>. QED BY <1>5, <3>1, <3>2, <3>3, <3>4 DEF Next, Finished, Moves, Ended, IdxPhase
  <2>. QED BY <2>3, <2>4, <2>5
<1>. QED BY <1>3, <1>4, <1>5 DEF CompleteInv

-----------------------------------------------------------------------------
\* An error is the doing of others: what an operation reads and renames is
\* there and parses, unless two of them met.
LEMMA NextHarmless ==
    ShapeInv /\ BlobInv /\ CompleteInv /\ IndexInv /\ OverlapInv /\ RacedInv /\ [Next]_vars => CrashIsHarmless'
<1>. SUFFICES ASSUME ShapeInv, BlobInv, CompleteInv, IndexInv, OverlapInv, RacedInv, [Next]_vars,
                     NEW x \in Ops, pc'[x] = "error"
              PROVE  overlap' # {} \/ raced' # {}
  BY DEF CrashIsHarmless
<1>a. FilesOK /\ RestOK /\ "index" \in Paths /\ Value("index") = Indexes
  BY TypeParts DEF ShapeInv, Paths, Value
<1>b. Absent \notin Indexes /\ Garbled \notin Indexes /\ EmptyIndex \in Indexes
  BY LayerStoreAssumption DEF Indexes, EmptyIndex
<1>c. overlap \subseteq overlap' /\ raced \subseteq raced'
  BY NextOverlap, NextRaced
<1>d. SUFFICES ASSUME overlap = {}, raced = {} PROVE FALSE
  BY <1>c
<1>e. pc[x] # "error"
  BY <1>d DEF IndexInv, CrashIsHarmless
<1>f. \A o \in Ops : pc[o] \in {"opened"} \cup LockPhase => Parses("index")
  BY <1>d DEF ShapeInv, OpenedInv, IndexInv, Parses
<1>1. ASSUME NEW o \in Ops, OpenRename(o) \/ IndexRename(o) PROVE Moves(o, "opened") \/ Moves(o, "done")
  <2>1. pc[o] \in {"openRename", "idxRename"} /\ idx[o] \in Indexes
    BY <1>1, <1>a DEF OpenRename, IndexRename, RestOK
  <2>2. temp["index"] \in Indexes
    BY <1>b, <1>d, <2>1 DEF IndexInv
  <2>. QED BY <1>1, <1>a, <1>b, <2>2, GoMoves DEF OpenRename, IndexRename, CanRename, Return
<1>2. ASSUME NEW o \in Ops, PublishBlob(o) PROVE Moves(o, "manTrunc")
  <2>1. Digest(o) \in Digests /\ pc[o] = "copy" /\ copied[o] = Files
    BY <1>2, <1>a, AddInput DEF PublishBlob, CopyDone, ShapeInv, LockInv
  <2>2. incoming[Digest(o)] # Absent /\ blob[Digest(o)] = Absent
    BY <1>d, <2>1, LayerStoreAssumption DEF BlobInv
  <2>. QED BY <1>2, <1>a, <2>2, GoMoves DEF PublishBlob
<1>3. ASSUME NEW o \in Ops, ManifestRename(o) PROVE Moves(o, "readIndex")
  <2>1. pc[o] = "manRename" /\ Digest(o) \in Digests
    BY <1>3, ManifestFacts
  <2>2. temp[Digest(o)] # Absent
    BY <1>d, <2>1, LayerStoreAssumption DEF BlobInv, Manifests
  <2>. QED BY <1>3, <2>2, ManifestFacts
<1>4. ASSUME NEW o \in Ops, AddReadIndex(o) PROVE Moves(o, "idxTrunc")
  BY <1>4, <1>a, <1>f, GoMoves DEF AddReadIndex, LockPhase
<1>5. ASSUME NEW o \in Ops, ReadIndex(o) PROVE Moves(o, "readMan") \/ Moves(o, "notFound")
  BY <1>5, <1>a, <1>f, GoMoves DEF ReadIndex, LockPhase, Return
<1>6. ASSUME NEW o \in Ops, ReadManifests(o) PROVE Moves(o, "done")
  <2>1. idx[o] \in Indexes /\ GoodIndex(idx[o])
    BY <1>a DEF RestOK, CompleteInv
  <2>2. \A d \in Selected(o, idx[o]) : Parses(d)
    <3>1. ASSUME NEW d \in Selected(o, idx[o]) PROVE Parses(d)
      <4>1. PICK r \in Refs : idx[o][r] = d
        BY <2>1, SelectedNamed
      <4>2. d # None
        BY <2>1, SelectedNamed, LayerStoreAssumption
      <4>. QED BY <1>d, <2>1, <4>1, <4>2 DEF GoodIndex, Good
    <3>. QED BY <3>1
  <2>. QED BY <1>6, <1>a, <2>2, GoMoves DEF ReadManifests, Return
<1>7. ASSUME NEW o \in Ops, \/ Open(o) \/ OpenTruncate(o) \/ OpenWrite(o) \/ AddBegin(o) \/ StatBlob(o)
                            \/ (\E f \in Files : CopyFile(o, f)) \/ ManifestTruncate(o) \/ ManifestWrite(o)
                            \/ IndexTruncate(o) \/ IndexWrite(o) \/ ReadBegin(o)
      PROVE  pc' = pc \/ \E w : w # "error" /\ Moves(o, w)
  BY <1>7, <1>a, GoMoves DEF Open, OpenTruncate, OpenWrite, AddBegin, StatBlob, CopyFile, ManifestTruncate,
     ManifestWrite, IndexTruncate, IndexWrite, ReadBegin
<1>8. ASSUME NEW p \in Procs, Crash(p) PROVE pc'[x] \in {"dead", pc[x]}
  BY <1>8 DEF Crash
<1>9. UNCHANGED vars => pc' = pc
  BY DEF vars
<1>10. ASSUME NEW o \in Ops, OpStep(o) PROVE pc' = pc \/ \E w : w # "error" /\ Moves(o, w)
  BY <1>1, <1>2, <1>3, <1>4, <1>5, <1>6, <1>7, <1>10 DEF OpStep
<1>. QED BY <1>e, <1>8, <1>9, <1>10 DEF Next, Finished, Moves

\* IndexInv is inductive: who meets another user of the index is in overlap.
LEMMA NextIndex ==
    ShapeInv /\ BlobInv /\ CompleteInv /\ IndexInv /\ OverlapInv /\ RacedInv /\ [Next]_vars => IndexInv'
<1>. SUFFICES ASSUME ShapeInv, BlobInv, CompleteInv, IndexInv, OverlapInv, RacedInv, [Next]_vars PROVE IndexInv'
  OBVIOUS
<1>a. FilesOK /\ RestOK /\ "index" \in Paths /\ Value("index") = Indexes
  BY TypeParts DEF ShapeInv, Paths, Value
<1>b. Absent \notin Indexes /\ Garbled \notin Indexes /\ EmptyIndex \in Indexes
  BY LayerStoreAssumption DEF Indexes, EmptyIndex
<1>c. overlap \subseteq overlap' /\ CrashIsHarmless'
  BY NextOverlap, NextHarmless
<1>. DEFINE Own(x) ==
        /\ pc[x] \in {"openWrite", "idxWrite"} /\ x \notin overlap =>
              fd[x] = <<"temp", "index">> /\ temp["index"] = Garbled
        /\ pc[x] = "openRename" /\ x \notin overlap => temp["index"] = EmptyIndex
        /\ pc[x] = "idxRename" /\ x \notin overlap => temp["index"] = idx[x]
        /\ pc[x] \in IdxPhase => idx[x][input[x].ref] = Digest(x)
<1>. DEFINE Clean == overlap = {} => main["index"] # Garbled
<1>d. (\A x \in Ops : Own(x)) /\ Clean
  BY DEF IndexInv
<1>e. SUFFICES (\A x \in Ops : Own(x)') /\ Clean'
  BY <1>c DEF IndexInv
<1>1. ASSUME NEW x \in Ops, pc'[x] \in OpenPhase \cup IdxPhase, pc'[x] = pc[x], fd'[x] = fd[x], idx'[x] = idx[x],
             temp'["index"] = temp["index"], input' = input
      PROVE  Own(x)'
  BY <1>1, <1>c, <1>d DEF Digest
<1>2. ASSUME NEW x \in Ops, pc'[x] \notin OpenPhase \cup IdxPhase PROVE Own(x)'
  BY <1>2 DEF OpenPhase, IdxPhase
<1>3. CASE IndexFrame
  <2>1. \A x \in Ops : Own(x)'
    BY <1>1, <1>2, <1>3 DEF IndexFrame
  <2>2. Clean'
    BY <1>3, <1>d DEF IndexFrame
  <2>. QED BY <2>1, <2>2
<1>4. ASSUME NEW o \in Ops, Open(o) PROVE (\A x \in Ops : Own(x)') /\ Clean'
  <2>1. UNCHANGED <<main, temp, fd, idx, input>> /\ (Moves(o, "openTrunc") \/ Moves(o, "opened"))
    BY <1>4, <1>a, GoMoves DEF Open, diskVars
  <2>2. Own(o)'
    BY <2>1 DEF Moves, IdxPhase
  <2>3. ASSUME NEW x \in Ops \ {o} PROVE Own(x)'
    BY <1>1, <1>2, <2>1 DEF Moves
  <2>4. Clean'
    BY <1>c, <1>d, <2>1
  <2>. QED BY <2>2, <2>3, <2>4
<1>5. ASSUME NEW o \in Ops, AddReadIndex(o) PROVE (\A x \in Ops : Own(x)') /\ Clean'
  <2>1. /\ UNCHANGED <<main, temp, fd, input>> /\ \A x \in Ops \ {o} : idx'[x] = idx[x]
        /\ \/ Moves(o, "error")
           \/ Moves(o, "idxTrunc") /\ Parses("index") /\ idx'[o] = WithEntry(main["index"], o)
    BY <1>5, <1>a, GoMoves DEF AddReadIndex, diskVars, Return, RestOK
  <2>2. Own(o)'
    <3>1. CASE Moves(o, "error")
      BY <1>2, <3>1 DEF Moves, OpenPhase, IdxPhase
    <3>2. CASE Moves(o, "idxTrunc") /\ Parses("index") /\ idx'[o] = WithEntry(main["index"], o)
      <4>1. main["index"] \in Indexes /\ input[o].ref \in Refs
        BY <1>5, <1>a, <3>2, AddInput DEF Parses, FilesOK, AddReadIndex
      <4>2. idx'[o][input[o].ref] = Digest(o)
        BY <3>2, <4>1 DEF WithEntry, Indexes
      <4>. QED BY <2>1, <3>2, <4>2 DEF Moves, Digest
    <3>. QED BY <2>1, <3>1, <3>2
  <2>3. ASSUME NEW x \in Ops \ {o} PROVE Own(x)'
    BY <1>1, <1>2, <2>1 DEF Moves
  <2>4. Clean'
    BY <1>c, <1>d, <2>1
  <2>. QED BY <2>2, <2>3, <2>4
<1>6. ASSUME NEW o \in Ops, IndexSteps(o) PROVE (\A x \in Ops : Own(x)') /\ Clean'
  <2>1. pc[o] \in OpenPhase \cup IdxPhase /\ (\E w : Moves(o, w)) /\ UNCHANGED <<input, overlap>>
    BY <1>6, IndexFacts DEF OpenPhase, IdxPhase
  <2>2. Own(o)'
    BY <1>6, <1>d, <2>1, IndexFacts DEF Moves, OpenPhase, IdxPhase, Written, Digest
  <2>3. ASSUME NEW x \in Ops \ {o} PROVE Own(x)'
    <3>1. pc'[x] = pc[x] /\ idx'[x] = idx[x]
      BY <1>6, <2>1, IndexFacts DEF Moves
    <3>2. CASE pc[x] \in OpenPhase \cup IdxPhase
      <4>1. x \in overlap
        BY <2>1, <3>2 DEF OverlapInv
      <4>. QED BY <1>d, <2>1, <3>1, <4>1 DEF Digest
    <3>. QED BY <1>2, <3>1, <3>2
  <2>4. Clean'
    <3>1. SUFFICES ASSUME overlap = {} PROVE main'["index"] # Garbled
      BY <2>1
    <3>2. main["index"] # Garbled /\ idx[o] \in Indexes
      BY <1>a, <1>d, <3>1 DEF RestOK
    <3>. QED BY <1>6, <1>b, <1>d, <3>1, <3>2, IndexFacts
  <2>. QED BY <2>2, <2>3, <2>4
<1>. QED BY <1>3, <1>4, <1>5, <1>6, IndexFrames, OtherFrames DEF Next, OpStep, Finished, IndexSteps

-----------------------------------------------------------------------------
\* A promise that is kept stays kept when more operations overlap.
LEMMA KeepsMore ==
    ASSUME NEW c, NEW ov, NEW more, ov \subseteq more, NEW in, NEW ix
    PROVE  /\ Keeps(c, ov, in, ix) => Keeps(c, more, in, ix)
           /\ \A x \in Ops : KeepsBut(c, ov, in, ix, x) => KeepsBut(c, more, in, ix, x)
BY DEF Keeps, KeepsBut, Acceptable

\* To keep all promises is enough, and for one that overlaps so is to keep the
\* others.
LEMMA KeepsEither ==
    ASSUME NEW c, NEW ov, NEW in, NEW ix, NEW x \in Ops
    PROVE  /\ Keeps(c, ov, in, ix) => KeepsBut(c, ov, in, ix, x)
           /\ KeepsBut(c, ov, in, ix, x) /\ x \in ov /\ in[x].op = "add" => Keeps(c, ov, in, ix)
BY DEF Keeps, KeepsBut, Acceptable

\* A commit of o makes a promise only if o overlapped with none, and keeps the
\* ones its index kept but for its own entry.
LEMMA KeepsAppend ==
    ASSUME NEW c \in Seq(Ops), NEW ov, NEW in, NEW ix, NEW o \in Ops, in[o].op = "add"
    PROVE  /\ KeepsBut(c, ov, in, ix, o) /\ (o \notin ov => ix[in[o].ref] = in[o].digest)
                => Keeps(Append(c, o), ov, in, ix)
           /\ \A x \in Ops : KeepsBut(c, ov, in, ix, x) /\ o \in ov => KeepsBut(Append(c, o), ov, in, ix, x)
<1>. DEFINE b == Append(c, o)
<1>1. Len(b) = Len(c) + 1 /\ b[Len(c) + 1] = o /\ \A i \in 1..Len(c) : b[i] = c[i]
  OBVIOUS
<1>2. Len(c) \in Nat /\ \A i \in 1..Len(c) : i \in Nat /\ i <= Len(c)
  OBVIOUS
<1>3. \A i \in 1..Len(b) : i \in 1..Len(c) \/ i = Len(c) + 1
  BY <1>1, <1>2
<1>4. \A i \in 1..Len(c) : \A j \in (i + 1)..Len(c) : j \in 1..Len(c) /\ j \in (i + 1)..Len(b)
  BY <1>1, <1>2
<1>5. \A i \in 1..Len(c) : Len(c) + 1 \in (i + 1)..Len(b)
  BY <1>1, <1>2
<1>. HIDE DEF b
<1>6. ASSUME NEW i \in 1..Len(c), NEW d, Acceptable(c, ov, in, i, d) PROVE Acceptable(b, ov, in, i, d)
  BY <1>1, <1>4, <1>6 DEF Acceptable
<1>7. ASSUME NEW i \in 1..Len(c), NEW d, in[o].ref = in[c[i]].ref, in[o].digest = d
      PROVE  Acceptable(b, ov, in, i, d)
  BY <1>1, <1>5, <1>7 DEF Acceptable
<1>8. Acceptable(b, ov, in, Len(c) + 1, in[o].digest)
  BY <1>1 DEF Acceptable
<1>9. ASSUME KeepsBut(c, ov, in, ix, o), o \notin ov => ix[in[o].ref] = in[o].digest
      PROVE  Keeps(b, ov, in, ix)
  BY <1>1, <1>3, <1>6, <1>7, <1>8, <1>9 DEF Keeps, KeepsBut
<1>10. ASSUME NEW x \in Ops, KeepsBut(c, ov, in, ix, x), o \in ov PROVE KeepsBut(b, ov, in, ix, x)
  BY <1>1, <1>3, <1>6, <1>10 DEF KeepsBut
<1>. QED BY <1>9, <1>10 DEF b

\* AckedInv is inductive.
LEMMA NextAcked == ShapeInv /\ OverlapInv /\ IndexInv /\ AckedInv /\ [Next]_vars => AckedInv'
<1>. SUFFICES ASSUME ShapeInv, OverlapInv, IndexInv, AckedInv, [Next]_vars PROVE AckedInv'
  OBVIOUS
<1>a. FilesOK /\ RestOK /\ "index" \in Paths /\ Value("index") = Indexes
  BY TypeParts DEF ShapeInv, Paths, Value
<1>b. Absent \notin Indexes /\ Garbled \notin Indexes /\ EmptyIndex \in Indexes /\ Absent # Garbled
  BY LayerStoreAssumption DEF Indexes, EmptyIndex
<1>c. overlap \subseteq overlap' /\ overlap \subseteq Ops /\ commits \in Seq(Ops)
  BY <1>a, NextOverlap DEF RestOK
<1>. DEFINE Ok(ix) == Keeps(commits, overlap, input, ix)
            But(ix, x) == KeepsBut(commits, overlap, input, ix, x)
<1>1. ASSUME UNCHANGED <<input, commits>>, main'["index"] = main["index"], temp'["index"] = temp["index"],
             \A x \in Ops : \/ pc'[x] \notin IdxPhase \cup OpenPhase
                            \/ pc'[x] = pc[x] /\ idx'[x] = idx[x]
                            \/ pc'[x] = "openTrunc" /\ main["index"] = Absent
                            \/ pc'[x] = "idxTrunc" /\ But(idx'[x], x)
      PROVE  AckedInv'
  <2>1. \A ix : Ok(ix) => Keeps(commits', overlap', input', ix)
    BY <1>1, <1>c, KeepsMore
  <2>2. \A ix : \A x \in Ops : But(ix, x) => KeepsBut(commits', overlap', input', ix, x)
    BY <1>1, <1>c, KeepsMore
  <2>3. (main["index"] \in Indexes => Keeps(commits, overlap, input, main["index"]))'
    BY <1>1, <2>1 DEF AckedInv
  <2>4. ASSUME NEW x \in Ops
        PROVE  /\ pc'[x] \in IdxPhase => KeepsBut(commits', overlap', input', idx'[x], x)
               /\ pc'[x] = "idxWrite" /\ temp'["index"] \in Indexes =>
                     Keeps(commits', overlap', input', temp'["index"])
               /\ pc'[x] = "idxRename" /\ temp'["index"] \in Indexes =>
                     KeepsBut(commits', overlap', input', temp'["index"], x)
               /\ pc'[x] \in OpenPhase => \A i \in 1..Len(commits') : commits'[i] \in overlap'
    <3>1. pc'[x] \in IdxPhase => KeepsBut(commits', overlap', input', idx'[x], x)
      BY <1>1, <2>2 DEF AckedInv, IdxPhase
    <3>2. pc'[x] = "idxWrite" /\ temp'["index"] \in Indexes => Keeps(commits', overlap', input', temp'["index"])
      BY <1>1, <2>1 DEF AckedInv, IdxPhase
    <3>3. pc'[x] = "idxRename" /\ temp'["index"] \in Indexes =>
             KeepsBut(commits', overlap', input', temp'["index"], x)
      BY <1>1, <2>2 DEF AckedInv, IdxPhase
    <3>4. pc'[x] \in OpenPhase => \A i \in 1..Len(commits') : commits'[i] \in overlap'
      BY <1>1, <1>c DEF AckedInv, OpenPhase, IdxPhase
    <3>. QED BY <3>1, <3>2, <3>3, <3>4
  <2>5. (\A i \in 1..Len(commits) : input[commits[i]].op = "add")' /\ (Len(commits) # 0 => main["index"] # Absent)'
    BY <1>1 DEF AckedInv
  <2>. QED BY <2>3, <2>4, <2>5 DEF AckedInv
<1>2. CASE IndexFrame
  BY <1>1, <1>2 DEF IndexFrame
<1>3. ASSUME NEW o \in Ops, Open(o) PROVE AckedInv'
  <2>1. /\ UNCHANGED <<main, temp, idx, input, commits>>
        /\ \/ Moves(o, "openTrunc") /\ main["index"] = Absent
           \/ Moves(o, "opened")
    BY <1>3, <1>a, GoMoves DEF Open, diskVars
  <2>. QED BY <1>1, <2>1 DEF Moves, OpenPhase, IdxPhase
<1>4. ASSUME NEW o \in Ops, AddReadIndex(o) PROVE AckedInv'
  <2>1. /\ UNCHANGED <<main, temp, input, commits>> /\ \A x \in Ops \ {o} : idx'[x] = idx[x]
        /\ \/ Moves(o, "error")
           \/ Moves(o, "idxTrunc") /\ Parses("index") /\ idx'[o] = WithEntry(main["index"], o)
    BY <1>4, <1>a, GoMoves DEF AddReadIndex, diskVars, Return, RestOK
  <2>2. CASE Moves(o, "error")
    BY <1>1, <2>1, <2>2 DEF Moves, OpenPhase, IdxPhase
  <2>3. CASE Moves(o, "idxTrunc") /\ Parses("index") /\ idx'[o] = WithEntry(main["index"], o)
    <3>1. main["index"] \in Indexes /\ input[o].ref \in Refs
      BY <1>4, <1>a, <2>3, AddInput DEF Parses, FilesOK, AddReadIndex
    <3>2. But(idx'[o], o)
      <4>1. \A r \in Refs : idx'[o][r] = IF r = input[o].ref THEN input[o].digest ELSE main["index"][r]
        BY <2>3, <3>1 DEF WithEntry, Indexes, Digest
      <4>2. \A i \in 1..Len(commits) : input[commits[i]].ref \in Refs
        <5>1. \A i \in 1..Len(commits) : commits[i] \in Ops /\ input[commits[i]].op = "add"
          BY <1>c DEF AckedInv
        <5>. QED BY <1>a, <5>1, AddInput
      <4>3. Ok(main["index"])
        BY <3>1 DEF AckedInv
      <4>. QED BY <3>1, <4>1, <4>2, <4>3 DEF Keeps, KeepsBut
    <3>. QED BY <1>1, <2>1, <2>3, <3>2 DEF Moves, OpenPhase, IdxPhase
  <2>. QED BY <2>1, <2>2, <2>3
<1>5. ASSUME NEW o \in Ops, IndexSteps(o) PROVE AckedInv'
  <2>. DEFINE v == Written(o)
  <2>1. /\ pc[o] \in OpenPhase \cup IdxPhase /\ UNCHANGED <<input, overlap>>
        /\ \A x \in Ops \ {o} : pc'[x] = pc[x] /\ idx'[x] = idx[x]
    BY <1>5, IndexFacts DEF OpenPhase, IdxPhase, Moves
  <2>2. ASSUME NEW x \in Ops \ {o}, pc[x] \in OpenPhase \cup IdxPhase PROVE o \in overlap /\ x \in overlap
    BY <2>1, <2>2 DEF OverlapInv
  <2>3. pc[o] \in OpenPhase => \A ix : Ok(ix)
    BY DEF AckedInv, Keeps
  <2>4. pc[o] \in IdxPhase => input[o].op = "add" /\ v = idx[o] /\ But(v, o) /\ v[input[o].ref] = input[o].digest
    BY DEF ShapeInv, LockInv, AckedInv, IndexInv, Written, OpenPhase, IdxPhase, Digest
  <2>5. But(v, o) /\ (o \in overlap => Ok(v))
    BY <2>1, <2>3, <2>4, KeepsEither
  <2>6. CASE pc[o] \in {"openTrunc", "idxTrunc"}
    <3>1. /\ UNCHANGED <<main, idx, commits>> /\ temp'["index"] = Garbled
          /\ Moves(o, IF pc[o] = "openTrunc" THEN "openWrite" ELSE "idxWrite")
      BY <1>5, <2>6, IndexFacts
    <3>2. \A x \in Ops : /\ pc'[x] \in IdxPhase => pc[x] \in IdxPhase
                         /\ pc'[x] \in OpenPhase => pc[x] \in OpenPhase
      BY <2>6, <3>1 DEF Moves, OpenPhase, IdxPhase
    <3>. QED BY <1>b, <2>1, <3>1, <3>2 DEF AckedInv
  <2>7. CASE pc[o] \in {"openWrite", "idxWrite"}
    <3>1. /\ UNCHANGED <<idx, commits>>
          /\ Moves(o, IF pc[o] = "openWrite" THEN "openRename" ELSE "idxRename")
          /\ main'["index"] \in {main["index"], v, Garbled}
          /\ temp'["index"] \in {temp["index"], v, Garbled}
          /\ fd[o] = <<"temp", "index">> => main' = main
      BY <1>5, <2>7, IndexFacts
    <3>2. \A x \in Ops : /\ pc'[x] \in IdxPhase => pc[x] \in IdxPhase
                         /\ pc'[x] \in OpenPhase => pc[x] \in OpenPhase
      BY <2>7, <3>1 DEF Moves, OpenPhase, IdxPhase
    <3>3. main'["index"] \in Indexes => Ok(main'["index"])
      <4>1. o \notin overlap => main' = main
        BY <2>7, <3>1 DEF IndexInv
      <4>. QED BY <1>b, <2>5, <3>1, <4>1 DEF AckedInv
    <3>4. ASSUME NEW x \in Ops \ {o}, pc[x] = "idxWrite", temp'["index"] \in Indexes PROVE Ok(temp'["index"])
      BY <1>b, <2>2, <2>5, <3>1, <3>4 DEF AckedInv, IdxPhase
    <3>5. ASSUME NEW x \in Ops \ {o}, pc[x] = "idxRename", temp'["index"] \in Indexes PROVE But(temp'["index"], x)
      BY <1>b, <2>2, <2>5, <3>1, <3>5, KeepsEither DEF AckedInv, IdxPhase
    <3>6. ASSUME pc[o] = "idxWrite", temp'["index"] \in Indexes PROVE But(temp'["index"], o)
      BY <1>b, <2>5, <3>1, <3>6, KeepsEither DEF AckedInv
    <3>7. Len(commits) # 0 => main'["index"] # Absent
      <4>1. v # Absent
        BY <1>5, <1>b, IndexFacts
      <4>. QED BY <1>b, <3>1, <4>1 DEF AckedInv
    <3>8. ASSUME NEW x \in Ops
          PROVE  /\ pc'[x] \in IdxPhase => But(idx[x], x)
                 /\ pc'[x] = "idxWrite" /\ temp'["index"] \in Indexes => Ok(temp'["index"])
                 /\ pc'[x] = "idxRename" /\ temp'["index"] \in Indexes => But(temp'["index"], x)
                 /\ pc'[x] \in OpenPhase => \A i \in 1..Len(commits) : commits[i] \in overlap
      <4>1. CASE x = o
        BY <2>7, <3>1, <3>2, <3>6, <4>1 DEF AckedInv, Moves
      <4>2. CASE x # o
        BY <2>1, <3>2, <3>4, <3>5, <4>2 DEF AckedInv
      <4>. QED BY <4>1, <4>2
    <3>9. \A i \in 1..Len(commits) : input[commits[i]].op = "add"
      BY DEF AckedInv
    <3>. QED BY <2>1, <3>1, <3>3, <3>7, <3>8, <3>9 DEF AckedInv
  <2>8. CASE pc[o] \in {"openRename", "idxRename"} /\ Moves(o, "error")
    <3>1. UNCHANGED <<main, temp, commits>>
      BY <1>5, <2>8, IndexFacts DEF Moves
    <3>. QED BY <1>1, <2>1, <2>8, <3>1 DEF Moves, OpenPhase, IdxPhase
  <2>9. CASE pc[o] = "openRename" /\ Moves(o, "opened")
    <3>1. /\ UNCHANGED <<idx, commits>> /\ main'["index"] = temp["index"] /\ temp["index"] # Absent
          /\ temp'["index"] = Absent
      BY <1>5, <2>9, IndexFacts DEF Moves
    <3>2. \A x \in Ops : /\ pc'[x] \in IdxPhase => pc[x] \in IdxPhase
                         /\ pc'[x] \in OpenPhase => pc[x] \in OpenPhase
      BY <2>9 DEF Moves, OpenPhase, IdxPhase
    <3>3. Ok(main'["index"])
      BY <2>3, <2>9 DEF OpenPhase
    <3>. QED BY <1>b, <2>1, <3>1, <3>2, <3>3 DEF AckedInv
  <2>10. CASE pc[o] = "idxRename" /\ Moves(o, "done")
    <3>1. /\ commits' = Append(commits, o) /\ main'["index"] = temp["index"] /\ temp["index"] # Absent
          /\ temp'["index"] = Absent
      BY <1>5, <2>10, IndexFacts DEF Moves
    <3>2. input[o].op = "add"
      BY <2>4, <2>10 DEF IdxPhase
    <3>3. main'["index"] \in Indexes => Keeps(commits', overlap, input, main'["index"])
      <4>1. ASSUME temp["index"] \in Indexes PROVE But(temp["index"], o)
        BY <2>10, <4>1 DEF AckedInv
      <4>2. o \notin overlap => temp["index"][input[o].ref] = input[o].digest
        BY <2>4, <2>10 DEF IndexInv, IdxPhase
      <4>. QED BY <1>c, <3>1, <3>2, <4>1, <4>2, KeepsAppend
    <3>4. ASSUME NEW x \in Ops
          PROVE  /\ pc'[x] \in IdxPhase => KeepsBut(commits', overlap, input, idx'[x], x)
                 /\ pc'[x] \in OpenPhase => \A i \in 1..Len(commits') : commits'[i] \in overlap
      <4>1. CASE x = o
        BY <2>10, <4>1 DEF Moves, IdxPhase, OpenPhase
      <4>2. CASE x # o /\ pc[x] \in OpenPhase \cup IdxPhase
        <5>1. o \in overlap /\ pc'[x] = pc[x] /\ idx'[x] = idx[x]
          BY <2>1, <2>2, <4>2
        <5>2. pc[x] \in IdxPhase => KeepsBut(commits', overlap, input, idx[x], x)
          <6>1. pc[x] \in IdxPhase => But(idx[x], x)
            BY DEF AckedInv
          <6>. QED BY <1>c, <3>1, <3>2, <5>1, <6>1, KeepsAppend
        <5>3. pc[x] \in OpenPhase => \A i \in 1..Len(commits') : commits'[i] \in overlap
          <6>1. pc[x] \in OpenPhase => \A i \in 1..Len(commits) : commits[i] \in overlap
            BY DEF AckedInv
          <6>. QED BY <1>c, <3>1, <5>1, <6>1
        <5>. QED BY <5>1, <5>2, <5>3
      <4>3. CASE x # o /\ pc[x] \notin OpenPhase \cup IdxPhase
        BY <2>1, <4>3
      <4>. QED BY <4>1, <4>2, <4>3
    <3>5. \A i \in 1..Len(commits') : input[commits'[i]].op = "add"
      <4>1. \A i \in 1..Len(commits) : input[commits[i]].op = "add"
        BY DEF AckedInv
      <4>. QED BY <1>c, <3>1, <3>2, <4>1
    <3>. QED BY <1>b, <2>1, <3>1, <3>3, <3>4, <3>5 DEF AckedInv
  <2>. QED BY <1>5, <2>6, <2>7, <2>8, <2>9, <2>10, IndexFacts DEF OpenPhase, IdxPhase
<1>. QED BY <1>2, <1>3, <1>4, <1>5, IndexFrames, OtherFrames DEF Next, OpStep, Finished, IndexSteps

-----------------------------------------------------------------------------
\* The inductive invariant.
LayerStoreInv ==
    ShapeInv /\ OverlapInv /\ PairInv /\ RacedInv /\ BlobInv /\ CompleteInv /\ IndexInv /\ AckedInv

\* It holds of an empty store.
LEMMA InitInv == Init => LayerStoreInv
<1>. SUFFICES ASSUME Init PROVE LayerStoreInv
  OBVIOUS
<1>. USE DEF Init
<1>a. /\ "index" \in Paths /\ Digests \subseteq Paths /\ EmptyIndex \in Indexes
      /\ \A o \in Ops : pc[o] = "idle" /\ fd[o] = None /\ copied[o] = {} /\ idx[o] = EmptyIndex
  BY DEF Paths, EmptyIndex, Indexes
<1>b. Absent # Garbled /\ Absent \notin Indexes /\ commits \in Seq(Ops) /\ Len(commits) = 0
  BY LayerStoreAssumption DEF Indexes
<1>c. main["index"] = Absent /\ temp["index"] = Absent
  BY <1>a
<1>1. TypeOK
  <2>1. FilesOK
    BY <1>a DEF FilesOK
  <2>2. RestOK
    BY <1>a, <1>b DEF RestOK
  <2>. QED BY <2>1, <2>2, TypeParts
<1>2. ShapeInv
  BY <1>1, <1>a DEF ShapeInv, LockInv, FdInv, OpenedInv, LockPhase, ManPhase, IdxPhase, OpenPhase
<1>3. OverlapInv /\ PairInv /\ RacedInv
  BY <1>a DEF OverlapInv, PairInv, RacedInv, ManPhase, IdxPhase, OpenPhase
<1>4. BlobInv
  BY <1>a DEF BlobInv, ManPhase
<1>5. CompleteInv
  BY <1>a, <1>b, <1>c DEF CompleteInv, GoodIndex, EmptyIndex, IdxPhase
<1>6. IndexInv
  BY <1>a, <1>b, <1>c DEF IndexInv, CrashIsHarmless, IdxPhase
<1>7. AckedInv
  BY <1>a, <1>b, <1>c DEF AckedInv, IdxPhase, OpenPhase
<1>. QED BY <1>2, <1>3, <1>4, <1>5, <1>6, <1>7 DEF LayerStoreInv

\* The inductive invariant of the layer store: locks and descriptors, who met
\* whom, and what blobs, manifests and indexes may hold meanwhile.
THEOREM LayerStoreInvariant == Spec => []LayerStoreInv
<1>1. LayerStoreInv /\ [Next]_vars => LayerStoreInv'
  BY NextShape, NextOverlap, NextPair, NextRaced, NextBlob, NextComplete, NextIndex, NextAcked DEF LayerStoreInv
<1>. QED BY InitInv, <1>1, PTL DEF Spec

\* The type invariant, for any number of processes, operations and layers.
THEOREM LayerStoreTypeCorrect == Spec => []TypeOK
<1>1. LayerStoreInv => TypeOK
  BY DEF LayerStoreInv, ShapeInv
<1>. QED BY <1>1, LayerStoreInvariant, PTL

\* What index.json names is there and whole, wherever Add was cut off.
THEOREM IndexedIsCompleteHolds == Spec => []IndexedIsComplete
<1>1. LayerStoreInv => IndexedIsComplete
  <2>. SUFFICES ASSUME LayerStoreInv, Parses("index") PROVE IndexedIsComplete
    BY DEF IndexedIsComplete
  <2>1. main["index"] \in Indexes
    BY TypeParts DEF LayerStoreInv, ShapeInv, TypeOK, Parses
  <2>2. GoodIndex(main["index"])
    BY <2>1 DEF LayerStoreInv, CompleteInv
  <2>. QED BY <2>2 DEF IndexedIsComplete, GoodIndex, Good
<1>. QED BY <1>1, LayerStoreInvariant, PTL

\* An operation fails only where two were really at work at the same time:
\* what a crash left behind, atomicWrite and copyTree start over.
THEOREM CrashIsHarmlessHolds == Spec => []CrashIsHarmless
<1>1. LayerStoreInv => CrashIsHarmless
  BY DEF LayerStoreInv, IndexInv
<1>. QED BY <1>1, LayerStoreInvariant, PTL

\* An Add that returned success stays in the index, whoever crashes: only an
\* operation that had the index in hands at the same time as another can lose
\* its own entry, and only two such operations leave an index that does not
\* parse.
THEOREM AckedStaysIndexedHolds == Spec => []AckedStaysIndexed
<1>1. LayerStoreInv => AckedStaysIndexed
  <2>. SUFFICES ASSUME LayerStoreInv, NEW i \in 1..Len(commits), commits[i] \notin overlap
                PROVE  IF Parses("index")
                       THEN main["index"][input[commits[i]].ref] \in
                              {Digest(q) : q \in {x \in {commits[i]} \cup ({commits[j] : j \in (i + 1)..Len(commits)} \cup overlap) :
                                                   input[x].op = "add" /\ input[x].ref = input[commits[i]].ref}}
                       ELSE \E q, x \in overlap : Home[q] # Home[x]
    BY DEF AckedStaysIndexed
  <2>1. CASE Parses("index")
    <3>1. main["index"] \in Indexes
      BY <2>1 DEF LayerStoreInv, ShapeInv, TypeOK, Parses
    <3>2. Acceptable(commits, overlap, input, i, main["index"][input[commits[i]].ref])
      BY <3>1 DEF LayerStoreInv, AckedInv, Keeps
    <3>. QED BY <2>1, <3>2 DEF Acceptable, Digest
  <2>2. CASE ~Parses("index")
    <3>1. commits \in Seq(Ops) /\ Len(commits) # 0
      BY DEF LayerStoreInv, ShapeInv, TypeOK
    <3>2. main["index"] = Garbled
      BY <2>2, <3>1 DEF LayerStoreInv, AckedInv, Parses
    <3>. QED BY <2>2, <3>2 DEF LayerStoreInv, IndexInv, PairInv
  <2>. QED BY <2>1, <2>2
<1>. QED BY <1>1, LayerStoreInvariant, PTL
=============================================================================
