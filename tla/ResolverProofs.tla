--------------------------- MODULE ResolverProofs ---------------------------
(***************************************************************************)
(* The layer resolver implements LayerCache, for any calls, processes,     *)
(* digests and archives.  The channel in a slot belongs to the call that   *)
(* pulls (SlotInv); a call that waits or has waited for it knows how the   *)
(* pull ended (WaitInv, JoinInv), so that what it was told is true or the  *)
(* pull failed (PresentInv).  The temporary directory of a pull holds the  *)
(* tree of the entries read so far (TreeInv), which is the tree the digest *)
(* names when it is renamed.                                               *)
(***************************************************************************)
EXTENDS LayerResolver, TLAPS

Pulls  == {"recheck", "get", "extract", "rename", "unwindOk", "unwindErr"}
Active == {"mount", "lock", "wait"} \cup Pulls
Spots  == {"idle", "ok", "failed", "dead"} \cup Active

\* A call that is under way works on one of its mounts, and one that is done
\* has been through all of them.
PlaceInv ==
    \A c \in Calls :
        /\ pc[c] = "idle" <=> mounts[c] = <<>>
        /\ pc[c] = "idle" => at[c] = 1
        /\ pc[c] \in Active => at[c] \in DOMAIN mounts[c]
        /\ pc[c] = "ok" => at[c] > Len(mounts[c])
        /\ pc[c] \in Active \ {"mount"} => Name(c) # None

\* A slot is held by the call that pulls, and by nobody else.
SlotInv ==
    /\ \A c \in Calls : pc[c] \in Pulls => Slot(c) = Channel(c)
    /\ \A p \in Procs, n \in Names : pulling[p][n] # None =>
          \E d \in Calls : /\ pc[d] \in Pulls /\ home[d] = p
                           /\ Name(d) = n /\ pulling[p][n] = Channel(d)

\* The pull of the i-th mount of d has ended.
Over(d, i) == i < at[d] \/ (i = at[d] /\ pc[d] \in {"failed", "dead"})

\* A call that has waited for a channel has seen its end, or gave up.
JoinInv ==
    \A c, d \in Calls : \A i \in 1..MaxMounts : <<d, i>> \in joined[c] =>
        \/ Over(d, i)
        \/ /\ i = at[d] /\ pc[d] \in Pulls
           /\ pc[c] \in {"failed", "dead"} \/ (pc[c] = "wait" /\ wait[c] = <<d, i>>)

\* A call waits for a pull of its own layer in its own process, which cannot
\* end without the layer being there or the pull having failed.
WaitInv ==
    \A c \in Calls : pc[c] = "wait" =>
        \E d \in Calls, i \in 1..MaxMounts :
            /\ wait[c] = <<d, i>> /\ <<d, i>> \in joined[c]
            /\ home[d] = home[c] /\ pc[d] \notin {"idle", "dead"}
            /\ i \in DOMAIN mounts[d] /\ mounts[d][i].digest = Name(c)
            /\ Over(d, i) => <<d, i>> \in failed \/ target[Name(c)] # Absent

\* The mounts a call is done with are there, unless it was misled.
PresentInv ==
    \A c \in Calls :
        /\ pc[c] = "unwindOk" => target[Name(c)] # Absent
        /\ pc[c] \in Active \cup {"ok"} =>
              \A i \in DOMAIN mounts[c] :
                  i < at[c] /\ mounts[c][i].digest # None =>
                      target[mounts[c][i].digest] # Absent \/ Misled(c)

\* t is the tree of the first k entries of a: at each path the data of the
\* last regular entry.
IsTreeOf(t, a, k) ==
    LET regular == {i \in 1..k : a.entries[i].kind = "reg"} IN
    /\ t = [p \in DOMAIN t |-> t[p]]
    /\ DOMAIN t = {a.entries[i].path : i \in regular}
    /\ \A p \in DOMAIN t : \E i \in regular :
          /\ a.entries[i].path = p /\ t[p] = a.entries[i].data
          /\ \A j \in regular : a.entries[j].path = p => j <= i

\* What a pull has unpacked.
Unpacked(c) ==
    /\ stream[c] \in Archives
    /\ read[c] \in 0..Len(stream[c].entries)
    /\ \A i \in 1..read[c] : Acceptable(stream[c].entries[i])
    /\ tmp[c] \in Trees /\ IsTreeOf(tmp[c], stream[c], read[c])
    /\ pc[c] = "rename" => /\ read[c] = Len(stream[c].entries)
                           /\ DigestMatches(Name(c), stream[c])

TreeInv == \A c \in Calls : pc[c] \in {"extract", "rename"} => Unpacked(c)

ShapeInv == TypeOK /\ PlaceInv
ResolverInv == ShapeInv /\ SlotInv /\ JoinInv /\ WaitInv /\ PresentInv /\ TreeInv
-----------------------------------------------------------------------------
\* A sequence has a length and the domain that goes with it.
LEMMA SequenceShape ==
    ASSUME NEW s, IsSequence(s)
    PROVE  Len(s) \in Nat /\ DOMAIN s = 1..Len(s)
BY DEF IsSequence

\* A list of mounts holds one to three of them.
LEMMA MountList ==
    ASSUME NEW l \in MountLists
    PROVE  /\ Len(l) \in 1..MaxMounts /\ DOMAIN l = 1..Len(l)
           /\ l # <<>>
           /\ \A i \in DOMAIN l : l[i].digest \in Names \cup {None}
<1>1. Len(l) \in 1..MaxMounts /\ DOMAIN l = 1..Len(l)
  BY MountListsAssumption, SequenceShape
<1>2. l # <<>>
  BY <1>1
<1> QED  BY <1>1, <1>2, LayerResolverAssumption

\* The entries of an archive are a sequence of entries of the known kinds.
LEMMA ArchiveEntries ==
    ASSUME NEW a \in Archives
    PROVE  /\ Len(a.entries) \in Nat /\ DOMAIN a.entries = 1..Len(a.entries)
           /\ \A i \in DOMAIN a.entries : a.entries[i].kind \in EntryKinds
BY SequenceShape, LayerResolverAssumption

\* The type of the disk and the bucket, and that of calls and processes.
DiskOK ==
    /\ objects \in [Keys -> Archives \cup {Absent}]
    /\ target \in [Names -> Trees \cup {Absent}]
    /\ tmp \in [Calls -> Trees \cup {None}]
    /\ stream \in [Calls -> Archives \cup {Absent}]
    /\ read \in [Calls -> Nat]

CallsOK ==
    /\ pulling \in [Procs -> [Names -> Channels \cup {None}]]
    /\ pc \in [Calls -> Spots]
    /\ home \in [Calls -> Procs]
    /\ mounts \in [Calls -> MountLists \cup {<<>>}]
    /\ at \in [Calls -> 1..(MaxMounts + 1)]
    /\ wait \in [Calls -> Channels \cup {None}]
    /\ failed \subseteq Channels
    /\ joined \in [Calls -> SUBSET Channels]

UpOK == up \in [Procs -> BOOLEAN]

\* TypeOK, in three parts, ...
LEMMA TypeParts == TypeOK <=> DiskOK /\ CallsOK /\ UpOK
BY DEF TypeOK, DiskOK, CallsOK, UpOK, Spots, Active, Pulls

\* ... and after a step.
LEMMA TypePartsNext == TypeOK' <=> DiskOK' /\ CallsOK' /\ UpOK'
BY TypeParts, PTL

\* The mount that a call works on.
LEMMA CurrentMount ==
    ASSUME ShapeInv, NEW c \in Calls, pc[c] \in Active
    PROVE  /\ mounts[c] \in MountLists /\ at[c] \in 1..Len(mounts[c])
           /\ Len(mounts[c]) \in 1..MaxMounts /\ DOMAIN mounts[c] = 1..Len(mounts[c])
           /\ Name(c) \in Names \cup {None}
           /\ pc[c] # "mount" => Name(c) \in Names
           /\ Channel(c) \in Channels /\ at[c] \in 1..MaxMounts
<1> USE TypeParts DEF ShapeInv
<1>1. mounts[c] \in MountLists
  BY DEF CallsOK, PlaceInv, Active, Pulls
<1>2. at[c] \in DOMAIN mounts[c]
  BY DEF PlaceInv
<1>3. Name(c) \in Names \cup {None}
  BY <1>1, <1>2, MountList DEF Name, Mount
<1>4. pc[c] # "mount" => Name(c) # None
  BY DEF PlaceInv
<1>5. Len(mounts[c]) \in 1..MaxMounts /\ DOMAIN mounts[c] = 1..Len(mounts[c]) /\ MaxMounts \in Nat
  BY <1>1, MountList, MountListsAssumption
<1>6. at[c] \in 1..Len(mounts[c]) /\ at[c] \in 1..MaxMounts
  BY <1>2, <1>5
<1> QED  BY <1>1, <1>3, <1>4, <1>5, <1>6 DEF Channel, Channels

\* The tree of a directory without files.
LEMMA EmptyTree == <<>> \in Trees /\ \A a \in Archives : IsTreeOf(<<>>, a, 0)
<1>1. <<>> \in [{} -> {e.data : e \in RegularEntries}]
  OBVIOUS
<1>2. {} \in SUBSET {e.path : e \in RegularEntries}
  OBVIOUS
<1>3. <<>> \in Trees
  BY <1>1, <1>2 DEF Trees
<1>4. ASSUME NEW a \in Archives PROVE IsTreeOf(<<>>, a, 0)
  <2>1. <<>> = [p \in DOMAIN <<>> |-> <<>>[p]] /\ DOMAIN <<>> = {}
    OBVIOUS
  <2> QED  BY <2>1 DEF IsTreeOf
<1> QED  BY <1>3, <1>4

\* writeEntry keeps trees trees ...
LEMMA WrittenTree ==
    ASSUME NEW t \in Trees, NEW a \in Archives, NEW i \in DOMAIN a.entries
    PROVE  Written(t, a.entries[i]) \in Trees
<1> DEFINE e == a.entries[i]
           D == {x.data : x \in RegularEntries}
           P == {x.path : x \in RegularEntries}
<1>1. CASE e.kind = "reg"
  <2>1. e \in RegularEntries
    BY <1>1 DEF RegularEntries
  <2>2. PICK S \in SUBSET P : t \in [S -> D]
    BY DEF Trees
  <2>3. e.path \in P /\ e.data \in D
    BY <2>1
  <2>4. S \cup {e.path} \in SUBSET P
    BY <2>3
  <2>5. Written(t, e) = [p \in S \cup {e.path} |-> IF p = e.path THEN e.data ELSE t[p]]
    BY <1>1, <2>2 DEF Written
  <2> HIDE DEF e, D, P
  <2>6. Written(t, e) \in [S \cup {e.path} -> D]
    BY <2>2, <2>3, <2>5
  <2> QED  BY <2>4, <2>6 DEF Trees, D, P, e
<1>2. CASE e.kind # "reg"
  BY <1>2 DEF Written
<1> QED  BY <1>1, <1>2

\* ... and makes the tree of one entry more.
LEMMA WrittenIsTree ==
    ASSUME NEW a, NEW k \in Nat, NEW t, IsTreeOf(t, a, k)
    PROVE  IsTreeOf(Written(t, a.entries[k + 1]), a, k + 1)
<1> DEFINE e == a.entries[k + 1]
           Reg(n) == {i \in 1..n : a.entries[i].kind = "reg"}
           u == Written(t, e)
<1>0. /\ t = [p \in DOMAIN t |-> t[p]]
      /\ DOMAIN t = {a.entries[i].path : i \in Reg(k)}
      /\ \A p \in DOMAIN t : \E i \in Reg(k) :
            /\ a.entries[i].path = p /\ t[p] = a.entries[i].data
            /\ \A j \in Reg(k) : a.entries[j].path = p => j <= i
  BY DEF IsTreeOf
<1>1. CASE e.kind = "reg"
  <2>1. Reg(k + 1) = Reg(k) \cup {k + 1}
    BY <1>1
  <2>2. /\ DOMAIN u = DOMAIN t \cup {e.path}
        /\ u = [p \in DOMAIN u |-> u[p]]
        /\ \A p \in DOMAIN u : u[p] = IF p = e.path THEN e.data ELSE t[p]
    BY <1>1 DEF Written
  <2>3. DOMAIN u = {a.entries[i].path : i \in Reg(k + 1)}
    BY <1>0, <2>1, <2>2
  <2>4. ASSUME NEW p \in DOMAIN u
        PROVE  \E i \in Reg(k + 1) :
                  /\ a.entries[i].path = p /\ u[p] = a.entries[i].data
                  /\ \A j \in Reg(k + 1) : a.entries[j].path = p => j <= i
    <3>1. CASE p = e.path
      <4>1. k + 1 \in Reg(k + 1) /\ u[p] = a.entries[k + 1].data
        BY <2>1, <2>2, <3>1
      <4>2. \A j \in Reg(k + 1) : j <= k + 1
        OBVIOUS
      <4> QED  BY <3>1, <4>1, <4>2
    <3>2. CASE p # e.path
      <4>1. PICK i \in Reg(k) : /\ a.entries[i].path = p /\ t[p] = a.entries[i].data
                                /\ \A j \in Reg(k) : a.entries[j].path = p => j <= i
        BY <1>0, <2>2, <3>2
      <4> QED  BY <2>1, <2>2, <3>2, <4>1
    <3> QED  BY <3>1, <3>2
  <2> HIDE DEF u
  <2> QED  BY <2>2, <2>3, <2>4 DEF IsTreeOf, u, e
<1>2. CASE e.kind # "reg"
  <2>1. Reg(k + 1) = Reg(k) /\ u = t
    BY <1>2 DEF Written
  <2> QED  BY <1>0, <2>1 DEF IsTreeOf
<1> QED  BY <1>1, <1>2

\* The loop over all entries computes the reference tree.
LEMMA ExtractionCorrect ==
    ASSUME NEW a \in Archives, NEW t, IsTreeOf(t, a, Len(a.entries)),
           \A i \in 1..Len(a.entries) : Acceptable(a.entries[i])
    PROVE  t = TreeOf(a)
<1> DEFINE Reg == {i \in DOMAIN a.entries : a.entries[i].kind = "reg"}
           Last(p) == CHOOSE i \in Reg : /\ a.entries[i].path = p
                                         /\ \A j \in Reg : a.entries[j].path = p => j <= i
<1>1. /\ DOMAIN a.entries = 1..Len(a.entries) /\ Len(a.entries) \in Nat
      /\ ~ \E i \in DOMAIN a.entries : a.entries[i].kind \in {"symlink", "outside"}
  BY ArchiveEntries DEF Acceptable
<1>2. TreeOf(a) = [p \in {a.entries[i].path : i \in Reg} |-> a.entries[Last(p)].data]
  BY <1>1 DEF TreeOf
<1>3. /\ t = [p \in DOMAIN t |-> t[p]]
      /\ DOMAIN t = {a.entries[i].path : i \in Reg}
      /\ \A p \in DOMAIN t : \E i \in Reg :
            /\ a.entries[i].path = p /\ t[p] = a.entries[i].data
            /\ \A j \in Reg : a.entries[j].path = p => j <= i
  BY <1>1 DEF IsTreeOf
<1>4. ASSUME NEW p \in DOMAIN t PROVE t[p] = a.entries[Last(p)].data
  <2>1. PICK i \in Reg : /\ a.entries[i].path = p /\ t[p] = a.entries[i].data
                         /\ \A j \in Reg : a.entries[j].path = p => j <= i
    BY <1>3
  <2>2. /\ Last(p) \in Reg /\ a.entries[Last(p)].path = p
        /\ \A j \in Reg : a.entries[j].path = p => j <= Last(p)
    BY <2>1
  <2>3. i \in Nat /\ Last(p) \in Nat
    BY <1>1, <2>1, <2>2
  <2> HIDE DEF Last
  <2>4. i <= Last(p) /\ Last(p) <= i
    BY <2>1, <2>2
  <2>5. Last(p) = i
    BY <2>3, <2>4
  <2> QED  BY <2>1, <2>5
<1> HIDE DEF Last, Reg
<1>5. t = [p \in {a.entries[i].path : i \in Reg} |-> a.entries[Last(p)].data]
  BY <1>3, <1>4
<1> QED  BY <1>2, <1>5

\* A digest names the tree of the archive that hashes to it.
LEMMA PayloadOf ==
    ASSUME NEW n \in Names, NEW a \in Archives, DigestMatches(n, a)
    PROVE  Payload[n] = TreeOf(a)
<1>1. \A b \in Archives : b.hash = Key[n] => b = a
  BY LayerResolverAssumption DEF DigestMatches
<1>2. (CHOOSE b \in Archives : b.hash = Key[n]) = a
  BY <1>1 DEF DigestMatches
<1>3. \E b \in Archives : b.hash = Key[n]
  BY DEF DigestMatches
<1>4. Payload[n] = TreeOf(CHOOSE b \in Archives : b.hash = Key[n])
  BY <1>3 DEF Payload
<1> QED  BY <1>2, <1>4
-----------------------------------------------------------------------------
(***************************************************************************)
(* What the steps do, action by action                                     *)
(***************************************************************************)
\* Only c moves.
Others(c) ==
    /\ home' = home
    /\ \A x \in Calls \ {c} : /\ pc'[x] = pc[x] /\ at'[x] = at[x] /\ mounts'[x] = mounts[x]
                              /\ wait'[x] = wait[x] /\ joined'[x] = joined[x]

\* No layer that is there goes away.
TargetStays == \A n \in Names : target[n] # Absent => target'[n] # Absent

\* c turns to the next mount, or is done.
Advances(c) ==
    /\ at'[c] = at[c] + 1
    /\ pc'[c] = IF at[c] = Len(mounts[c]) THEN "ok" ELSE "mount"

\* c passes a mount without pulling it.
Walks(c) ==
    /\ pc[c] \in {"mount", "wait"} /\ Others(c)
    /\ mounts' = mounts /\ joined' = joined /\ failed' = failed
    /\ pulling' = pulling /\ target' = target
    /\ \/ /\ Advances(c)
          /\ Name(c) = None \/ target[Name(c)] # Absent \/ Misled(c)
          /\ pc[c] = "wait" => \E d \in Calls, i \in 1..MaxMounts : wait[c] = <<d, i>> /\ Over(d, i)
       \/ at'[c] = at[c] /\ pc'[c] = "failed"
       \/ pc[c] = "mount" /\ at'[c] = at[c] /\ pc'[c] = "lock" /\ Name(c) # None

\* c goes on with its pull.
Works(c) ==
    /\ pc[c] \in Pulls /\ pc'[c] \in Pulls /\ Others(c) /\ at'[c] = at[c]
    /\ mounts' = mounts /\ joined' = joined /\ failed' = failed
    /\ pulling' = pulling /\ wait' = wait
    /\ TargetStays
    /\ pc'[c] = "unwindOk" => target'[Name(c)] # Absent

\* c joins a pull, ...
Joins(c) ==
    /\ pc[c] = "lock" /\ pc'[c] = "wait" /\ Others(c) /\ at'[c] = at[c]
    /\ mounts' = mounts /\ failed' = failed /\ pulling' = pulling /\ target' = target
    /\ Slot(c) # None /\ wait'[c] = Slot(c) /\ joined'[c] = joined[c] \cup {Slot(c)}

\* ... or starts one, ...
Takes(c) ==
    /\ pc[c] = "lock" /\ pc'[c] = "recheck" /\ Others(c) /\ at'[c] = at[c]
    /\ mounts' = mounts /\ failed' = failed /\ target' = target /\ joined' = joined
    /\ Slot(c) = None
    /\ \A p \in Procs, n \in Names :
          pulling'[p][n] = IF p = home[c] /\ n = Name(c) THEN Channel(c) ELSE pulling[p][n]

\* ... and ends it.
Ends(c) ==
    /\ pc[c] \in {"unwindOk", "unwindErr"} /\ Others(c)
    /\ mounts' = mounts /\ target' = target /\ joined' = joined
    /\ \/ pc[c] = "unwindOk" /\ Advances(c) /\ failed' = failed
       \/ pc[c] = "unwindErr" /\ at'[c] = at[c] /\ pc'[c] = "failed"
          /\ failed' = failed \cup {Channel(c)}
    /\ \A p \in Procs, n \in Names :
          pulling'[p][n] = IF p = home[c] /\ n = Name(c) THEN None ELSE pulling[p][n]

\* The disk as far as pulls look at it.
DiskSame == tmp' = tmp /\ stream' = stream /\ read' = read

\* A call that is done with a mount turns to the next one, and no other call moves.
LEMMA NextMountFacts ==
    ASSUME ShapeInv, NEW c \in Calls, pc[c] \in Active, NextMount(c)
    PROVE  /\ at' \in [Calls -> 1..(MaxMounts + 1)] /\ pc' \in [Calls -> Spots] /\ Advances(c)
           /\ \A x \in Calls \ {c} : pc'[x] = pc[x] /\ at'[x] = at[x]
<1>1. at[c] + 1 \in 1..(MaxMounts + 1)
  BY CurrentMount, MountListsAssumption
<1> QED  BY <1>1, TypeParts DEF ShapeInv, CallsOK, NextMount, Go, Advances, Spots, Active

\* A call moves, and no other does.
LEMMA GoFacts ==
    ASSUME CallsOK, NEW c \in Calls, NEW where \in Spots, Go(c, where)
    PROVE  pc' \in [Calls -> Spots] /\ pc'[c] = where /\ \A x \in Calls \ {c} : pc'[x] = pc[x]
BY DEF CallsOK, Go

\* Resolve is called with a list of mounts.
LEMMA BeginStep ==
    ASSUME ShapeInv, NEW c \in Calls, Begin(c)
    PROVE  /\ TypeOK' /\ DiskSame /\ target' = target /\ pulling' = pulling
           /\ failed' = failed /\ joined' = joined /\ Others(c) /\ wait' = wait
           /\ at' = at /\ pc[c] = "idle" /\ pc'[c] = "mount" /\ mounts'[c] \in MountLists
<1> USE TypeParts DEF ShapeInv
<1>1. PICK l \in MountLists : mounts' = [mounts EXCEPT ![c] = l]
  BY DEF Begin
<1>2. "mount" \in Spots /\ Go(c, "mount") /\ pc[c] = "idle"
  BY DEF Begin, Spots, Active
<1>3. /\ pc' \in [Calls -> Spots] /\ pc'[c] = "mount" /\ \A x \in Calls \ {c} : pc'[x] = pc[x]
  BY <1>2, GoFacts
<1>4. /\ mounts' \in [Calls -> MountLists \cup {<<>>}] /\ mounts'[c] = l
      /\ \A x \in Calls \ {c} : mounts'[x] = mounts[x]
  BY <1>1 DEF CallsOK
<1>5. /\ DiskOK' /\ UpOK' /\ DiskSame /\ target' = target /\ pulling' = pulling /\ failed' = failed
      /\ joined' = joined /\ at' = at /\ home' = home /\ wait' = wait
  BY DEF Begin, DiskOK, UpOK, DiskSame, pullVars, histVars
<1>6. CallsOK'
  BY <1>3, <1>4, <1>5 DEF CallsOK
<1> QED  BY <1>2, <1>3, <1>4, <1>5, <1>6, TypePartsNext DEF Others

\* A mount of a directory of the host is looked at.
LEMMA HostMountStep ==
    ASSUME ShapeInv, NEW c \in Calls, HostMount(c)
    PROVE  TypeOK' /\ DiskSame /\ Walks(c)
<1> USE TypeParts DEF ShapeInv
<1>1. pc[c] = "mount" /\ pc[c] \in Active /\ "failed" \in Spots
  BY DEF HostMount, Active, Spots
<1>2. /\ DiskOK' /\ UpOK' /\ DiskSame /\ target' = target /\ pulling' = pulling /\ failed' = failed
      /\ joined' = joined /\ home' = home /\ wait' = wait /\ mounts' = mounts
  BY DEF HostMount, DiskOK, UpOK, DiskSame, pullVars, histVars
<1>3. CASE NextMount(c)
  <2>1. /\ at' \in [Calls -> 1..(MaxMounts + 1)] /\ pc' \in [Calls -> Spots] /\ Advances(c)
        /\ \A x \in Calls \ {c} : pc'[x] = pc[x] /\ at'[x] = at[x]
    BY <1>1, <1>3, NextMountFacts
  <2>2. CallsOK'
    BY <1>2, <2>1 DEF CallsOK
  <2> QED  BY <1>1, <1>2, <2>1, <2>2, TypePartsNext DEF Others, Walks, HostMount
<1>4. CASE Go(c, "failed") /\ UNCHANGED at
  <2>1. /\ pc' \in [Calls -> Spots] /\ pc'[c] = "failed" /\ \A x \in Calls \ {c} : pc'[x] = pc[x]
    BY <1>1, <1>4, GoFacts
  <2>2. CallsOK'
    BY <1>2, <1>4, <2>1 DEF CallsOK
  <2> QED  BY <1>1, <1>2, <1>4, <2>1, <2>2, TypePartsNext DEF Others, Walks
<1> QED  BY <1>3, <1>4 DEF HostMount

\* ensureLocal's first look: the layer is there, or the call goes for its slot.
LEMMA StatStep ==
    ASSUME ShapeInv, NEW c \in Calls, Stat(c)
    PROVE  TypeOK' /\ DiskSame /\ Walks(c)
<1> USE TypeParts DEF ShapeInv
<1>1. pc[c] = "mount" /\ pc[c] \in Active /\ "lock" \in Spots /\ Name(c) # None
  BY DEF Stat, Active, Spots
<1>2. /\ DiskOK' /\ UpOK' /\ DiskSame /\ target' = target /\ pulling' = pulling /\ failed' = failed
      /\ joined' = joined /\ home' = home /\ wait' = wait /\ mounts' = mounts
  BY DEF Stat, DiskOK, UpOK, DiskSame, pullVars, histVars
<1>3. CASE target[Name(c)] # Absent
  <2>1. /\ at' \in [Calls -> 1..(MaxMounts + 1)] /\ pc' \in [Calls -> Spots] /\ Advances(c)
        /\ \A x \in Calls \ {c} : pc'[x] = pc[x] /\ at'[x] = at[x]
    BY <1>1, <1>3, NextMountFacts DEF Stat
  <2>2. CallsOK'
    BY <1>2, <2>1 DEF CallsOK
  <2> QED  BY <1>1, <1>2, <1>3, <2>1, <2>2, TypePartsNext DEF Others, Walks
<1>4. CASE target[Name(c)] = Absent
  <2>1. /\ pc' \in [Calls -> Spots] /\ pc'[c] = "lock" /\ \A x \in Calls \ {c} : pc'[x] = pc[x]
        /\ at' = at
    BY <1>1, <1>4, GoFacts DEF Stat
  <2>2. CallsOK'
    BY <1>2, <2>1 DEF CallsOK
  <2> QED  BY <1>1, <1>2, <2>1, <2>2, TypePartsNext DEF Others, Walks
<1> QED  BY <1>3, <1>4

\* The slot in r.pulling is taken, or the pull that holds it is joined.
LEMMA LockSlotStep ==
    ASSUME ShapeInv, NEW c \in Calls, LockSlot(c)
    PROVE  TypeOK' /\ DiskSame /\ (Joins(c) \/ Takes(c))
<1> USE TypeParts DEF ShapeInv
<1>1. /\ pc[c] = "lock" /\ pc[c] \in Active /\ "wait" \in Spots /\ "recheck" \in Spots
      /\ Name(c) \in Names /\ home[c] \in Procs /\ Channel(c) \in Channels
  BY CurrentMount DEF LockSlot, Active, Spots, Pulls, CallsOK
<1>2. /\ DiskOK' /\ UpOK' /\ DiskSame /\ target' = target /\ failed' = failed
      /\ home' = home /\ mounts' = mounts /\ at' = at
  BY DEF LockSlot, DiskOK, UpOK, DiskSame, pullVars
<1>3. CASE JoinPull(c)
  <2>1. /\ pc' \in [Calls -> Spots] /\ pc'[c] = "wait" /\ \A x \in Calls \ {c} : pc'[x] = pc[x]
    BY <1>1, <1>3, GoFacts DEF LockSlot
  <2>2. Slot(c) \in Channels /\ Slot(c) # None
    BY <1>1, <1>3 DEF Slot, JoinPull, CallsOK
  <2>3. /\ wait' \in [Calls -> Channels \cup {None}] /\ wait'[c] = Slot(c)
        /\ joined' \in [Calls -> SUBSET Channels] /\ joined'[c] = joined[c] \cup {Slot(c)}
        /\ \A x \in Calls \ {c} : wait'[x] = wait[x] /\ joined'[x] = joined[x]
        /\ pulling' = pulling
    <3>1. /\ wait' = [wait EXCEPT ![c] = Slot(c)] /\ pulling' = pulling
          /\ joined' = [joined EXCEPT ![c] = @ \cup {Slot(c)}]
      BY <1>3 DEF LockSlot
    <3>2. joined[c] \cup {Slot(c)} \in SUBSET Channels
      BY <2>2 DEF CallsOK
    <3> HIDE DEF Slot
    <3>3. wait' \in [Calls -> Channels \cup {None}] /\ joined' \in [Calls -> SUBSET Channels]
      BY <2>2, <3>1, <3>2 DEF CallsOK
    <3> QED  BY <3>1, <3>3 DEF CallsOK
  <2>4. CallsOK'
    BY <1>2, <2>1, <2>3 DEF CallsOK
  <2> QED  BY <1>1, <1>2, <2>1, <2>2, <2>3, <2>4, TypePartsNext DEF Others, Joins
<1>4. CASE ~JoinPull(c)
  <2>1. /\ pc' \in [Calls -> Spots] /\ pc'[c] = "recheck" /\ \A x \in Calls \ {c} : pc'[x] = pc[x]
        /\ wait' = wait /\ joined' = joined
    BY <1>1, <1>4, GoFacts DEF LockSlot
  <2>2. pulling' = [pulling EXCEPT ![home[c]][Name(c)] = Channel(c)]
    BY <1>4 DEF LockSlot
  <2>3. pulling' \in [Procs -> [Names -> Channels \cup {None}]]
    BY <1>1, <2>2 DEF CallsOK
  <2>4. \A p \in Procs, n \in Names :
          pulling'[p][n] = IF p = home[c] /\ n = Name(c) THEN Channel(c) ELSE pulling[p][n]
    BY <1>1, <2>2 DEF CallsOK
  <2>5. CallsOK'
    BY <1>2, <2>1, <2>3 DEF CallsOK
  <2> QED  BY <1>1, <1>2, <1>4, <2>1, <2>4, <2>5, TypePartsNext DEF Others, Takes, JoinPull
<1> QED  BY <1>3, <1>4

\* Where the answer to a waiting call comes from.
LEMMA WokenStep ==
    ASSUME ResolverInv, NEW c \in Calls, Woken(c)
    PROVE  TypeOK' /\ DiskSame /\ Walks(c)
<1> USE TypeParts DEF ShapeInv, ResolverInv
<1>1. pc[c] = "wait" /\ pc[c] \in Active /\ Slot(c) # wait[c] /\ NextMount(c) /\ Name(c) \in Names
  BY CurrentMount DEF Woken, Active
<1>2. /\ DiskOK' /\ UpOK' /\ DiskSame /\ target' = target /\ pulling' = pulling /\ failed' = failed
      /\ joined' = joined /\ home' = home /\ mounts' = mounts /\ wait' = [wait EXCEPT ![c] = None]
  BY DEF Woken, DiskOK, UpOK, DiskSame, pullVars, histVars
<1>3. /\ at' \in [Calls -> 1..(MaxMounts + 1)] /\ pc' \in [Calls -> Spots] /\ Advances(c)
      /\ \A x \in Calls \ {c} : pc'[x] = pc[x] /\ at'[x] = at[x]
  BY <1>1, NextMountFacts
<1>4. CallsOK' /\ \A x \in Calls \ {c} : wait'[x] = wait[x]
  BY <1>2, <1>3 DEF CallsOK
<1>5. PICK d \in Calls, i \in 1..MaxMounts :
         /\ wait[c] = <<d, i>> /\ <<d, i>> \in joined[c]
         /\ home[d] = home[c] /\ pc[d] \notin {"idle", "dead"}
         /\ i \in DOMAIN mounts[d] /\ mounts[d][i].digest = Name(c)
         /\ Over(d, i) => <<d, i>> \in failed \/ target[Name(c)] # Absent
  BY <1>1 DEF WaitInv
<1>6. Over(d, i)
  <2>1. SUFFICES ASSUME i = at[d], pc[d] \in Pulls PROVE FALSE
    BY <1>5 DEF JoinInv
  <2>2. Slot(d) = <<d, i>>
    BY <2>1 DEF SlotInv, Channel
  <2>3. Slot(d) = Slot(c)
    BY <1>5, <2>1 DEF Slot, Name, Mount
  <2> QED  BY <1>1, <1>5, <2>2, <2>3
<1>7. target[Name(c)] # Absent \/ Misled(c)
  BY <1>5, <1>6 DEF Misled
<1> QED  BY <1>1, <1>2, <1>3, <1>4, <1>5, <1>6, <1>7, TypePartsNext DEF Others, Walks

\* A waiter's context ends.
LEMMA TimedOutStep ==
    ASSUME ShapeInv, NEW c \in Calls, TimedOut(c)
    PROVE  TypeOK' /\ DiskSame /\ Walks(c)
<1> USE TypeParts DEF ShapeInv
<1>1. pc[c] = "wait" /\ "failed" \in Spots /\ Go(c, "failed")
  BY DEF TimedOut, Spots
<1>2. /\ DiskOK' /\ UpOK' /\ DiskSame /\ target' = target /\ pulling' = pulling /\ failed' = failed
      /\ joined' = joined /\ home' = home /\ mounts' = mounts /\ wait' = [wait EXCEPT ![c] = None]
      /\ at' = at
  BY DEF TimedOut, DiskOK, UpOK, DiskSame, pullVars, histVars
<1>3. pc' \in [Calls -> Spots] /\ pc'[c] = "failed" /\ \A x \in Calls \ {c} : pc'[x] = pc[x]
  BY <1>1, GoFacts
<1>4. CallsOK' /\ \A x \in Calls \ {c} : wait'[x] = wait[x]
  BY <1>2, <1>3 DEF CallsOK
<1> QED  BY <1>1, <1>2, <1>3, <1>4, TypePartsNext DEF Others, Walks

\* The common part of the steps of a pull.
LEMMA PullMoves ==
    ASSUME ShapeInv, NEW c \in Calls, pc[c] \in Pulls, NEW where \in Pulls,
           (pc' = pc /\ where = pc[c]) \/ Go(c, where),
           UNCHANGED <<up, pulling, home, mounts, at, wait, histVars>>
    PROVE  /\ CallsOK' /\ UpOK' /\ Others(c) /\ pc'[c] = where /\ at'[c] = at[c]
           /\ mounts' = mounts /\ joined' = joined /\ failed' = failed
           /\ pulling' = pulling /\ wait' = wait
           /\ Name(c) \in Names /\ Key[Name(c)] \in Keys
<1> USE TypeParts DEF ShapeInv
<1>0. UNCHANGED <<up, pulling, home, mounts, at, wait, failed, joined>>
  BY DEF histVars
<1>1. where \in Spots /\ pc[c] \in Active /\ pc[c] # "mount"
  BY DEF Spots, Active, Pulls
<1>2. pc' \in [Calls -> Spots] /\ pc'[c] = where /\ \A x \in Calls \ {c} : pc'[x] = pc[x]
  <2>1. CASE pc' = pc /\ where = pc[c]
    BY <2>1 DEF CallsOK
  <2>2. CASE Go(c, where)
    BY <1>1, <2>2, GoFacts
  <2> QED  BY <2>1, <2>2
<1>3. CallsOK' /\ UpOK'
  BY <1>0, <1>2 DEF CallsOK, UpOK
<1>4. Name(c) \in Names
  BY <1>1, CurrentMount
<1>5. Key[Name(c)] \in Keys
  BY <1>4, LayerResolverAssumption
<1> QED  BY <1>0, <1>2, <1>3, <1>4, <1>5 DEF Others

\* The second look, under the slot.
LEMMA RecheckStep ==
    ASSUME ShapeInv, NEW c \in Calls, Recheck(c)
    PROVE  TypeOK' /\ DiskSame /\ target' = target /\ Works(c) /\ pc'[c] \notin {"extract", "rename"}
<1> USE TypeParts DEF ShapeInv
<1> DEFINE where == IF FoundOnRecheck(c) THEN "unwindOk" ELSE "get"
<1>1. pc[c] \in Pulls /\ where \in Pulls /\ Go(c, where)
  BY DEF Recheck, Pulls
<1>2. UNCHANGED <<objects, target, pullVars, up, pulling, home, mounts, at, wait, histVars>>
  BY DEF Recheck
<1> HIDE DEF where
<1>3. /\ CallsOK' /\ UpOK' /\ Others(c) /\ pc'[c] = where /\ at'[c] = at[c]
      /\ mounts' = mounts /\ joined' = joined /\ failed' = failed
      /\ pulling' = pulling /\ wait' = wait
  BY <1>1, <1>2, PullMoves
<1>4. DiskOK' /\ DiskSame /\ target' = target
  BY <1>2 DEF DiskOK, DiskSame, pullVars
<1> QED  BY <1>1, <1>3, <1>4, TypePartsNext DEF Works, TargetStays, FoundOnRecheck, where

\* Only the pull of c unpacks something.
DiskOthers(c) ==
    \A x \in Calls \ {c} : tmp'[x] = tmp[x] /\ stream'[x] = stream[x] /\ read'[x] = read[x]

\* A download that begins has unpacked nothing yet.
LEMMA GetStep ==
    ASSUME ShapeInv, NEW c \in Calls, Get(c)
    PROVE  /\ TypeOK' /\ DiskOthers(c) /\ target' = target /\ Works(c)
           /\ pc'[c] \in {"extract", "rename"} => Unpacked(c)'
<1> USE TypeParts DEF ShapeInv
<1>1. pc[c] \in Pulls /\ "extract" \in Pulls /\ "unwindErr" \in Pulls
  BY DEF Get, Pulls
<1>2. UNCHANGED <<objects, target, up, pulling, home, mounts, at, wait, histVars>>
  BY DEF Get
<1>3. CASE /\ objects[Key[Name(c)]] # Absent
           /\ stream' = [stream EXCEPT ![c] = objects[Key[Name(c)]]]
           /\ tmp' = [tmp EXCEPT ![c] = <<>>]
           /\ read' = [read EXCEPT ![c] = 0]
           /\ Go(c, "extract")
  <2>1. /\ CallsOK' /\ UpOK' /\ Others(c) /\ pc'[c] = "extract" /\ at'[c] = at[c]
        /\ mounts' = mounts /\ joined' = joined /\ failed' = failed
        /\ pulling' = pulling /\ wait' = wait /\ Key[Name(c)] \in Keys
    BY <1>1, <1>2, <1>3, PullMoves
  <2> DEFINE a == objects[Key[Name(c)]]
  <2>2. a \in Archives /\ stream' = [stream EXCEPT ![c] = a]
    BY <1>3, <2>1 DEF DiskOK
  <2> HIDE DEF a
  <2>3. stream'[c] = a /\ tmp'[c] = <<>> /\ read'[c] = 0 /\ DiskOthers(c)
    BY <1>3, <2>2 DEF DiskOK, DiskOthers
  <2>4. DiskOK'
    BY <1>2, <1>3, <2>2, EmptyTree DEF DiskOK
  <2>5. IsTreeOf(<<>>, a, 0) /\ Len(a.entries) \in Nat
    BY <2>2, EmptyTree, ArchiveEntries
  <2>6. Unpacked(c)'
    BY <2>1, <2>2, <2>3, <2>5, EmptyTree DEF Unpacked
  <2> QED  BY <1>1, <1>2, <2>1, <2>3, <2>4, <2>6, TypePartsNext DEF Works, TargetStays
<1>4. CASE Go(c, "unwindErr") /\ UNCHANGED pullVars
  <2>1. /\ CallsOK' /\ UpOK' /\ Others(c) /\ pc'[c] = "unwindErr" /\ at'[c] = at[c]
        /\ mounts' = mounts /\ joined' = joined /\ failed' = failed
        /\ pulling' = pulling /\ wait' = wait
    BY <1>1, <1>2, <1>4, PullMoves
  <2>2. DiskOK' /\ DiskOthers(c)
    BY <1>2, <1>4 DEF DiskOK, DiskOthers, pullVars
  <2> QED  BY <1>1, <1>2, <2>1, <2>2, TypePartsNext DEF Works, TargetStays
<1> QED  BY <1>3, <1>4 DEF Get

\* One more entry is unpacked, and the tree is that of one entry more.
LEMMA ExtractEntryStep ==
    ASSUME ShapeInv, TreeInv, NEW c \in Calls, ExtractEntry(c)
    PROVE  /\ TypeOK' /\ DiskOthers(c) /\ target' = target /\ Works(c)
           /\ pc'[c] \in {"extract", "rename"} => Unpacked(c)'
<1> USE TypeParts DEF ShapeInv
<1> DEFINE e == stream[c].entries[read[c] + 1]
<1>1. pc[c] = "extract" /\ pc[c] \in Pulls /\ "extract" \in Pulls /\ "unwindErr" \in Pulls
  BY DEF ExtractEntry, Pulls
<1>2. UNCHANGED <<objects, target, up, pulling, home, mounts, at, wait, stream, histVars>>
  BY DEF ExtractEntry
<1>3. CASE /\ Acceptable(e)
           /\ tmp' = [tmp EXCEPT ![c] = Written(@, e)]
           /\ read' = [read EXCEPT ![c] = @ + 1]
           /\ UNCHANGED pc
  <2>1. /\ CallsOK' /\ UpOK' /\ Others(c) /\ pc'[c] = "extract" /\ at'[c] = at[c]
        /\ mounts' = mounts /\ joined' = joined /\ failed' = failed
        /\ pulling' = pulling /\ wait' = wait
    BY <1>1, <1>2, <1>3, PullMoves
  <2>2. Unpacked(c) /\ read[c] < Len(stream[c].entries)
    BY <1>1 DEF TreeInv, ExtractEntry
  <2>3. /\ stream[c] \in Archives /\ read[c] \in Nat /\ read[c] + 1 \in DOMAIN stream[c].entries
        /\ Len(stream[c].entries) \in Nat
    BY <2>2, ArchiveEntries DEF Unpacked, DiskOK
  <2>4. Written(tmp[c], e) \in Trees
    BY <2>2, <2>3, WrittenTree DEF Unpacked
  <2>5. IsTreeOf(Written(tmp[c], e), stream[c], read[c] + 1)
    BY <2>2, <2>3, WrittenIsTree DEF Unpacked
  <2>6. \A i \in 1..(read[c] + 1) : Acceptable(stream[c].entries[i])
    BY <1>3, <2>2, <2>3 DEF Unpacked
  <2> HIDE DEF e
  <2>7. /\ tmp'[c] = Written(tmp[c], e) /\ read'[c] = read[c] + 1 /\ stream' = stream
        /\ DiskOthers(c)
    BY <1>2, <1>3 DEF DiskOK, DiskOthers
  <2>8. DiskOK'
    BY <1>2, <1>3, <2>3, <2>4 DEF DiskOK
  <2>9. Unpacked(c)'
    BY <2>1, <2>2, <2>3, <2>4, <2>5, <2>6, <2>7 DEF Unpacked
  <2> QED  BY <1>1, <1>2, <2>1, <2>7, <2>8, <2>9, TypePartsNext DEF Works, TargetStays
<1>4. CASE Go(c, "unwindErr") /\ UNCHANGED <<tmp, read>>
  <2>1. /\ CallsOK' /\ UpOK' /\ Others(c) /\ pc'[c] = "unwindErr" /\ at'[c] = at[c]
        /\ mounts' = mounts /\ joined' = joined /\ failed' = failed
        /\ pulling' = pulling /\ wait' = wait
    BY <1>1, <1>2, <1>4, PullMoves
  <2>2. DiskOK' /\ DiskOthers(c)
    BY <1>2, <1>4 DEF DiskOK, DiskOthers
  <2> QED  BY <1>1, <1>2, <2>1, <2>2, TypePartsNext DEF Works, TargetStays
<1> QED  BY <1>3, <1>4 DEF ExtractEntry

\* A pull that gets past the digest has the whole tree.
LEMMA VerifyStep ==
    ASSUME ShapeInv, TreeInv, NEW c \in Calls, Verify(c)
    PROVE  /\ TypeOK' /\ DiskSame /\ target' = target /\ Works(c)
           /\ pc'[c] \in {"extract", "rename"} => Unpacked(c)'
<1> USE TypeParts DEF ShapeInv
<1> DEFINE where == IF DigestMatches(Name(c), stream[c]) THEN "rename" ELSE "unwindErr"
<1>1. /\ pc[c] = "extract" /\ pc[c] \in Pulls /\ where \in Pulls /\ Go(c, where)
      /\ read[c] = Len(stream[c].entries)
  BY DEF Verify, Pulls
<1>2. UNCHANGED <<objects, target, pullVars, up, pulling, home, mounts, at, wait, histVars>>
  BY DEF Verify
<1>3. where # "unwindOk" /\ where # "extract"
      /\ (where = "rename" => DigestMatches(Name(c), stream[c]))
  OBVIOUS
<1> HIDE DEF where
<1>4. /\ CallsOK' /\ UpOK' /\ Others(c) /\ pc'[c] = where /\ at'[c] = at[c]
      /\ mounts' = mounts /\ joined' = joined /\ failed' = failed
      /\ pulling' = pulling /\ wait' = wait
  BY <1>1, <1>2, PullMoves
<1>5. DiskOK' /\ DiskSame /\ target' = target
  BY <1>2 DEF DiskOK, DiskSame, pullVars
<1>6. ASSUME where = "rename" PROVE Unpacked(c)'
  <2>1. Unpacked(c)
    BY <1>1 DEF TreeInv
  <2>2. Name(c)' = Name(c)
    BY <1>4 DEF Name, Mount
  <2> QED  BY <1>1, <1>3, <1>4, <1>5, <1>6, <2>1, <2>2 DEF Unpacked, DiskSame, DigestMatches
<1> QED  BY <1>1, <1>3, <1>4, <1>5, <1>6, TypePartsNext DEF Works, TargetStays, Pulls

\* The rename installs what the digest names, if it installs anything.
Installs(n) == target[n] = Absent /\ target' = [target EXCEPT ![n] = Payload[n]]

\* What Rename makes visible is the tree the digest names.
LEMMA RenameStep ==
    ASSUME ShapeInv, TreeInv, NEW c \in Calls, Rename(c)
    PROVE  /\ TypeOK' /\ DiskOthers(c) /\ Works(c) /\ pc'[c] \notin {"extract", "rename"}
           /\ target' = target \/ Installs(Name(c))
<1> USE TypeParts DEF ShapeInv
<1>1. /\ pc[c] = "rename" /\ pc[c] \in Pulls /\ "unwindOk" \in Pulls /\ "unwindErr" \in Pulls
      /\ UNCHANGED <<objects, up, pulling, home, mounts, at, wait, stream, read, histVars>>
  BY DEF Rename, Pulls, histVars
<1>2. /\ Name(c) \in Names /\ Unpacked(c) /\ tmp[c] \in Trees /\ tmp[c] # Absent
      /\ tmp[c] = Payload[Name(c)]
  <2>1. Name(c) \in Names
    BY <1>1, CurrentMount DEF Active
  <2>2. Unpacked(c)
    BY <1>1 DEF TreeInv
  <2>3. tmp[c] = TreeOf(stream[c])
    BY <1>1, <2>2, ExtractionCorrect DEF Unpacked
  <2> QED  BY <1>1, <2>1, <2>2, <2>3, PayloadOf, TreesAssumption DEF Unpacked
<1>3. CASE /\ target[Name(c)] = Absent
           /\ target' = [target EXCEPT ![Name(c)] = tmp[c]]
           /\ tmp' = [tmp EXCEPT ![c] = None]
           /\ Go(c, "unwindOk")
  <2>1. /\ CallsOK' /\ UpOK' /\ Others(c) /\ pc'[c] = "unwindOk" /\ at'[c] = at[c]
        /\ mounts' = mounts /\ joined' = joined /\ failed' = failed
        /\ pulling' = pulling /\ wait' = wait
    BY <1>1, <1>3, PullMoves
  <2>2. DiskOK' /\ DiskOthers(c)
    BY <1>1, <1>2, <1>3 DEF DiskOK, DiskOthers
  <2>3. target'[Name(c)] # Absent /\ TargetStays /\ Installs(Name(c))
    BY <1>2, <1>3 DEF DiskOK, TargetStays, Installs
  <2> QED  BY <1>1, <2>1, <2>2, <2>3, TypePartsNext DEF Works
<1>4. CASE target[Name(c)] # Absent /\ Go(c, "unwindOk") /\ UNCHANGED <<target, tmp>>
  <2>1. /\ CallsOK' /\ UpOK' /\ Others(c) /\ pc'[c] = "unwindOk" /\ at'[c] = at[c]
        /\ mounts' = mounts /\ joined' = joined /\ failed' = failed
        /\ pulling' = pulling /\ wait' = wait
    BY <1>1, <1>4, PullMoves
  <2>2. DiskOK' /\ DiskOthers(c)
    BY <1>1, <1>4 DEF DiskOK, DiskOthers
  <2> QED  BY <1>1, <1>4, <2>1, <2>2, TypePartsNext DEF Works, TargetStays
<1>5. CASE Go(c, "unwindErr") /\ UNCHANGED <<target, tmp>>
  <2>1. /\ CallsOK' /\ UpOK' /\ Others(c) /\ pc'[c] = "unwindErr" /\ at'[c] = at[c]
        /\ mounts' = mounts /\ joined' = joined /\ failed' = failed
        /\ pulling' = pulling /\ wait' = wait
    BY <1>1, <1>5, PullMoves
  <2>2. DiskOK' /\ DiskOthers(c)
    BY <1>1, <1>5 DEF DiskOK, DiskOthers
  <2> QED  BY <1>1, <1>5, <2>1, <2>2, TypePartsNext DEF Works, TargetStays
<1> QED  BY <1>3, <1>4, <1>5 DEF Rename

\* The deferred functions end a pull: slot and temporary directory are gone.
LEMMA UnwindStep ==
    ASSUME ShapeInv, NEW c \in Calls, Unwind(c)
    PROVE  TypeOK' /\ DiskOthers(c) /\ Ends(c)
<1> USE TypeParts DEF ShapeInv
<1>1. /\ pc[c] \in {"unwindOk", "unwindErr"} /\ pc[c] \in Active /\ "failed" \in Spots
      /\ Name(c) \in Names /\ home[c] \in Procs /\ Channel(c) \in Channels
  BY CurrentMount DEF Unwind, Active, Pulls, Spots, CallsOK
<1>2. /\ UNCHANGED <<objects, target, up, home, mounts, wait, joined>>
      /\ tmp' = [tmp EXCEPT ![c] = None]
      /\ stream' = [stream EXCEPT ![c] = Absent] /\ read' = [read EXCEPT ![c] = 0]
      /\ pulling' = [pulling EXCEPT ![home[c]][Name(c)] = None]
  BY DEF Unwind, Cleanup, FreeSlot
<1>3. DiskOK' /\ DiskOthers(c) /\ UpOK'
  BY <1>2 DEF DiskOK, DiskOthers, UpOK
<1>4. pulling' \in [Procs -> [Names -> Channels \cup {None}]]
  BY <1>1, <1>2 DEF CallsOK
<1>5. \A p \in Procs, n \in Names :
        pulling'[p][n] = IF p = home[c] /\ n = Name(c) THEN None ELSE pulling[p][n]
  BY <1>1, <1>2 DEF CallsOK
<1>6. CASE pc[c] = "unwindOk"
  <2>1. /\ at' \in [Calls -> 1..(MaxMounts + 1)] /\ pc' \in [Calls -> Spots] /\ Advances(c) /\ failed' = failed
        /\ \A x \in Calls \ {c} : pc'[x] = pc[x] /\ at'[x] = at[x]
    BY <1>1, <1>6, NextMountFacts DEF Unwind
  <2>2. CallsOK'
    BY <1>2, <1>4, <2>1 DEF CallsOK
  <2> QED  BY <1>1, <1>2, <1>3, <1>5, <1>6, <2>1, <2>2, TypePartsNext DEF Others, Ends
<1>7. CASE pc[c] = "unwindErr"
  <2>1. /\ pc' \in [Calls -> Spots] /\ pc'[c] = "failed" /\ \A x \in Calls \ {c} : pc'[x] = pc[x]
        /\ at' = at /\ failed' = failed \cup {Channel(c)}
    BY <1>1, <1>7, GoFacts DEF Unwind
  <2>2. CallsOK'
    BY <1>1, <1>2, <1>4, <2>1 DEF CallsOK
  <2> QED  BY <1>1, <1>2, <1>3, <1>5, <1>7, <2>1, <2>2, TypePartsNext DEF Others, Ends
<1> QED  BY <1>1, <1>6, <1>7

\* All but the bucket and the set of running processes is left alone.
Rests ==
    /\ UNCHANGED <<pc, home, mounts, at, wait, joined, failed, pulling, target>>
    /\ DiskSame

\* An upload concerns no call.
LEMMA PutStep ==
    ASSUME TypeOK, NEW a \in Archives, Put(a)
    PROVE  TypeOK' /\ Rests
BY DEF TypeOK, Put, Rests, DiskSame, callVars, pullVars, histVars

\* Nor does a process that starts again, ...
LEMMA RestartStep ==
    ASSUME TypeOK, NEW p \in Procs, Restart(p)
    PROVE  TypeOK' /\ Rests
BY DEF TypeOK, Restart, Rests, DiskSame, callVars, pullVars, histVars

\* ... nor a stuttering step.
LEMMA StutterStep ==
    ASSUME TypeOK, UNCHANGED vars
    PROVE  TypeOK' /\ Rests
BY DEF TypeOK, vars, Rests, DiskSame, callVars, pullVars, histVars

\* A process dies with its calls and its slots.
Dies(p) ==
    /\ UNCHANGED <<home, mounts, at, wait, joined, failed, target>> /\ DiskSame
    /\ \A x \in Calls : pc'[x] = IF home[x] = p /\ pc[x] \in Active THEN "dead" ELSE pc[x]
    /\ \A q \in Procs, n \in Names : pulling'[q][n] = IF q = p THEN None ELSE pulling[q][n]

\* A crash leaves the disk as it is.
LEMMA CrashStep ==
    ASSUME TypeOK, NEW p \in Procs, Crash(p)
    PROVE  TypeOK' /\ Dies(p)
<1> USE TypeParts
<1>1. /\ UNCHANGED <<objects, target, home, mounts, at, wait, tmp, stream, read, failed, joined>>
      /\ up' = [up EXCEPT ![p] = FALSE]
      /\ pulling' = [pulling EXCEPT ![p] = [n \in Names |-> None]]
      /\ pc' = [c \in Calls |-> IF home[c] = p /\ pc[c] \notin {"idle", "ok", "failed"}
                                THEN "dead" ELSE pc[c]]
  BY DEF Crash, pullVars, histVars
<1>2. /\ pc' \in [Calls -> Spots]
      /\ \A x \in Calls : pc'[x] = IF home[x] = p /\ pc[x] \in Active THEN "dead" ELSE pc[x]
  BY <1>1 DEF CallsOK, Spots, Active, Pulls
<1>3. /\ pulling' \in [Procs -> [Names -> Channels \cup {None}]]
      /\ \A q \in Procs, n \in Names : pulling'[q][n] = IF q = p THEN None ELSE pulling[q][n]
  BY <1>1 DEF CallsOK
<1>4. CallsOK'
  BY <1>1, <1>2, <1>3 DEF CallsOK
<1>5. DiskOK' /\ UpOK'
  BY <1>1 DEF DiskOK, UpOK
<1> QED  BY <1>1, <1>2, <1>3, <1>4, <1>5, TypePartsNext DEF Dies, DiskSame
-----------------------------------------------------------------------------
(***************************************************************************)
(* The invariant is preserved, kind of step by kind of step                *)
(***************************************************************************)
Begins(c) ==
    /\ target' = target /\ pulling' = pulling /\ failed' = failed /\ joined' = joined
    /\ wait' = wait /\ at' = at /\ Others(c)
    /\ pc[c] = "idle" /\ pc'[c] = "mount" /\ mounts'[c] \in MountLists

\* A call that begins works on its first mount.
LEMMA BeginsPlace ==
    ASSUME ShapeInv, NEW c \in Calls, Begins(c)
    PROVE  PlaceInv'
<1> SUFFICES ASSUME NEW x \in Calls
             PROVE  /\ pc'[x] = "idle" <=> mounts'[x] = <<>>
                    /\ pc'[x] = "idle" => at'[x] = 1
                    /\ pc'[x] \in Active => at'[x] \in DOMAIN mounts'[x]
                    /\ pc'[x] = "ok" => at'[x] > Len(mounts'[x])
                    /\ pc'[x] \in Active \ {"mount"} => Name(x)' # None
  BY DEF PlaceInv
<1>1. CASE x = c
  <2>1. /\ mounts'[c] # <<>> /\ DOMAIN mounts'[c] = 1..Len(mounts'[c])
        /\ Len(mounts'[c]) \in 1..MaxMounts
    BY MountList DEF Begins
  <2>2. at'[c] = 1
    BY DEF Begins, ShapeInv, PlaceInv
  <2> QED  BY <1>1, <2>1, <2>2 DEF Begins, Active
<1>2. CASE x # c
  BY <1>2 DEF Begins, Others, ShapeInv, PlaceInv, Name, Mount
<1> QED  BY <1>1, <1>2

\* A call that goes on to its next mount, or stays with this one.
LEMMA MovesPlace ==
    ASSUME ShapeInv, NEW c \in Calls, pc[c] \in Active, Others(c), mounts' = mounts,
           \/ Advances(c)
           \/ at'[c] = at[c] /\ pc'[c] \in {"failed"} \cup (Active \ {"mount"}) /\ Name(c) # None
           \/ at'[c] = at[c] /\ pc'[c] = "failed"
    PROVE  PlaceInv'
<1> SUFFICES ASSUME NEW x \in Calls
             PROVE  /\ pc'[x] = "idle" <=> mounts'[x] = <<>>
                    /\ pc'[x] = "idle" => at'[x] = 1
                    /\ pc'[x] \in Active => at'[x] \in DOMAIN mounts'[x]
                    /\ pc'[x] = "ok" => at'[x] > Len(mounts'[x])
                    /\ pc'[x] \in Active \ {"mount"} => Name(x)' # None
  BY DEF PlaceInv
<1>1. CASE x = c
  <2>1. /\ mounts[c] # <<>> /\ DOMAIN mounts[c] = 1..Len(mounts[c])
        /\ Len(mounts[c]) \in 1..MaxMounts /\ at[c] \in 1..Len(mounts[c])
    BY CurrentMount, MountList
  <2>2. CASE Advances(c)
    BY <1>1, <2>1, <2>2 DEF Advances, Active, Pulls
  <2>3. CASE at'[c] = at[c] /\ pc'[c] \in {"failed"} \cup (Active \ {"mount"}) /\ Name(c) # None
    BY <1>1, <2>1, <2>3 DEF Active, Pulls, Name, Mount
  <2>4. CASE at'[c] = at[c] /\ pc'[c] = "failed"
    BY <1>1, <2>1, <2>4 DEF Active, Pulls
  <2> QED  BY <2>2, <2>3, <2>4
<1>2. CASE x # c
  BY <1>2 DEF Others, ShapeInv, PlaceInv, Name, Mount
<1> QED  BY <1>1, <1>2

\* What the other calls are at, and what became of their pulls.
LEMMA OthersKeep ==
    ASSUME NEW c \in Calls, Others(c), NEW x \in Calls, x # c
    PROVE  /\ pc'[x] = pc[x] /\ Name(x)' = Name(x) /\ Channel(x)' = Channel(x)
           /\ \A i \in 1..MaxMounts : Over(x, i)' <=> Over(x, i)
           /\ mounts'[x] = mounts[x] /\ at'[x] = at[x] /\ joined'[x] = joined[x]
           /\ wait'[x] = wait[x] /\ home'[x] = home[x]
           /\ pulling' = pulling => Slot(x)' = Slot(x)
BY DEF Others, Name, Mount, Channel, Over, Slot

\* As long as no slot and nobody who holds one changes.
LEMMA SlotsKept ==
    ASSUME SlotInv, NEW c \in Calls, Others(c), pulling' = pulling,
           pc[c] \in Pulls <=> pc'[c] \in Pulls,
           pc[c] \in Pulls => at'[c] = at[c] /\ mounts'[c] = mounts[c]
    PROVE  SlotInv'
<1>1. ASSUME NEW x \in Calls, pc'[x] \in Pulls PROVE Slot(x)' = Channel(x)'
  <2>1. CASE x = c
    BY <1>1, <2>1 DEF SlotInv, Slot, Name, Mount, Channel, Others
  <2>2. CASE x # c
    BY <1>1, <2>2, OthersKeep DEF SlotInv
  <2> QED  BY <2>1, <2>2
<1>2. ASSUME NEW p \in Procs, NEW n \in Names, pulling'[p][n] # None
      PROVE  \E d \in Calls : /\ pc'[d] \in Pulls /\ home'[d] = p
                              /\ Name(d)' = n /\ pulling'[p][n] = Channel(d)'
  <2>1. PICK d \in Calls : /\ pc[d] \in Pulls /\ home[d] = p
                           /\ Name(d) = n /\ pulling[p][n] = Channel(d)
    BY <1>2 DEF SlotInv
  <2>2. /\ pc'[d] \in Pulls /\ home'[d] = home[d] /\ Name(d)' = Name(d) /\ Channel(d)' = Channel(d)
    <3>1. CASE d = c
      BY <2>1, <3>1 DEF Name, Mount, Channel, Others
    <3>2. CASE d # c
      BY <2>1, <3>2, OthersKeep
    <3> QED  BY <3>1, <3>2
  <2> QED  BY <2>1, <2>2
<1> QED  BY <1>1, <1>2 DEF SlotInv

\* A slot that is taken belongs to the call that took it.
LEMMA TakesSlot ==
    ASSUME ShapeInv, SlotInv, NEW c \in Calls, Takes(c)
    PROVE  SlotInv'
<1>0. /\ Name(c) \in Names /\ home[c] \in Procs /\ Name(c)' = Name(c) /\ Channel(c)' = Channel(c)
      /\ Others(c) /\ pc'[c] \in Pulls /\ pc[c] \notin Pulls /\ home' = home
  BY CurrentMount, TypeParts DEF Takes, Name, Mount, Channel, Others, Pulls, Active, ShapeInv, CallsOK
<1>1. ASSUME NEW x \in Calls, pc'[x] \in Pulls PROVE Slot(x)' = Channel(x)'
  <2>1. CASE x = c
    BY <1>0, <2>1 DEF Takes, Slot
  <2>2. CASE x # c
    <3>1. pc[x] \in Pulls /\ Slot(x) = Channel(x) /\ Name(x)' = Name(x) /\ Channel(x)' = Channel(x)
      BY <1>0, <1>1, <2>2, OthersKeep DEF SlotInv
    <3>2. Name(x) \in Names /\ home[x] \in Procs /\ Channel(x) # None
      BY <3>1, CurrentMount, TypeParts, LayerResolverAssumption
         DEF Active, ShapeInv, CallsOK, Pulls, Channels
    <3>3. ~(home[x] = home[c] /\ Name(x) = Name(c))
      BY <3>1, <3>2 DEF Takes, Slot
    <3> QED  BY <1>0, <3>1, <3>2, <3>3 DEF Takes, Slot
  <2> QED  BY <2>1, <2>2
<1>2. ASSUME NEW p \in Procs, NEW n \in Names, pulling'[p][n] # None
      PROVE  \E d \in Calls : /\ pc'[d] \in Pulls /\ home'[d] = p
                              /\ Name(d)' = n /\ pulling'[p][n] = Channel(d)'
  <2>1. CASE p = home[c] /\ n = Name(c)
    BY <1>0, <2>1 DEF Takes
  <2>2. CASE ~(p = home[c] /\ n = Name(c))
    <3>1. pulling'[p][n] = pulling[p][n]
      BY <2>2 DEF Takes
    <3>2. PICK d \in Calls : /\ pc[d] \in Pulls /\ home[d] = p
                             /\ Name(d) = n /\ pulling[p][n] = Channel(d)
      BY <1>2, <3>1 DEF SlotInv
    <3>3. d # c
      BY <1>0, <3>2
    <3> QED  BY <1>0, <3>1, <3>2, <3>3, OthersKeep
  <2> QED  BY <2>1, <2>2
<1> QED  BY <1>1, <1>2 DEF SlotInv

\* A slot that is freed belonged to the call that frees it, and to no other.
LEMMA EndsSlot ==
    ASSUME ShapeInv, SlotInv, NEW c \in Calls, Ends(c)
    PROVE  SlotInv'
<1>0. /\ Name(c) \in Names /\ home[c] \in Procs /\ Others(c) /\ home' = home
      /\ pc[c] \in Pulls /\ pc'[c] \notin Pulls /\ Slot(c) = Channel(c)
  <2>1. pc[c] \in Pulls /\ pc[c] \in Active /\ pc[c] # "mount" /\ pc'[c] \notin Pulls
    BY DEF Ends, Advances, Pulls, Active
  <2> QED  BY <2>1, CurrentMount, TypeParts DEF Ends, SlotInv, Others, ShapeInv, CallsOK
<1>1. ASSUME NEW x \in Calls, x # c, pc[x] \in Pulls
      PROVE  ~(home[x] = home[c] /\ Name(x) = Name(c))
  <2>1. Slot(x) = Channel(x) /\ Channel(x) # Channel(c)
    BY <1>1 DEF SlotInv, Channel
  <2> QED  BY <1>0, <2>1 DEF Slot
<1>2. ASSUME NEW x \in Calls, pc'[x] \in Pulls PROVE Slot(x)' = Channel(x)'
  <2>1. x # c
    BY <1>0, <1>2
  <2>2. pc[x] \in Pulls /\ Slot(x) = Channel(x) /\ Name(x)' = Name(x) /\ Channel(x)' = Channel(x)
    BY <1>0, <1>2, <2>1, OthersKeep DEF SlotInv
  <2>3. Name(x) \in Names /\ home[x] \in Procs
    BY <2>2, CurrentMount, TypeParts DEF Active, ShapeInv, CallsOK, Pulls
  <2> QED  BY <1>0, <1>1, <2>1, <2>2, <2>3 DEF Ends, Slot
<1>3. ASSUME NEW p \in Procs, NEW n \in Names, pulling'[p][n] # None
      PROVE  \E d \in Calls : /\ pc'[d] \in Pulls /\ home'[d] = p
                              /\ Name(d)' = n /\ pulling'[p][n] = Channel(d)'
  <2>1. ~(p = home[c] /\ n = Name(c)) /\ pulling'[p][n] = pulling[p][n]
    BY <1>3 DEF Ends
  <2>2. PICK d \in Calls : /\ pc[d] \in Pulls /\ home[d] = p
                           /\ Name(d) = n /\ pulling[p][n] = Channel(d)
    BY <1>3, <2>1 DEF SlotInv
  <2>3. d # c
    BY <2>1, <2>2
  <2> QED  BY <1>0, <2>1, <2>2, <2>3, OthersKeep
<1> QED  BY <1>2, <1>3 DEF SlotInv

\* The call that a step is about has not been answered yet.
Moves(c) == Begins(c) \/ Walks(c) \/ Works(c) \/ Joins(c) \/ Takes(c) \/ Ends(c)

\* What every step of a call has in common.
LEMMA MovesFacts ==
    ASSUME ShapeInv, NEW c \in Calls, Moves(c)
    PROVE  /\ Others(c) /\ pc[c] \in Active \cup {"idle"} /\ pc'[c] \notin {"idle", "dead"}
           /\ at[c] \in 1..(MaxMounts + 1) /\ at'[c] \in {at[c], at[c] + 1}
           /\ pc[c] # "idle" => mounts' = mounts
           /\ home' = home /\ TargetStays /\ failed \subseteq failed' /\ joined[c] \subseteq joined'[c]
<1>1. at[c] \in 1..(MaxMounts + 1)
  BY TypeParts DEF ShapeInv, CallsOK
<1>2. CASE Begins(c)
  BY <1>1, <1>2 DEF Begins, Active, TargetStays, Others
<1>3. CASE Walks(c)
  BY <1>1, <1>3 DEF Walks, Active, Advances, TargetStays, Others
<1>4. CASE Works(c)
  BY <1>1, <1>4 DEF Works, Active, Pulls, Others
<1>5. CASE Joins(c) \/ Takes(c)
  BY <1>1, <1>5 DEF Joins, Takes, Active, TargetStays, Others
<1>6. CASE Ends(c)
  BY <1>1, <1>6 DEF Ends, Active, Pulls, Advances, TargetStays, Others
<1> QED  BY <1>2, <1>3, <1>4, <1>5, <1>6 DEF Moves

\* A pull that has ended stays so.
LEMMA OverStays ==
    ASSUME ShapeInv, NEW c \in Calls, Moves(c), NEW d \in Calls, NEW i \in 1..MaxMounts, Over(d, i)
    PROVE  Over(d, i)'
<1>1. CASE d = c
  BY <1>1, MovesFacts DEF Over, Active, Pulls
<1>2. CASE d # c
  BY <1>2, MovesFacts, OthersKeep
<1> QED  BY <1>1, <1>2

\* A pull that is under way goes on, or it ends in this step.
LEMMA PullGoesOn ==
    ASSUME ShapeInv, NEW c \in Calls, Moves(c), NEW d \in Calls, NEW i \in 1..MaxMounts,
           i = at[d], pc[d] \in Pulls
    PROVE  \/ i = at'[d] /\ pc'[d] \in Pulls
           \/ d = c /\ Ends(c) /\ Over(d, i)'
<1>1. CASE d # c
  BY <1>1, MovesFacts, OthersKeep
<1>2. CASE d = c
  <2>1. Works(c) \/ Ends(c)
    BY <1>2 DEF Moves, Begins, Walks, Joins, Takes, Pulls
  <2>2. CASE Works(c)
    BY <1>2, <2>2 DEF Works
  <2>3. CASE Ends(c)
    BY <1>2, <2>3, MovesFacts DEF Ends, Advances, Over
  <2> QED  BY <2>1, <2>2, <2>3
<1> QED  BY <1>1, <1>2

\* A call that waited goes on only when the pull is over.
LEMMA MovesJoin ==
    ASSUME ShapeInv, SlotInv, JoinInv, NEW c \in Calls, Moves(c)
    PROVE  JoinInv'
<1> SUFFICES ASSUME NEW x \in Calls, NEW d \in Calls, NEW i \in 1..MaxMounts, <<d, i>> \in joined'[x],
                    ~Over(d, i)'
             PROVE  /\ i = at'[d] /\ pc'[d] \in Pulls
                    /\ pc'[x] \in {"failed", "dead"} \/ (pc'[x] = "wait" /\ wait'[x] = <<d, i>>)
  BY DEF JoinInv
<1>1. CASE <<d, i>> \in joined[x]
  <2>1. /\ i = at[d] /\ pc[d] \in Pulls
        /\ pc[x] \in {"failed", "dead"} \/ (pc[x] = "wait" /\ wait[x] = <<d, i>>)
    BY <1>1, OverStays DEF JoinInv
  <2>2. i = at'[d] /\ pc'[d] \in Pulls
    BY <2>1, PullGoesOn
  <2>3. pc'[x] \in {"failed", "dead"} \/ (pc'[x] = "wait" /\ wait'[x] = <<d, i>>)
    <3>1. CASE x # c
      BY <2>1, <3>1, MovesFacts, OthersKeep
    <3>2. CASE x = c
      <4>1. pc[c] = "wait" /\ wait[c] = <<d, i>>
        BY <2>1, <3>2, MovesFacts DEF Active, Pulls
      <4>2. Walks(c)
        BY <4>1 DEF Moves, Begins, Works, Joins, Takes, Ends, Pulls
      <4>3. ~Over(d, i)
        BY OverStays
      <4>4. pc'[c] = "failed"
        BY <4>1, <4>2, <4>3 DEF Walks
      <4> QED  BY <3>2, <4>4
    <3> QED  BY <3>1, <3>2
  <2> QED  BY <2>2, <2>3
<1>2. CASE <<d, i>> \notin joined[x]
  <2>1. x = c /\ Joins(c)
    <3>1. x = c
      BY <1>2, MovesFacts, OthersKeep
    <3> QED  BY <1>2, <3>1 DEF Moves, Begins, Walks, Works, Takes, Ends
  <2>2. /\ <<d, i>> = Slot(c) /\ wait'[c] = <<d, i>> /\ pc'[c] = "wait" /\ pc[c] = "lock"
        /\ Slot(c) # None
    BY <1>2, <2>1 DEF Joins
  <2>3. home[c] \in Procs /\ Name(c) \in Names
    BY <2>2, CurrentMount, TypeParts DEF ShapeInv, CallsOK, Active
  <2>4. PICK e \in Calls : pc[e] \in Pulls /\ Slot(c) = Channel(e)
    BY <2>2, <2>3 DEF SlotInv, Slot
  <2>5. e = d /\ i = at[d] /\ pc[d] \in Pulls
    BY <2>2, <2>4 DEF Channel
  <2>6. i = at'[d] /\ pc'[d] \in Pulls
    BY <2>5, PullGoesOn
  <2> QED  BY <2>1, <2>2, <2>6
<1> QED  BY <1>1, <1>2

\* Waiters stay with a pull that will bring their layer, or fail.
LEMMA MovesWait ==
    ASSUME ShapeInv, SlotInv, JoinInv, WaitInv, PresentInv, NEW c \in Calls, Moves(c)
    PROVE  WaitInv'
<1> SUFFICES ASSUME NEW x \in Calls, pc'[x] = "wait"
             PROVE  \E d \in Calls, i \in 1..MaxMounts :
                       /\ wait'[x] = <<d, i>> /\ <<d, i>> \in joined'[x]
                       /\ home'[d] = home'[x] /\ pc'[d] \notin {"idle", "dead"}
                       /\ i \in DOMAIN mounts'[d] /\ mounts'[d][i].digest = Name(x)'
                       /\ Over(d, i)' => <<d, i>> \in failed' \/ target'[Name(x)'] # Absent
  BY DEF WaitInv
<1>1. CASE x # c
  <2>1. pc[x] = "wait" /\ Name(x)' = Name(x) /\ wait'[x] = wait[x] /\ joined'[x] = joined[x]
        /\ home' = home
    BY <1>1, MovesFacts, OthersKeep
  <2>2. PICK d \in Calls, i \in 1..MaxMounts :
           /\ wait[x] = <<d, i>> /\ <<d, i>> \in joined[x]
           /\ home[d] = home[x] /\ pc[d] \notin {"idle", "dead"}
           /\ i \in DOMAIN mounts[d] /\ mounts[d][i].digest = Name(x)
           /\ Over(d, i) => <<d, i>> \in failed \/ target[Name(x)] # Absent
    BY <2>1 DEF WaitInv
  <2>3. pc'[d] \notin {"idle", "dead"} /\ mounts'[d] = mounts[d]
    <3>1. CASE d = c
      BY <2>2, <3>1, MovesFacts
    <3>2. CASE d # c
      BY <2>2, <3>2, MovesFacts, OthersKeep
    <3> QED  BY <3>1, <3>2
  <2>4. Name(x) \in Names
    BY <2>1, CurrentMount DEF Active
  <2>5. ASSUME Over(d, i)' PROVE <<d, i>> \in failed' \/ target'[Name(x)] # Absent
    <3>1. CASE Over(d, i)
      BY <2>2, <2>4, <3>1, MovesFacts DEF TargetStays
    <3>2. CASE ~Over(d, i)
      <4>1. i = at[d] /\ pc[d] \in Pulls
        BY <2>2, <3>2 DEF JoinInv
      <4>2. d = c /\ Ends(c)
        <5>1. ~(i = at'[d] /\ pc'[d] \in Pulls)
          BY <2>3, <2>5, TypeParts DEF Over, Pulls, ShapeInv, CallsOK
        <5> QED  BY <4>1, <5>1, PullGoesOn
      <4>3. Name(c) = Name(x) /\ Channel(c) = <<d, i>>
        BY <2>2, <4>1, <4>2 DEF Name, Mount, Channel
      <4>4. CASE pc[c] = "unwindOk"
        BY <4>2, <4>3, <4>4 DEF PresentInv, Ends
      <4>5. CASE pc[c] = "unwindErr"
        BY <4>2, <4>3, <4>5 DEF Ends
      <4> QED  BY <4>2, <4>4, <4>5 DEF Ends
    <3> QED  BY <3>1, <3>2
  <2> QED  BY <2>1, <2>2, <2>3, <2>5
<1>2. CASE x = c
  <2>1. Joins(c)
    BY <1>2 DEF Moves, Begins, Walks, Works, Takes, Ends, Pulls, Advances
  <2>2. /\ wait'[c] = Slot(c) /\ pc[c] = "lock" /\ pc'[c] = "wait" /\ Slot(c) \in joined'[c]
        /\ Slot(c) # None /\ at'[c] = at[c] /\ mounts' = mounts /\ Others(c) /\ home' = home
    BY <2>1 DEF Joins, Others
  <2>3. home[c] \in Procs /\ Name(c) \in Names
    BY <2>2, CurrentMount, TypeParts DEF ShapeInv, CallsOK, Active
  <2>4. PICK d \in Calls : /\ pc[d] \in Pulls /\ home[d] = home[c] /\ Name(d) = Name(c)
                           /\ Slot(c) = Channel(d)
    BY <2>2, <2>3 DEF SlotInv, Slot
  <2>5. d # c /\ at[d] \in 1..MaxMounts /\ at[d] \in DOMAIN mounts[d]
    BY <2>2, <2>4, CurrentMount DEF Pulls, Active
  <2>6. pc'[d] = pc[d] /\ at'[d] = at[d] /\ Name(c)' = Name(c)
    BY <2>2, <2>5, OthersKeep DEF Name, Mount
  <2>7. ~Over(d, at[d])'
    BY <2>4, <2>5, <2>6 DEF Over, Pulls
  <2>8. wait'[c] = <<d, at[d]>> /\ mounts'[d][at[d]].digest = Name(c)
    BY <2>2, <2>4 DEF Channel, Name, Mount
  <2> QED  BY <1>2, <2>2, <2>4, <2>5, <2>6, <2>7, <2>8 DEF Pulls
<1> QED  BY <1>1, <1>2

\* Whoever was misled stays so.
LEMMA MisledStays ==
    ASSUME ShapeInv, NEW c \in Calls, Moves(c), NEW x \in Calls, Misled(x)
    PROVE  Misled(x)'
<1>1. joined[x] \subseteq joined'[x]
  <2>1. CASE x = c
    BY <2>1, MovesFacts
  <2>2. CASE x # c
    BY <2>2, MovesFacts, OthersKeep
  <2> QED  BY <2>1, <2>2
<1> QED  BY <1>1, MovesFacts DEF Misled

\* Mounts a call is done with stay there, and so does the excuse of one misled.
LEMMA MovesPresent ==
    ASSUME ShapeInv, PresentInv, NEW c \in Calls, Moves(c)
    PROVE  PresentInv'
<1> SUFFICES ASSUME NEW x \in Calls
             PROVE  /\ pc'[x] = "unwindOk" => target'[Name(x)'] # Absent
                    /\ pc'[x] \in Active \cup {"ok"} =>
                          \A i \in DOMAIN mounts'[x] :
                              i < at'[x] /\ mounts'[x][i].digest # None =>
                                  target'[mounts'[x][i].digest] # Absent \/ Misled(x)'
  BY DEF PresentInv
\* A mount that was there before is there still.
<1>1. ASSUME pc[x] \in Active \cup {"ok"}, NEW i \in DOMAIN mounts[x],
             i < at[x], mounts[x][i].digest # None
      PROVE  target'[mounts[x][i].digest] # Absent \/ Misled(x)'
  <2>1. mounts[x] \in MountLists
    BY <1>1, TypeParts DEF ShapeInv, PlaceInv, CallsOK, Active, Pulls
  <2>2. mounts[x][i].digest \in Names
    BY <1>1, <2>1, MountList
  <2>3. target[mounts[x][i].digest] # Absent \/ Misled(x)
    BY <1>1 DEF PresentInv
  <2> QED  BY <2>2, <2>3, MisledStays, MovesFacts DEF TargetStays
<1>2. CASE x # c
  <2>1. /\ pc'[x] = pc[x] /\ Name(x)' = Name(x) /\ mounts'[x] = mounts[x] /\ at'[x] = at[x]
    BY <1>2, MovesFacts, OthersKeep
  <2>2. ASSUME pc[x] = "unwindOk" PROVE target'[Name(x)] # Absent
    <3>1. Name(x) \in Names /\ target[Name(x)] # Absent
      BY <2>2, CurrentMount DEF PresentInv, Active, Pulls
    <3> QED  BY <3>1, MovesFacts DEF TargetStays
  <2> QED  BY <1>1, <2>1, <2>2
<1>3. CASE x = c
  <2>1. CASE Begins(c)
    <3>1. at'[c] = 1 /\ pc'[c] = "mount" /\ DOMAIN mounts'[c] = 1..Len(mounts'[c])
      BY <2>1, MountList DEF Begins, ShapeInv, PlaceInv
    <3> QED  BY <1>3, <3>1
  <2>2. CASE ~Begins(c)
    <3>1. /\ pc[c] \in Active /\ mounts' = mounts /\ DOMAIN mounts[c] = 1..Len(mounts[c])
          /\ Len(mounts[c]) \in 1..MaxMounts /\ at[c] \in 1..MaxMounts
      <4>1. pc[c] \in Active
        BY <2>2, MovesFacts DEF Moves, Walks, Works, Joins, Takes, Ends, Pulls, Active
      <4> QED  BY <4>1, MovesFacts, CurrentMount DEF Active, Pulls
    \* Only the current mount is new.
    <3>2. ASSUME at'[c] = at[c] + 1, Name(c) # None
          PROVE  target'[Name(c)] # Absent \/ Misled(c)'
      <4>1. (Walks(c) \/ Ends(c)) /\ Advances(c)
        BY <2>2, <3>1, <3>2 DEF Moves, Walks, Works, Joins, Takes, Ends
      <4>2. CASE Walks(c)
        <5>1. (target[Name(c)] # Absent \/ Misled(c)) /\ target' = target
          BY <3>1, <3>2, <4>2 DEF Walks
        <5> QED  BY <5>1, MisledStays
      <4>3. CASE Ends(c)
        <5>1. pc[c] = "unwindOk" /\ target' = target
          BY <3>1, <3>2, <4>3 DEF Ends
        <5> QED  BY <5>1 DEF PresentInv
      <4> QED  BY <4>1, <4>2, <4>3
    <3>3. ASSUME pc'[c] = "unwindOk" PROVE target'[Name(c)'] # Absent
      <4>1. Works(c)
        BY <2>2, <3>3 DEF Moves, Walks, Joins, Takes, Ends, Advances
      <4>2. Name(c)' = Name(c)
        BY <4>1 DEF Works, Name, Mount
      <4> QED  BY <3>3, <4>1, <4>2 DEF Works
    <3>4. ASSUME NEW i \in DOMAIN mounts[c], i < at'[c], mounts[c][i].digest # None
          PROVE  target'[mounts[c][i].digest] # Absent \/ Misled(c)'
      <4>1. CASE i < at[c]
        BY <1>1, <1>3, <3>1, <3>4, <4>1
      <4>2. CASE ~(i < at[c])
        <5>1. i = at[c] /\ at'[c] = at[c] + 1
          BY <3>1, <3>4, <4>2, MovesFacts
        <5> QED  BY <3>2, <3>4, <5>1 DEF Name, Mount
      <4> QED  BY <4>1, <4>2
    <3> QED  BY <1>3, <3>1, <3>3, <3>4
  <2> QED  BY <2>1, <2>2
<1> QED  BY <1>2, <1>3

\* A step that leaves the unpacked files of the other calls alone.
LEMMA TreesKept ==
    ASSUME TreeInv, NEW c \in Calls, Others(c), DiskOthers(c),
           pc'[c] \in {"extract", "rename"} => Unpacked(c)'
    PROVE  TreeInv'
<1> SUFFICES ASSUME NEW x \in Calls, pc'[x] \in {"extract", "rename"} PROVE Unpacked(x)'
  BY DEF TreeInv
<1>1. CASE x = c
  BY <1>1
<1>2. CASE x # c
  <2>1. pc'[x] = pc[x] /\ Name(x)' = Name(x) /\ Unpacked(x)
    BY <1>2, OthersKeep DEF TreeInv
  <2> QED  BY <1>2, <2>1 DEF Unpacked, DiskOthers, DigestMatches
<1> QED  BY <1>1, <1>2

\* All of it, for a step of one call.
LEMMA MovesKeep ==
    ASSUME ResolverInv, NEW c \in Calls, Moves(c), TypeOK', DiskOthers(c),
           pc'[c] \in {"extract", "rename"} => Unpacked(c)'
    PROVE  ResolverInv'
<1> USE DEF ResolverInv
<1>1. PlaceInv'
  <2>1. CASE Begins(c)
    BY <2>1, BeginsPlace
  <2>2. CASE Walks(c)
    BY <2>2, MovesPlace DEF Walks, Active
  <2>3. CASE Works(c)
    <3>1. pc[c] \in Active /\ Name(c) # None /\ pc'[c] \in Active \ {"mount"}
      BY <2>3 DEF Works, Active, Pulls, ShapeInv, PlaceInv
    <3> QED  BY <2>3, <3>1, MovesPlace DEF Works
  <2>4. CASE Joins(c) \/ Takes(c)
    <3>1. pc[c] \in Active /\ Name(c) # None /\ pc'[c] \in Active \ {"mount"}
      BY <2>4 DEF Joins, Takes, Active, Pulls, ShapeInv, PlaceInv
    <3> QED  BY <2>4, <3>1, MovesPlace DEF Joins, Takes
  <2>5. CASE Ends(c)
    <3>1. pc[c] \in Active
      BY <2>5 DEF Ends, Active, Pulls
    <3> QED  BY <2>5, <3>1, MovesPlace DEF Ends
  <2> QED  BY <2>1, <2>2, <2>3, <2>4, <2>5 DEF Moves
<1>2. SlotInv'
  <2>1. CASE Begins(c) \/ Walks(c) \/ Joins(c)
    BY <2>1, SlotsKept DEF Begins, Walks, Joins, Pulls, Advances
  <2>2. CASE Works(c)
    BY <2>2, SlotsKept DEF Works
  <2> QED  BY <2>1, <2>2, TakesSlot, EndsSlot DEF Moves
<1>3. TreeInv'
  BY MovesFacts, TreesKept
<1> QED  BY <1>1, <1>2, <1>3, MovesJoin, MovesWait, MovesPresent DEF ShapeInv

\* Steps that concern no call keep the invariant.
LEMMA RestsKeep ==
    ASSUME ResolverInv, Rests, TypeOK'
    PROVE  ResolverInv'
<1>1. /\ PlaceInv' /\ SlotInv' /\ JoinInv' /\ WaitInv' /\ PresentInv'
  <2> USE DEF Rests, ResolverInv, ShapeInv, Name, Mount, Slot, Channel
  <2>1. PlaceInv'
    BY DEF PlaceInv
  <2>2. SlotInv'
    BY DEF SlotInv
  <2>3. JoinInv'
    BY DEF JoinInv, Over
  <2>4. WaitInv'
    <3> SUFFICES ASSUME NEW x \in Calls, pc'[x] = "wait"
                 PROVE  \E d \in Calls, i \in 1..MaxMounts :
                           /\ wait'[x] = <<d, i>> /\ <<d, i>> \in joined'[x]
                           /\ home'[d] = home'[x] /\ pc'[d] \notin {"idle", "dead"}
                           /\ i \in DOMAIN mounts'[d] /\ mounts'[d][i].digest = Name(x)'
                           /\ Over(d, i)' => <<d, i>> \in failed' \/ target'[Name(x)'] # Absent
      BY DEF WaitInv
    <3>1. Name(x)' = Name(x) /\ \A d \in Calls, i \in 1..MaxMounts : Over(d, i)' <=> Over(d, i)
      BY DEF Over
    <3> HIDE DEF Name
    <3> QED  BY <3>1 DEF WaitInv
  <2>5. PresentInv'
    BY DEF PresentInv, Misled
  <2> QED  BY <2>1, <2>2, <2>3, <2>4, <2>5
<1>2. TreeInv'
  BY DEF Rests, DiskSame, ResolverInv, TreeInv, Unpacked, DigestMatches, Name, Mount
<1> QED  BY <1>1, <1>2 DEF ResolverInv, ShapeInv

\* So does the end of a process: its waiters end with their pulls.
LEMMA DiesKeep ==
    ASSUME ResolverInv, NEW p \in Procs, Dies(p), TypeOK'
    PROVE  ResolverInv'
<1> USE DEF ResolverInv
<1>0. \A x \in Calls : /\ pc'[x] = IF home[x] = p /\ pc[x] \in Active THEN "dead" ELSE pc[x]
                       /\ Name(x)' = Name(x) /\ Channel(x)' = Channel(x)
                       /\ home[x] \in Procs
  BY TypeParts DEF Dies, Name, Mount, Channel, ShapeInv, CallsOK
<1>1. PlaceInv'
  BY <1>0 DEF Dies, ShapeInv, PlaceInv, Active, Pulls
<1>2. SlotInv'
  <2>1. ASSUME NEW x \in Calls, pc'[x] \in Pulls PROVE Slot(x)' = Channel(x)'
    <3>1. pc[x] \in Pulls /\ home[x] # p /\ Slot(x) = Channel(x)
      BY <1>0, <2>1 DEF SlotInv, Pulls, Active
    <3>2. Name(x) \in Names
      BY <3>1, CurrentMount DEF Pulls, Active
    <3> QED  BY <1>0, <3>1, <3>2 DEF Dies, Slot
  <2>2. ASSUME NEW q \in Procs, NEW n \in Names, pulling'[q][n] # None
        PROVE  \E d \in Calls : /\ pc'[d] \in Pulls /\ home'[d] = q
                                /\ Name(d)' = n /\ pulling'[q][n] = Channel(d)'
    <3>1. q # p /\ pulling'[q][n] = pulling[q][n]
      BY <2>2 DEF Dies
    <3>2. PICK d \in Calls : /\ pc[d] \in Pulls /\ home[d] = q
                             /\ Name(d) = n /\ pulling[q][n] = Channel(d)
      BY <2>2, <3>1 DEF SlotInv
    <3> QED  BY <1>0, <3>1, <3>2 DEF Dies
  <2> QED  BY <2>1, <2>2 DEF SlotInv
<1>3. JoinInv'
  <2> SUFFICES ASSUME NEW x \in Calls, NEW d \in Calls, NEW i \in 1..MaxMounts, <<d, i>> \in joined'[x],
                      ~Over(d, i)'
               PROVE  /\ i = at'[d] /\ pc'[d] \in Pulls
                      /\ pc'[x] \in {"failed", "dead"} \/ (pc'[x] = "wait" /\ wait'[x] = <<d, i>>)
    BY DEF JoinInv
  <2>1. ~Over(d, i) /\ at'[d] = at[d] /\ <<d, i>> \in joined[x] /\ wait'[x] = wait[x]
    BY <1>0 DEF Over, Dies, Active, Pulls
  <2>2. /\ i = at[d] /\ pc[d] \in Pulls
        /\ pc[x] \in {"failed", "dead"} \/ (pc[x] = "wait" /\ wait[x] = <<d, i>>)
    BY <2>1 DEF JoinInv
  <2>3. pc'[d] = pc[d]
    BY <1>0, <2>1, <2>2 DEF Over
  <2> QED  BY <1>0, <2>1, <2>2, <2>3
<1>4. WaitInv'
  <2> SUFFICES ASSUME NEW x \in Calls, pc'[x] = "wait"
               PROVE  \E d \in Calls, i \in 1..MaxMounts :
                         /\ wait'[x] = <<d, i>> /\ <<d, i>> \in joined'[x]
                         /\ home'[d] = home'[x] /\ pc'[d] \notin {"idle", "dead"}
                         /\ i \in DOMAIN mounts'[d] /\ mounts'[d][i].digest = Name(x)'
                         /\ Over(d, i)' => <<d, i>> \in failed' \/ target'[Name(x)'] # Absent
    BY DEF WaitInv
  <2>1. pc[x] = "wait" /\ home[x] # p
    BY <1>0 DEF Active
  <2>2. PICK d \in Calls, i \in 1..MaxMounts :
           /\ wait[x] = <<d, i>> /\ <<d, i>> \in joined[x]
           /\ home[d] = home[x] /\ pc[d] \notin {"idle", "dead"}
           /\ i \in DOMAIN mounts[d] /\ mounts[d][i].digest = Name(x)
           /\ Over(d, i) => <<d, i>> \in failed \/ target[Name(x)] # Absent
    BY <2>1 DEF WaitInv
  <2>3. pc'[d] = pc[d] /\ (Over(d, i)' <=> Over(d, i)) /\ Name(x)' = Name(x)
    BY <1>0, <2>1, <2>2 DEF Over, Dies
  <2> QED  BY <2>2, <2>3 DEF Dies
<1>5. PresentInv'
  <2> SUFFICES ASSUME NEW x \in Calls
               PROVE  /\ pc'[x] = "unwindOk" => target'[Name(x)'] # Absent
                      /\ pc'[x] \in Active \cup {"ok"} =>
                            \A i \in DOMAIN mounts'[x] :
                                i < at'[x] /\ mounts'[x][i].digest # None =>
                                    target'[mounts'[x][i].digest] # Absent \/ Misled(x)'
    BY DEF PresentInv
  <2>1. Misled(x)' <=> Misled(x)
    BY DEF Misled, Dies
  <2>2. pc'[x] \in Active \cup {"ok"} => pc'[x] = pc[x]
    BY <1>0 DEF Active, Pulls
  <2>3. pc'[x] = "unwindOk" => pc'[x] = pc[x]
    BY <1>0
  <2> QED  BY <1>0, <2>1, <2>2, <2>3 DEF Dies, PresentInv
<1>6. TreeInv'
  <2> SUFFICES ASSUME NEW x \in Calls, pc'[x] \in {"extract", "rename"} PROVE Unpacked(x)'
    BY DEF TreeInv
  <2>1. pc'[x] = pc[x] /\ Name(x)' = Name(x) /\ Unpacked(x)
    BY <1>0 DEF TreeInv
  <2> QED  BY <2>1 DEF Unpacked, Dies, DiskSame, DigestMatches
<1> QED  BY <1>1, <1>2, <1>3, <1>4, <1>5, <1>6 DEF ShapeInv

\* A step of one call, and what it does to the disk.
Calling(c) ==
    /\ Moves(c) /\ DiskOthers(c)
    /\ pc'[c] \in {"extract", "rename"} => Unpacked(c)'
    /\ target' = target \/ (Works(c) /\ Installs(Name(c)))

\* Every step of a call is of one of the kinds above.
LEMMA CallingKinds ==
    ASSUME ResolverInv, NEW c \in Calls, Begin(c) \/ CallStep(c) \/ TimedOut(c)
    PROVE  TypeOK' /\ Calling(c)
<1> USE DEF ResolverInv, Calling, Moves
<1>1. DiskSame => DiskOthers(c)
  BY DEF DiskSame, DiskOthers
<1>2. CASE Begin(c)
  BY <1>1, <1>2, BeginStep DEF Begins
<1>3. CASE HostMount(c) \/ Stat(c) \/ Woken(c) \/ TimedOut(c)
  <2>1. TypeOK' /\ DiskSame /\ Walks(c)
    BY <1>3, HostMountStep, StatStep, WokenStep, TimedOutStep
  <2> QED  BY <1>1, <2>1 DEF Walks, Advances
<1>4. CASE LockSlot(c)
  <2>1. TypeOK' /\ DiskSame /\ (Joins(c) \/ Takes(c))
    BY <1>4, LockSlotStep
  <2> QED  BY <1>1, <2>1 DEF Joins, Takes
<1>5. CASE Recheck(c) \/ Get(c) \/ ExtractEntry(c) \/ Verify(c)
  <2>1. /\ TypeOK' /\ DiskOthers(c) /\ target' = target /\ Works(c)
        /\ pc'[c] \in {"extract", "rename"} => Unpacked(c)'
    BY <1>1, <1>5, RecheckStep, GetStep, ExtractEntryStep, VerifyStep
  <2> QED  BY <2>1
<1>6. CASE Rename(c)
  BY <1>6, RenameStep
<1>7. CASE Unwind(c)
  <2>1. TypeOK' /\ DiskOthers(c) /\ Ends(c)
    BY <1>7, UnwindStep
  <2> QED  BY <2>1 DEF Ends, Advances
<1> QED  BY <1>2, <1>3, <1>4, <1>5, <1>6, <1>7 DEF CallStep

\* Every step is one of a call, the death of a process, or of no interest.
LEMMA StepKinds ==
    ASSUME ResolverInv, [Next]_vars
    PROVE  TypeOK' /\ (Rests \/ (\E c \in Calls : Calling(c)) \/ \E p \in Procs : Dies(p))
<1> USE DEF ResolverInv, ShapeInv
<1>1. CASE \E c \in Calls : Begin(c) \/ CallStep(c) \/ TimedOut(c)
  BY <1>1, CallingKinds
<1>2. CASE \E a \in Archives : Put(a)
  BY <1>2, PutStep
<1>3. CASE \E p \in Procs : Crash(p) \/ Restart(p)
  BY <1>3, CrashStep, RestartStep
<1>4. CASE Finished \/ UNCHANGED vars
  BY <1>4, StutterStep DEF Finished
<1> QED  BY <1>1, <1>2, <1>3, <1>4 DEF Next

\* Every step keeps the invariant.
LEMMA NextKeeps == ResolverInv /\ [Next]_vars => ResolverInv'
<1> SUFFICES ASSUME ResolverInv, [Next]_vars PROVE ResolverInv'
  OBVIOUS
<1>1. CASE Rests
  BY <1>1, StepKinds, RestsKeep
<1>2. CASE \E c \in Calls : Calling(c)
  BY <1>2, StepKinds, MovesKeep DEF Calling
<1>3. CASE \E p \in Procs : Dies(p)
  BY <1>3, StepKinds, DiesKeep
<1> QED  BY <1>1, <1>2, <1>3, StepKinds

\* It holds at first.
LEMMA InitKeeps == Init => ResolverInv
<1> SUFFICES ASSUME Init PROVE ResolverInv
  OBVIOUS
<1>1. TypeOK
  <2>1. 1 \in 1..(MaxMounts + 1)
    BY MountListsAssumption
  <2> QED  BY <2>1 DEF Init, TypeOK
<1>2. PlaceInv /\ JoinInv /\ WaitInv /\ PresentInv /\ TreeInv
  BY DEF Init, PlaceInv, JoinInv, WaitInv, PresentInv, TreeInv, Active, Pulls
<1>3. SlotInv
  BY DEF Init, SlotInv, Pulls
<1> QED  BY <1>1, <1>2, <1>3 DEF ResolverInv, ShapeInv

\* Whatever crashes, breaks off or races: the invariant behind everything below.
THEOREM ResolverInvariant == Spec => []ResolverInv
BY InitKeeps, NextKeeps, PTL DEF Spec

\* The trees on disk hold nothing but regular files of an archive.
THEOREM ResolverTypeCorrect == Spec => []TypeOK
<1>1. ResolverInv => TypeOK
  BY DEF ResolverInv, ShapeInv
<1> QED  BY <1>1, ResolverInvariant, PTL

\* A call waits for a pull under way in its own process, and for its own
\* layer, or its channel is closed and Woken is enabled: nobody waits for a
\* channel that no defer will close.
WaitersHaveAPull ==
    \A c \in Calls : pc[c] = "wait" =>
        \/ Slot(c) # wait[c]
        \/ \E d \in Calls : /\ pc[d] \in Pulls /\ home[d] = home[c]
                            /\ Name(d) = Name(c) /\ wait[c] = Channel(d)

\* It holds also when the process of the pull crashes, which is the waiter's
\* own: the safety part of the promise that Resolve returns.
THEOREM WaitersHaveAPullHolds == Spec => []WaitersHaveAPull
<1>1. ResolverInv => WaitersHaveAPull
  <2>. SUFFICES ASSUME ResolverInv, NEW c \in Calls, pc[c] = "wait", Slot(c) = wait[c]
                PROVE  \E d \in Calls : /\ pc[d] \in Pulls /\ home[d] = home[c]
                                        /\ Name(d) = Name(c) /\ wait[c] = Channel(d)
    BY DEF WaitersHaveAPull
  <2>1. home[c] \in Procs /\ Name(c) \in Names
    BY CurrentMount, TypeParts DEF ResolverInv, ShapeInv, CallsOK, Active
  <2>2. wait[c] # None
    <3>1. PICK d \in Calls, i \in 1..MaxMounts : wait[c] = <<d, i>>
      BY DEF ResolverInv, WaitInv
    <3>2. <<d, i>> \in Calls \X (1..MaxMounts)
      OBVIOUS
    <3>3. None \notin Calls \X (1..MaxMounts)
      BY LayerResolverAssumption
    <3> QED  BY <3>1, <3>2, <3>3, Zenon
  <2>. QED BY <2>1, <2>2 DEF ResolverInv, SlotInv, Slot
<1>. QED BY <1>1, ResolverInvariant, PTL
-----------------------------------------------------------------------------
(***************************************************************************)
(* The steps of the resolver are steps of LayerCache                       *)
(***************************************************************************)
\* A call as LayerCache sees it.
LEMMA AnswerOf ==
    ASSUME NEW c \in Calls
    PROVE  /\ pc[c] = "idle" => answerBar[c] = "none"
           /\ pc[c] \in Active => answerBar[c] = "pending"
           /\ pc[c] \in {"failed", "dead"} => answerBar[c] = "failed"
           /\ pc[c] = "ok" => answerBar[c] = IF Misled(c) THEN "failed" ELSE "ok"
BY DEF answerBar, Active, Pulls

\* The abstract answer after a step.
LEMMA AnswerOfNext ==
    ASSUME NEW c \in Calls
    PROVE  /\ pc'[c] = "idle" => answerBar'[c] = "none"
           /\ pc'[c] \in Active => answerBar'[c] = "pending"
           /\ pc'[c] \in {"failed", "dead"} => answerBar'[c] = "failed"
           /\ pc'[c] = "ok" => answerBar'[c] = IF Misled(c)' THEN "failed" ELSE "ok"
BY DEF answerBar, Active, Pulls

\* Only Unwind adds to failed, and no call that succeeded has waited for it.
LEMMA OthersAnswer ==
    ASSUME ResolverInv, NEW c \in Calls, Moves(c), NEW x \in Calls, x # c
    PROVE  answerBar'[x] = answerBar[x]
<1> USE DEF ResolverInv
<1>1. pc'[x] = pc[x] /\ joined'[x] = joined[x] /\ pc[x] \in Spots
  BY MovesFacts, OthersKeep, TypeParts DEF ShapeInv, CallsOK
<1>2. CASE pc[x] # "ok"
  BY <1>1, <1>2, AnswerOf, AnswerOfNext DEF Spots
<1>3. CASE pc[x] = "ok"
  <2>1. Misled(x) => Misled(x)'
    BY MisledStays
  <2>2. ASSUME Misled(x)' PROVE Misled(x)
    <3>1. CASE failed' = failed
      BY <1>1, <2>2, <3>1 DEF Misled
    <3>2. CASE Ends(c) /\ pc[c] = "unwindErr" /\ failed' = failed \cup {Channel(c)}
      <4>1. Channel(c) \notin joined[x]
        <5>1. at[c] \in 1..MaxMounts
          BY <3>2, CurrentMount DEF Active, Pulls
        <5>2. ~Over(c, at[c])
          BY <3>2, <5>1 DEF Over
        <5> QED  BY <1>3, <5>1, <5>2 DEF JoinInv, Channel
      <4> QED  BY <1>1, <2>2, <3>2, <4>1 DEF Misled
    <3> QED  BY <3>1, <3>2 DEF Moves, Begins, Walks, Works, Joins, Takes, Ends
  <2> QED  BY <1>1, <1>3, <2>1, <2>2, AnswerOf, AnswerOfNext
<1> QED  BY <1>2, <1>3

\* What calls asked for does not change while they are under way.
LEMMA WantedKept ==
    ASSUME mounts' = mounts
    PROVE  wantedBar' = wantedBar
BY DEF wantedBar

\* One answer changes.
LEMMA AnswersKept ==
    ASSUME ResolverInv, NEW c \in Calls, Moves(c), NEW v, answerBar'[c] = v
    PROVE  answerBar' = [answerBar EXCEPT ![c] = v]
<1>1. \A x \in Calls \ {c} : answerBar'[x] = answerBar[x]
  BY OthersAnswer
<1>2. answerBar = [x \in Calls |-> answerBar[x]] /\ answerBar' = [x \in Calls |-> answerBar'[x]]
  BY DEF answerBar
<1> HIDE DEF answerBar
<1> QED  BY <1>1, <1>2

\* A call that begins asks, ...
LEMMA BeginsIsAsk ==
    ASSUME ResolverInv, NEW c \in Calls, Begins(c)
    PROVE  Cache!Ask(c)
<1>1. answerBar[c] = "none" /\ answerBar'[c] = "pending" /\ Moves(c)
  BY AnswerOf, AnswerOfNext DEF Begins, Active, Moves
<1>2. answerBar' = [answerBar EXCEPT ![c] = "pending"]
  BY <1>1, AnswersKept
<1> DEFINE S == {mounts'[c][i].digest : i \in DOMAIN mounts'[c]} \ {None}
<1>3. S \in SUBSET Names
  BY MountList DEF Begins
<1>4. \A x \in Calls \ {c} : wantedBar'[x] = wantedBar[x]
  BY DEF wantedBar, Begins, Others
<1>5. wantedBar'[c] = S
  BY DEF wantedBar
<1>6. wantedBar = [x \in Calls |-> wantedBar[x]] /\ wantedBar' = [x \in Calls |-> wantedBar'[x]]
  BY DEF wantedBar
<1>7. wantedBar' = [wantedBar EXCEPT ![c] = S]
  <2> HIDE DEF S, wantedBar
  <2> QED  BY <1>4, <1>5, <1>6
<1>8. target' = target
  BY DEF Begins
<1> HIDE DEF S, wantedBar, answerBar
<1> QED  BY <1>1, <1>2, <1>3, <1>7, <1>8 DEF Cache!Ask

\* ... one that gives up, or was misled, fails, ...
LEMMA FailsIsFail ==
    ASSUME ResolverInv, NEW c \in Calls, Moves(c), pc[c] \in Active, target' = target,
           answerBar'[c] = "failed"
    PROVE  Cache!Fail({c})
<1>1. answerBar[c] = "pending" /\ wantedBar' = wantedBar
  BY AnswerOf, MovesFacts, WantedKept DEF ResolverInv, Active, Pulls
<1>2. \A x \in Calls \ {c} : answerBar'[x] = answerBar[x]
  BY OthersAnswer
<1>3. answerBar' = [x \in Calls |-> answerBar'[x]]
  BY DEF answerBar
<1> HIDE DEF answerBar, wantedBar
<1>4. answerBar' = [x \in Calls |-> IF x \in {c} THEN "failed" ELSE answerBar[x]]
  BY <1>2, <1>3
<1> QED  BY <1>1, <1>4 DEF Cache!Fail

\* ... and one that is done with all mounts finds its layers there.
LEMMA SucceedsIsSucceed ==
    ASSUME ResolverInv, ResolverInv', NEW c \in Calls, Moves(c), pc[c] \in Active,
           target' = target, pc'[c] = "ok", ~Misled(c)'
    PROVE  Cache!Succeed(c)
<1>1. /\ answerBar[c] = "pending" /\ answerBar'[c] = "ok" /\ mounts' = mounts
      /\ wantedBar' = wantedBar
  BY AnswerOf, AnswerOfNext, MovesFacts, WantedKept DEF ResolverInv, Active, Pulls
<1>2. answerBar' = [answerBar EXCEPT ![c] = "ok"]
  BY <1>1, AnswersKept
<1>3. ASSUME NEW n \in wantedBar[c] PROVE target[n] # Absent
  <2>1. PICK i \in DOMAIN mounts[c] : n = mounts[c][i].digest /\ n # None
    BY DEF wantedBar
  <2>2. mounts[c] \in MountLists /\ at'[c] > Len(mounts[c]) /\ at'[c] \in 1..(MaxMounts + 1)
    <3>1. at'[c] \in 1..(MaxMounts + 1)
      BY TypePartsNext DEF ResolverInv, ShapeInv, CallsOK
    <3> QED  BY <1>1, <3>1, CurrentMount DEF ResolverInv, ShapeInv, PlaceInv
  <2>3. i < at'[c]
    BY <2>1, <2>2, MountList
  <2> QED  BY <1>1, <2>1, <2>3 DEF ResolverInv, PresentInv
<1> HIDE DEF answerBar, wantedBar
<1> QED  BY <1>1, <1>2, <1>3 DEF Cache!Succeed

\* Every step of a call is a step of LayerCache, or invisible.
LEMMA CallingIsStep ==
    ASSUME ResolverInv, ResolverInv', NEW c \in Calls, Calling(c)
    PROVE  Cache!Next \/ UNCHANGED Cache!vars
<1>1. CASE Begins(c)
  BY <1>1, BeginsIsAsk DEF Cache!Next
<1>2. CASE ~Begins(c)
  <2>0. Moves(c) /\ pc[c] \in Active /\ wantedBar' = wantedBar /\ pc'[c] \in Spots
    <3>1. Moves(c) /\ pc[c] \in Active
      BY <1>2, MovesFacts
         DEF ResolverInv, Calling, Moves, Walks, Works, Joins, Takes, Ends, Pulls, Active
    <3>2. mounts' = mounts
      BY <3>1, MovesFacts DEF ResolverInv, Active, Pulls
    <3> QED  BY <3>1, <3>2, WantedKept, TypePartsNext DEF ResolverInv, ShapeInv, CallsOK
  <2>1. CASE pc'[c] \in Active
    <3>1. answerBar'[c] = answerBar[c]
      BY <2>0, <2>1, AnswerOf, AnswerOfNext
    <3>2. answerBar' = answerBar
      <4>1. \A x \in Calls : answerBar'[x] = answerBar[x]
        BY <2>0, <3>1, OthersAnswer
      <4>2. answerBar = [x \in Calls |-> answerBar[x]] /\ answerBar' = [x \in Calls |-> answerBar'[x]]
        BY DEF answerBar
      <4> HIDE DEF answerBar
      <4> QED  BY <4>1, <4>2
    <3>3. CASE target' = target
      BY <2>0, <3>2, <3>3 DEF Cache!vars
    <3>4. CASE Works(c) /\ Installs(Name(c))
      <4>1. Name(c) \in Names
        BY <3>4, CurrentMount DEF ResolverInv, Works, Pulls, Active
      <4>2. Cache!Install(Name(c))
        BY <2>0, <3>2, <3>4 DEF Installs, Cache!Install
      <4> QED  BY <4>1, <4>2 DEF Cache!Next
    <3> QED  BY <3>3, <3>4 DEF Calling
  <2>2. CASE pc'[c] \notin Active
    <3>1. target' = target
      BY <2>2 DEF Calling, Works, Active
    <3>2. pc'[c] \in {"ok", "failed"}
      BY <2>0, <2>2, MovesFacts DEF ResolverInv, Spots
    <3>3. CASE pc'[c] = "ok" /\ ~Misled(c)'
      BY <2>0, <3>1, <3>3, SucceedsIsSucceed DEF Cache!Next
    <3>4. CASE pc'[c] = "failed" \/ Misled(c)'
      <4>1. answerBar'[c] = "failed"
        BY <3>2, <3>4, AnswerOfNext
      <4>2. Cache!Fail({c})
        BY <2>0, <3>1, <4>1, FailsIsFail
      <4>3. {c} \in SUBSET Calls
        OBVIOUS
      <4> QED  BY <4>2, <4>3 DEF Cache!Next
    <3> QED  BY <3>2, <3>3, <3>4
  <2> QED  BY <2>1, <2>2
<1> QED  BY <1>1, <1>2

\* The end of a process fails its calls, all at once.
LEMMA DiesIsFail ==
    ASSUME ResolverInv, NEW p \in Procs, Dies(p)
    PROVE  Cache!Next
<1> DEFINE C == {x \in Calls : home[x] = p /\ pc[x] \in Active}
<1>1. C \in SUBSET Calls /\ target' = target /\ wantedBar' = wantedBar
  BY WantedKept DEF Dies
<1>2. \A x \in C : answerBar[x] = "pending" /\ answerBar'[x] = "failed"
  BY AnswerOf, AnswerOfNext DEF Dies
<1>3. ASSUME NEW x \in Calls, x \notin C PROVE answerBar'[x] = answerBar[x]
  <2>1. pc'[x] = pc[x] /\ (Misled(x)' <=> Misled(x)) /\ pc[x] \in Spots
    BY <1>3, TypeParts DEF Dies, Misled, ResolverInv, ShapeInv, CallsOK
  <2> QED  BY <2>1, AnswerOf, AnswerOfNext DEF Spots
<1>4. answerBar' = [x \in Calls |-> answerBar'[x]]
  BY DEF answerBar
<1> HIDE DEF answerBar, wantedBar, C
<1>5. answerBar' = [x \in Calls |-> IF x \in C THEN "failed" ELSE answerBar[x]]
  BY <1>2, <1>3, <1>4
<1>6. Cache!Fail(C)
  BY <1>1, <1>2, <1>5 DEF Cache!Fail
<1> QED  BY <1>1, <1>6 DEF Cache!Next

\* Steps that concern no call are invisible.
LEMMA RestsIsStutter ==
    ASSUME Rests
    PROVE  UNCHANGED Cache!vars
<1>1. target' = target /\ wantedBar' = wantedBar
  BY WantedKept DEF Rests
<1>2. answerBar' = answerBar
  BY DEF Rests, answerBar, Misled
<1> QED  BY <1>1, <1>2 DEF Cache!vars

\* Initial states are initial states.
LEMMA InitIsInit == Init => Cache!Init
<1> SUFFICES ASSUME Init PROVE Cache!Init
  OBVIOUS
<1>1. wantedBar = [c \in Calls |-> {}]
  BY DEF wantedBar, Init
<1>2. answerBar = [c \in Calls |-> "none"]
  BY DEF answerBar, Init
<1> QED  BY <1>1, <1>2 DEF Cache!Init, Init

\* The resolver implements LayerCache: a directory under the cache root is the
\* complete tree that its digest names from the step in which it appears, and
\* Resolve succeeds only with all layers there, unless the pull it waited for
\* failed.
THEOREM ResolverRefinesLayerCache == Spec => RefinesLayerCache
<1>1. ASSUME ResolverInv, ResolverInv', [Next]_vars PROVE Cache!Next \/ UNCHANGED Cache!vars
  BY <1>1, StepKinds, CallingIsStep, DiesIsFail, RestsIsStutter
<1>2. ResolverInv /\ ResolverInv' /\ [Next]_vars => [Cache!Next]_(Cache!vars)
  BY <1>1
<1> QED  BY <1>2, InitIsInit, ResolverInvariant, PTL DEF Spec, RefinesLayerCache, Cache!Spec
=============================================================================
