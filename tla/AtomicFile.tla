----------------------------- MODULE AtomicFile -----------------------------
(***************************************************************************)
(* Replacing a file by way of <path>.tmp, as atomicWrite of                *)
(* internal/layers/store.go and save of internal/scheduler/scheduler.go    *)
(* do: open with O_TRUNC, write, rename.  Processes that replace the same  *)
(* file share the temporary one, and an open file descriptor follows its   *)
(* file when that is renamed.                                              *)
(***************************************************************************)
CONSTANTS Ops, Absent, Garbled, None

VARIABLES
    main, temp,  \* the files <path> and <path>.tmp, by path
    fd           \* where the file is that an operation has open for writing

\* Faulty variant: the old file is emptied before the new one is complete.
TruncateBoth(o, p) ==
    /\ temp' = [temp EXCEPT ![p] = Garbled]
    /\ main' = [main EXCEPT ![p] = Garbled]
    /\ fd' = [fd EXCEPT ![o] = <<"temp", p>>]

\* The temporary file is created, or emptied: it does not parse now.
Truncate(o, p) ==
    /\ temp' = [temp EXCEPT ![p] = Garbled]
    /\ fd' = [fd EXCEPT ![o] = <<"temp", p>>]
    /\ UNCHANGED main

\* What a write leaves in a file: on top of what another process wrote there
\* since it was truncated, possibly a mixture.
Over(old, v) == IF old \in {Garbled, v} THEN {v} ELSE {v, Garbled}

\* The data go to the file that was opened, wherever it is by now.
Write(o, p, v) ==
    /\ fd' = [fd EXCEPT ![o] = None]
    /\ CASE fd[o] = <<"temp", p>> ->
               /\ \E w \in Over(temp[p], v) : temp' = [temp EXCEPT ![p] = w]
               /\ UNCHANGED main
         [] fd[o] = <<"main", p>> ->
               /\ \E w \in Over(main[p], v) : main' = [main EXCEPT ![p] = w]
               /\ UNCHANGED temp
         [] OTHER -> UNCHANGED <<main, temp>>   \* replaced meanwhile

\* os.Rename moves the file that is now at <path>.tmp, whoever wrote it; it
\* fails when there is none.
CanRename(p) == temp[p] # Absent

Rename(p) ==
    /\ main' = [main EXCEPT ![p] = temp[p]]
    /\ temp' = [temp EXCEPT ![p] = Absent]
    /\ fd' = [o \in Ops |-> CASE fd[o] = <<"temp", p>> -> <<"main", p>>
                              [] fd[o] = <<"main", p>> -> None
                              [] OTHER -> fd[o]]

\* The file exists and parses.
Parses(p) == main[p] \notin {Absent, Garbled}
=============================================================================
