----------------------------- MODULE FuncProcess -----------------------------
(***************************************************************************)
(* One function instance from spawn to Close: internal/spawn starts a      *)
(* process (or a runc container), waits for it to dial back on a Unix      *)
(* socket, exchanges frames with it (internal/wire) and shuts it down; the *)
(* SDK in the process (sdks/go) reads frames and answers them.             *)
(*                                                                         *)
(* WriteFrame makes two writes, header and payload, and ReadFrame two      *)
(* reads.  Invoke is serialised by i.mu, but Close takes no lock: it       *)
(* writes its own frame and starts a goroutine that reads one, while an    *)
(* Invoke may be in the middle of both.  The two directions of the socket  *)
(* are therefore sequences of half frames.                                 *)
(***************************************************************************)
EXTENDS Integers, Sequences, FiniteSets

CONSTANTS
    Callers,   \* requests that the pool hands this instance to
    Closer,    \* the call of Close, and its drain goroutine
    Modes,     \* of "process" and "runc"
    Faults,    \* what may happen: a subset of FaultKinds
    None

\* A step of Start fails; the process does not dial in time or dies; a handler
\* never returns; a request or a reply is larger than MaxFrameSize.
FaultKinds == {"start", "dial", "die", "hang", "oversize"}

ASSUME FuncProcessAssumption ==
    /\ Closer \notin Callers /\ None \notin Callers
    /\ Modes \subseteq {"process", "runc"}
    /\ Faults \subseteq FaultKinds

VARIABLES
    mode,                       \* which spawner
    start,                      \* how far Start or StartRunc is
    accept,                     \* the goroutine in acceptOrKill
    listening, sockDir, bundle, \* listener and temporary directories
    rootfs,                     \* the container's root, a temporary directory too
    proc,                       \* the process (or container)
    fn, cur,                    \* the SDK's loop and the frame it works on
    toFn, toGw,                 \* the socket: half frames under way
    conn,                       \* whether the gateway's end is open
    lock,                       \* i.mu (and mi.busy): the caller holding it
    gw, got,                    \* callers and Close: where they are; frame read
    closing,                    \* how far Close is
    silenced                    \* history: requests whose reply was too large

startVars == <<start, accept, listening, sockDir, bundle>>
fnVars    == <<proc, fn, cur>>
wireVars  == <<toFn, toGw>>
callVars  == <<lock, gw, got>>
vars == <<mode, rootfs, startVars, fnVars, wireVars, conn, callVars, closing, silenced>>

Init ==
    /\ mode \in Modes
    /\ start = "begin" /\ accept = "none"
    /\ listening = FALSE /\ sockDir = FALSE /\ bundle = FALSE /\ rootfs = FALSE
    /\ proc = "none" /\ fn = "boot" /\ cur = None
    /\ toFn = <<>> /\ toGw = <<>> /\ conn = FALSE
    /\ lock = None
    /\ gw = [x \in Callers \cup {Closer} |-> "idle"]
    /\ got = [x \in Callers \cup {Closer} |-> None]
    /\ closing = "no"
    /\ silenced = {}

\* The process is killed or ends; nobody has waited for it yet.
Ended == IF proc = "running" THEN "exited" ELSE proc

(***************************************************************************)
(* Start, StartRunc and acceptOrKill                                       *)
(***************************************************************************)
\* makeSocket; StartRunc has made its bundle directory before, and before that
\* EnsureBaseRootfs a root directory that nothing ever removes.
MakeSocket ==
    /\ start = "begin"
    /\ \/ /\ listening' = TRUE /\ sockDir' = TRUE
          /\ bundle' = (mode = "runc") /\ rootfs' = (mode = "runc")
          /\ start' = "socket"
       \/ /\ "start" \in Faults
          /\ start' = "failed"
          /\ rootfs' \in {FALSE, mode = "runc"}
          /\ UNCHANGED <<listening, sockDir, bundle>>
    /\ UNCHANGED <<mode, accept, fnVars, wireVars, conn, callVars, closing, silenced>>

\* cmd.Start, or oci.Build, WriteBundle and the goroutine in rt.Run.
Launch ==
    /\ start = "socket"
    /\ \/ /\ proc' = "running"
          /\ start' = "waiting" /\ accept' = "accepting"
          /\ UNCHANGED <<listening, sockDir, bundle>>
       \/ /\ "start" \in Faults
          /\ start' = "failed"
          /\ listening' = FALSE /\ sockDir' = FALSE /\ bundle' = FALSE
          /\ UNCHANGED <<proc, accept>>
    /\ UNCHANGED <<mode, rootfs, fn, cur, wireVars, conn, callVars, closing, silenced>>

\* ln.Accept returns in its goroutine, with a connection or an error ...
Accepted ==
    /\ accept = "accepting"
    /\ \/ fn = "dialled" /\ listening /\ accept' = "got"
       \/ (~listening \/ "start" \in Faults) /\ accept' = "err"
    /\ UNCHANGED <<mode, rootfs, start, listening, sockDir, bundle, fnVars, wireVars, conn,
                   callVars, closing, silenced>>

\* ... which hands the connection over.
Deliver ==
    /\ accept = "got"
    /\ accept' = "sent"
    /\ UNCHANGED <<mode, rootfs, start, listening, sockDir, bundle, fnVars, wireVars, conn,
                   callVars, closing, silenced>>

Ready ==
    /\ start = "waiting" /\ accept = "sent"
    /\ start' = "ready" /\ accept' = "taken" /\ conn' = TRUE
    /\ UNCHANGED <<mode, rootfs, listening, sockDir, bundle, fnVars, wireVars, callVars,
                   closing, silenced>>

\* Faulty variant: the process that did not dial in time is left running.
OnTimeoutNothing == UNCHANGED proc

\* cmd.Process.Kill, or cancel and rt.Kill(id, "KILL").
OnTimeout == proc' = Ended

\* <-errCh: kill the spawnee; the caller closes the listener.
AcceptFails ==
    /\ start = "waiting" /\ accept = "err"
    /\ OnTimeout
    /\ start' = "raced"
    /\ UNCHANGED <<mode, rootfs, accept, listening, sockDir, bundle, fn, cur, wireVars, conn, callVars,
                   closing, silenced>>

\* <-time.After(timeout): kill the spawnee and close the listener.
DialTimeout ==
    /\ "dial" \in Faults
    /\ start = "waiting"
    /\ OnTimeout
    /\ listening' = FALSE
    /\ start' = "raced"
    /\ UNCHANGED <<mode, rootfs, accept, sockDir, bundle, fn, cur, wireVars, conn, callVars,
                   closing, silenced>>

\* Take the connection that raced in and close it, or see the error, or give
\* up after 100 ms.
DrainRaced ==
    /\ start = "raced"
    /\ accept' = CASE accept = "sent" -> "closed"
                   [] accept = "got" -> "late"
                   [] OTHER -> accept

\* Start closes and removes what it made and returns; only StartRunc, with
\* rt.Delete, sees to the end of what it started: nobody calls cmd.Wait for a
\* killed process.
CleanUpStart ==
    /\ DrainRaced
    /\ start' = "failed"
    /\ listening' = FALSE /\ sockDir' = FALSE /\ bundle' = FALSE
    /\ proc' = IF mode = "runc" THEN "reaped" ELSE proc
    /\ UNCHANGED <<mode, rootfs, fn, cur, wireVars, conn, callVars, closing, silenced>>

StartStep == MakeSocket \/ Launch \/ Accepted \/ Deliver \/ Ready \/ AcceptFails \/ CleanUpStart

(***************************************************************************)
(* WriteFrame and ReadFrame at the gateway's end                           *)
(***************************************************************************)
Half(part, f) == [part |-> part, frame |-> f]

Sent(x) == IF x = Closer THEN [type |-> "shutdown", id |-> x] ELSE [type |-> "invoke", id |-> x]

At(x, where) == gw' = [gw EXCEPT ![x] = where]

\* A write fails once the peer is gone; Close ignores that, Invoke returns.
WriteHalf(x, part, from, to) ==
    /\ gw[x] = from
    /\ IF proc = "running" /\ conn
       THEN toFn' = Append(toFn, Half(part, Sent(x))) /\ At(x, to)
       ELSE UNCHANGED toFn /\ At(x, IF x = Closer THEN "readHead" ELSE "broken")
    /\ UNCHANGED <<mode, rootfs, startVars, fnVars, toGw, conn, lock, got, closing, silenced>>

WriteHead(x) == WriteHalf(x, "head", "sendHead", "sendBody")
WriteBody(x) == WriteHalf(x, "body", "sendBody", "readHead")

\* Four bytes of a half frame are gone: all of a header, the beginning of a
\* payload.
Bitten(q) == IF Head(q).part = "head" THEN Tail(q)
             ELSE <<Half("rest", Head(q).frame)>> \o Tail(q)

\* The length.  Bytes of JSON text taken for one exceed MaxFrameSize.
ReadHead(x) ==
    /\ gw[x] = "readHead" /\ conn /\ toGw # <<>>
    /\ toGw' = Bitten(toGw)
    /\ At(x, IF Head(toGw).part = "head" THEN "readBody" ELSE "broken")
    /\ UNCHANGED <<mode, rootfs, startVars, fnVars, toFn, conn, lock, got, closing, silenced>>

\* The payload.  If its beginning is gone it is too short by four bytes.
ReadBody(x) ==
    /\ gw[x] = "readBody" /\ conn /\ toGw # <<>>
    /\ toGw' = Tail(toGw)
    /\ IF Head(toGw).part = "body"
       THEN /\ got' = [got EXCEPT ![x] = Head(toGw).frame]
            /\ At(x, "answered")
       ELSE /\ At(x, "readRest")
            /\ UNCHANGED got
    /\ UNCHANGED <<mode, rootfs, startVars, fnVars, toFn, conn, lock, closing, silenced>>

\* Four more bytes complete it, and the JSON does not parse.
ReadRest(x) ==
    /\ gw[x] = "readRest" /\ conn /\ toGw # <<>>
    /\ toGw' = Bitten(toGw)
    /\ At(x, "broken")
    /\ UNCHANGED <<mode, rootfs, startVars, fnVars, toFn, conn, lock, got, closing, silenced>>

Reading == {"readHead", "readBody", "readRest"}

\* Faulty variant: a read deadline makes the reader give up.
EndOfStreamOrDeadline == TRUE

\* Faulty variant: the end of the process is not noticed.
EndOfStreamOnClose == ~conn

\* Everything was read and the peer is gone, or the connection was closed.
EndOfStream == ~conn \/ (toGw = <<>> /\ proc # "running")

ReadFails(x) ==
    /\ gw[x] \in Reading
    /\ EndOfStream
    /\ At(x, "broken")
    /\ UNCHANGED <<mode, rootfs, startVars, fnVars, wireVars, conn, lock, got, closing, silenced>>

(***************************************************************************)
(* Invoke and what ServeHTTP makes of the reply                            *)
(***************************************************************************)
\* i.mu.Lock (acquire hands an instance to one request at a time)
MayInvoke == lock = None

InvokeBegin(c) ==
    /\ gw[c] = "idle" /\ start = "ready" /\ closing = "no"
    /\ MayInvoke
    /\ lock' = c
    /\ At(c, "sendHead")
    /\ UNCHANGED <<mode, rootfs, startVars, fnVars, wireVars, conn, got, closing, silenced>>

\* WriteFrame returns an error before its first write: the frame does not
\* marshal or is too large.
Refuse(c) ==
    /\ "oversize" \in Faults
    /\ gw[c] = "sendHead"
    /\ At(c, "refused")
    /\ UNCHANGED <<mode, rootfs, startVars, fnVars, wireVars, conn, lock, got, closing, silenced>>

InvokeEnd(c) ==
    /\ gw[c] \in {"answered", "broken", "refused"}
    /\ lock = c
    /\ lock' = None
    /\ UNCHANGED <<mode, rootfs, startVars, fnVars, wireVars, conn, gw, got, closing, silenced>>

\* A result becomes the response, an error frame 500; a reply of any other
\* type has an empty Result that does not parse, a failed Invoke is 502 too.
Status(c) ==
    CASE gw[c] = "answered" /\ got[c].type = "result" -> 200
      [] gw[c] = "answered" /\ got[c].type = "error" -> 500
      [] OTHER -> 502

(***************************************************************************)
(* Close                                                                   *)
(***************************************************************************)
CloseBegin ==
    /\ start = "ready" /\ closing = "no"
    /\ closing' = "drain"
    /\ At(Closer, "sendHead")
    /\ UNCHANGED <<mode, rootfs, startVars, fnVars, wireVars, conn, lock, got, silenced>>

\* Faulty variant: wait for the drain however long it takes.
DrainOverOnlyIfDone == gw[Closer] \in {"answered", "broken"}

\* gracefulDone, or two seconds have passed (the drain goes on by itself).
DrainOver == gw[Closer] \notin {"sendHead", "sendBody"}

\* stop: SIGKILL, or TERM to the container, which may ignore it.
CloseStop ==
    /\ closing = "drain"
    /\ DrainOver
    /\ closing' = "wait"
    /\ \/ proc' = Ended
       \/ mode = "runc" /\ UNCHANGED proc
    /\ UNCHANGED <<mode, rootfs, startVars, fn, cur, wireVars, conn, callVars, silenced>>

\* wait: cmd.Wait; or rt.Run has ended, or KILL after three seconds, and in
\* any case runc delete --force.
CloseWait ==
    /\ closing = "wait"
    /\ proc = "exited" \/ mode = "runc"
    /\ proc' = "reaped"
    /\ bundle' = FALSE
    /\ closing' = "cleanup"
    /\ UNCHANGED <<mode, rootfs, start, accept, listening, sockDir, fn, cur, wireVars, conn,
                   callVars, silenced>>

CloseFinish ==
    /\ closing = "cleanup"
    /\ conn' = FALSE /\ listening' = FALSE /\ sockDir' = FALSE
    /\ closing' = "done"
    /\ UNCHANGED <<mode, rootfs, start, accept, bundle, fnVars, wireVars, callVars, silenced>>

CloseStep == CloseStop \/ CloseWait \/ CloseFinish

GatewayStep(x) ==
    WriteHead(x) \/ WriteBody(x) \/ ReadHead(x) \/ ReadBody(x) \/ ReadRest(x) \/ ReadFails(x)

(***************************************************************************)
(* The SDK in the function's process                                       *)
(***************************************************************************)
\* Start: dial CFUNC_SOCKET; without a listener the process gives up.
Dial ==
    /\ proc = "running" /\ fn = "boot"
    /\ IF listening
       THEN fn' = "dialled" /\ UNCHANGED proc
       ELSE proc' = "exited" /\ UNCHANGED fn
    /\ UNCHANGED <<mode, rootfs, startVars, cur, wireVars, conn, callVars, closing, silenced>>

\* Serve: read a header, then the payload; anything out of step ends the loop
\* and with it the process.
FnReadHead ==
    /\ proc = "running" /\ fn \in {"dialled", "read"} /\ toFn # <<>>
    /\ toFn' = Tail(toFn)
    /\ cur' = Head(toFn).frame
    /\ IF Head(toFn).part = "head"
       THEN fn' = "body" /\ UNCHANGED proc
       ELSE proc' = "exited" /\ UNCHANGED fn
    /\ UNCHANGED <<mode, rootfs, startVars, toGw, conn, callVars, closing, silenced>>

FnReadBody ==
    /\ proc = "running" /\ fn = "body" /\ toFn # <<>>
    /\ toFn' = Tail(toFn)
    /\ CASE Head(toFn) # Half("body", cur) ->
                proc' = "exited" /\ UNCHANGED <<fn, cur>>
         [] Head(toFn) = Half("body", cur) /\ cur.type = "invoke" ->
                fn' = "handle" /\ UNCHANGED <<proc, cur>>
         [] OTHER ->
                fn' = "reply" /\ cur' = [cur EXCEPT !.type = "shutdown_ok"] /\ UNCHANGED proc
    /\ UNCHANGED <<mode, rootfs, startVars, toGw, conn, callVars, closing, silenced>>

\* Faulty variant: a panic is reported with a frame type of its own.
HandlerRepliesOwnType == {"result", "error", "panic"}

\* handleInvoke: the handler's response, or BadEvent, HandlerError (a panic
\* too) or MarshalError.
HandlerReplies == {"result", "error"}

HandleInvoke ==
    /\ proc = "running" /\ fn = "handle"
    /\ \/ /\ \E t \in HandlerReplies : cur' = [cur EXCEPT !.type = t]
          /\ fn' = "reply"
          /\ UNCHANGED silenced
       \/ /\ "oversize" \in Faults   \* WriteFrame's error is dropped
          /\ fn' = "read"
          /\ silenced' = silenced \cup {cur.id}
          /\ UNCHANGED cur
       \/ /\ "hang" \in Faults
          /\ fn' = "hung"
          /\ UNCHANGED <<cur, silenced>>
    /\ UNCHANGED <<mode, rootfs, startVars, proc, wireVars, conn, callVars, closing>>

FnWriteHead ==
    /\ proc = "running" /\ fn = "reply"
    /\ toGw' = Append(toGw, Half("head", cur))
    /\ fn' = "replyBody"
    /\ UNCHANGED <<mode, rootfs, startVars, proc, cur, toFn, conn, callVars, closing, silenced>>

\* After shutdown_ok Serve returns.
FnWriteBody ==
    /\ proc = "running" /\ fn = "replyBody"
    /\ toGw' = Append(toGw, Half("body", cur))
    /\ IF cur.type = "shutdown_ok"
       THEN proc' = "exited" /\ UNCHANGED fn
       ELSE fn' = "read" /\ UNCHANGED proc
    /\ UNCHANGED <<mode, rootfs, startVars, cur, toFn, conn, callVars, closing, silenced>>

Die ==
    /\ "die" \in Faults /\ proc = "running"
    /\ proc' = "exited"
    /\ UNCHANGED <<mode, rootfs, startVars, fn, cur, wireVars, conn, callVars, closing, silenced>>

FnStep == Dial \/ FnReadHead \/ FnReadBody \/ HandleInvoke \/ FnWriteHead \/ FnWriteBody

-----------------------------------------------------------------------------
Next ==
    \/ StartStep \/ DialTimeout
    \/ \E c \in Callers : InvokeBegin(c) \/ Refuse(c) \/ InvokeEnd(c)
    \/ \E x \in Callers \cup {Closer} : GatewayStep(x)
    \/ CloseBegin \/ CloseStep
    \/ FnStep \/ Die

Spec == Init /\ [][Next]_vars

\* The gateway's goroutines run, timers expire, and so does the SDK's loop;
\* a handler that hangs is a step of its own.
Fairness ==
    /\ WF_vars(StartStep) /\ WF_vars(CloseStep) /\ WF_vars(FnStep)
    /\ \A c \in Callers : WF_vars(InvokeEnd(c))
    /\ \A x \in Callers \cup {Closer} : WF_vars(GatewayStep(x))

FairSpec == Spec /\ Fairness

-----------------------------------------------------------------------------
Frames == [type : {"invoke", "shutdown", "shutdown_ok", "result", "error"},
           id : Callers \cup {Closer}]
Halves == [part : {"head", "body", "rest"}, frame : Frames]

(***************************************************************************)
(* Type invariant.  At most two frames are under way in either direction.  *)
(***************************************************************************)
TypeOK ==
    /\ mode \in Modes
    /\ start \in {"begin", "socket", "waiting", "raced", "ready", "failed"}
    /\ accept \in {"none", "accepting", "got", "sent", "taken", "closed", "late", "err"}
    /\ {listening, sockDir, bundle, rootfs, conn} \subseteq BOOLEAN
    /\ proc \in {"none", "running", "exited", "reaped"}
    /\ fn \in {"boot", "dialled", "read", "body", "handle", "hung", "reply", "replyBody"}
    /\ cur \in Frames \cup {None}
    /\ toFn \in Seq(Halves) /\ Len(toFn) <= 4
    /\ toGw \in Seq(Halves) /\ Len(toGw) <= 4
    /\ lock \in Callers \cup {None}
    /\ gw \in [Callers \cup {Closer} ->
                 {"idle", "sendHead", "sendBody", "answered", "broken", "refused"} \cup Reading]
    /\ got \in [Callers \cup {Closer} -> Frames \cup {None}]
    /\ closing \in {"no", "drain", "wait", "cleanup", "done"}
    /\ silenced \subseteq Callers

\* A client is given the answer to its own request or an error: the code does
\* not compare ids, only the order of the frames pairs them, also while Close
\* reads and writes on the same connection.  And only Close or the end of the
\* process breaks off an Invoke that has written its first byte: a request too
\* large for a frame is refused before that, and does not bring the frames of
\* the next request out of step.
OwnReply ==
    \A c \in Callers :
        /\ gw[c] = "answered" /\ Status(c) # 502 => got[c].id = c
        /\ gw[c] = "broken" /\ proc = "running" => closing # "no"

\* Whichever step of Start fails, nothing it started still runs, listens or
\* has a connection in hand (but one that took longer than 100 ms to be handed
\* over), and socket and bundle directories are gone.  What stays is what the
\* code never cleans up: a host process that was killed and not waited for,
\* and, of a container that has been deleted, the root directory.
FailedStartCleansUp ==
    start = "failed" =>
        /\ proc \in IF mode = "runc" THEN {"none", "reaped"} ELSE {"none", "exited"}
        /\ ~listening /\ ~sockDir /\ ~bundle
        /\ rootfs => mode = "runc"
        /\ accept # "sent"

\* Close always ends, whatever the handler does, with the process reaped and
\* its socket and bundle directories gone, and nobody is left waiting for a
\* reply.
CloseCompletes ==
    closing # "no" ~> /\ closing = "done" /\ proc = "reaped" /\ ~sockDir /\ ~bundle
                      /\ \A x \in Callers \cup {Closer} :
                            gw[x] \in {"idle", "answered", "broken", "refused"}

\* An Invoke returns, unless the handler does not, or its reply was dropped
\* because it was too large.
InvokeReturns ==
    \A c \in Callers :
        gw[c] = "sendHead" ~> \/ gw[c] \in {"answered", "broken", "refused"}
                              \/ fn = "hung" \/ c \in silenced
=============================================================================
