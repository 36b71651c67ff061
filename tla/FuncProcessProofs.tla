------------------------- MODULE FuncProcessProofs -------------------------
(***************************************************************************)
(* One function instance, for any number of callers: what a failed Start   *)
(* leaves behind (StartInv), and why a client is never given another       *)
(* client's answer although nothing compares ids.  While Close has not     *)
(* begun, request and reply follow each other strictly (QuietInv); after   *)
(* that they no longer do, but no new request starts, and all frames under *)
(* way belong to the last one (MatchInv).                                  *)
(***************************************************************************)
EXTENDS FuncProcess, SequenceTheorems, TLAPS

All      == Callers \cup {Closer}
Requests == {Sent(x) : x \in All}
Replies  == {"result", "error"}

\* The SDK is between two frames; the SDK works on one.
Between == {"dialled", "read"}
Busy    == {"body", "handle", "reply", "replyBody"}

FnHalves == [part : {"head", "body"}, frame : Requests]

FlagsOK ==
    /\ listening \in BOOLEAN /\ sockDir \in BOOLEAN /\ bundle \in BOOLEAN
    /\ rootfs \in BOOLEAN /\ conn \in BOOLEAN

\* TypeOK but for the bounds, which LoadInv gives, and what is sent to the function.
ShapeInv ==
    /\ mode \in Modes
    /\ start \in {"begin", "socket", "waiting", "raced", "ready", "failed"}
    /\ accept \in {"none", "accepting", "got", "sent", "taken", "closed", "late", "err"}
    /\ FlagsOK
    /\ proc \in {"none", "running", "exited", "reaped"}
    /\ fn \in {"boot", "hung"} \cup Between \cup Busy
    /\ cur \in Frames \cup {None}
    /\ fn \in {"body", "handle"} => cur \in Requests
    /\ fn = "handle" => cur.type = "invoke"
    /\ fn \in {"reply", "replyBody"} => cur \in Frames
    /\ toFn \in Seq(FnHalves)
    /\ toGw \in Seq(Halves)
    /\ lock \in Callers \cup {None}
    /\ gw \in [All -> {"idle", "sendHead", "sendBody", "answered", "broken", "refused"} \cup Reading]
    /\ got \in [All -> Frames \cup {None}]
    /\ closing \in {"no", "drain", "wait", "cleanup", "done"}
    /\ silenced \subseteq Callers

\* Nobody has used the instance yet.
Unused ==
    /\ closing = "no" /\ lock = None /\ toFn = <<>> /\ toGw = <<>>
    /\ \A x \in All : gw[x] = "idle"
    /\ fn \in {"boot", "dialled"}

\* How far Start is, and what exists then.
StartInv ==
    /\ start = "begin" => ~listening /\ ~sockDir /\ ~bundle
    /\ start \in {"begin", "socket"} => proc = "none" /\ accept = "none"
    /\ start = "raced" => proc # "running"
    /\ start = "failed" => /\ proc \in IF mode = "runc" THEN {"none", "reaped"} ELSE {"none", "exited"}
                           /\ ~listening /\ ~sockDir /\ ~bundle
                           /\ accept \notin {"got", "sent"}
    /\ start # "ready" /\ proc = "reaped" => start = "failed"
    /\ accept \in {"got", "sent", "taken"} => fn # "boot"
    /\ start = "ready" => accept = "taken"
    /\ start = "ready" /\ closing # "done" => conn
    /\ start # "ready" => Unused

\* f is not a request or a reply of anybody else.
Mine(f, c) == f.type \in {"invoke", "result", "error"} => f.id = c

\* Who uses the connection holds the lock, and all that is under way is its.
MatchInv ==
    /\ \A c \in Callers : gw[c] \in {"sendHead", "sendBody"} \cup Reading => lock = c
    /\ lock # None =>
          /\ gw[lock] # "idle"
          /\ \A i \in 1..Len(toGw) : Mine(toGw[i].frame, lock)
          /\ proc = "running" => /\ \A i \in 1..Len(toFn) : Mine(toFn[i].frame, lock)
                                 /\ fn \in Busy => Mine(cur, lock)
    /\ \A c \in Callers : gw[c] = "answered" => Mine(got[c], c)

\* The half frames that x has still to write, and that the SDK will.
Left(x) == IF gw[x] = "sendHead" THEN 2 ELSE IF gw[x] = "sendBody" THEN 1 ELSE 0
Owed    == IF lock = None THEN 0 ELSE Left(lock)
Pending == IF fn \in {"handle", "reply"} THEN 2 ELSE IF fn \in {"body", "replyBody"} THEN 1 ELSE 0

\* A half frame under way, or still to come, stands for one that was or will
\* be written: at most one exchange, and one more with Close.
Load == Len(toGw) + Len(toFn) + (IF proc = "running" THEN Pending + Owed + Left(Closer) ELSE 0)

LoadInv == Load <= IF closing = "no" THEN 2 ELSE 4

\* The exchange of request s, seen by its caller at w: what the SDK is doing
\* and what is under way in both directions.
InTurn(s, w) ==
    \/ /\ w \in {"sendHead", "answered", "refused"} /\ fn \in Between /\ toFn = <<>>
    \/ /\ w = "sendBody" /\ fn \in Between /\ toFn = <<Half("head", s)>>
    \/ /\ w = "sendBody" /\ fn = "body" /\ cur = s /\ toFn = <<>>
    \/ /\ w = "readHead" /\ fn \in Between /\ toFn = <<Half("head", s), Half("body", s)>> /\ toGw = <<>>
    \/ /\ w = "readHead" /\ fn = "body" /\ cur = s /\ toFn = <<Half("body", s)>> /\ toGw = <<>>
    \/ /\ w = "readHead" /\ fn \in {"handle", "hung"} /\ toFn = <<>> /\ toGw = <<>>
    \/ /\ w = "readHead" /\ fn = "reply" /\ cur.type \in Replies /\ toFn = <<>> /\ toGw = <<>>
    \/ /\ w = "readHead" /\ fn = "replyBody" /\ cur.type \in Replies /\ toFn = <<>> /\ Len(toGw) = 1
    \/ /\ w = "readHead" /\ fn = "read" /\ toFn = <<>> /\ Len(toGw) \in {0, 2}
    \/ /\ w = "readBody" /\ fn = "replyBody" /\ cur.type \in Replies /\ toFn = <<>> /\ toGw = <<>>
    \/ /\ w = "readBody" /\ fn = "read" /\ toFn = <<>> /\ Len(toGw) = 1

\* Until Close, a caller finds a whole reply, or the beginning of one.
QuietInv ==
    closing = "no" =>
        /\ gw[Closer] = "idle"
        /\ \A c \in Callers : gw[c] # "readRest" /\ (gw[c] = "broken" => proc # "running")
        /\ lock = None \/ gw[lock] \notin {"readHead", "readBody"} => toGw = <<>>
        /\ lock = None /\ start = "ready" /\ proc = "running" => fn \in Between /\ toFn = <<>>
        /\ lock # None =>
              /\ gw[lock] = "readHead" /\ toGw # <<>> =>
                    toGw[1].part = "head" /\ (Len(toGw) = 2 => toGw[2].part = "body")
              /\ gw[lock] = "readBody" /\ toGw # <<>> => toGw[1].part = "body" /\ Len(toGw) = 1
              /\ proc = "running" => InTurn(Sent(lock), gw[lock])

\* Only a container has a root directory.
RootInv == rootfs => mode = "runc"

FuncProcessInv == ShapeInv /\ RootInv /\ StartInv /\ MatchInv /\ LoadInv /\ QuietInv

-----------------------------------------------------------------------------
\* Writing at the end of a sequence.
LEMMA AppendFacts ==
    ASSUME NEW S, NEW q \in Seq(S), NEW h \in S
    PROVE  /\ Append(q, h) \in Seq(S) /\ Len(Append(q, h)) = Len(q) + 1 /\ Len(q) \in Nat
           /\ Append(q, h)[Len(q) + 1] = h /\ \A i \in 1..Len(q) : Append(q, h)[i] = q[i]
OBVIOUS

\* Reading from its beginning.
LEMMA TailFacts ==
    ASSUME NEW S, NEW q \in Seq(S), q # <<>>
    PROVE  /\ Head(q) = q[1] /\ Head(q) \in S /\ Tail(q) \in Seq(S)
           /\ Len(q) \in Nat /\ Len(q) >= 1 /\ Len(Tail(q)) = Len(q) - 1
           /\ \A i \in 1..(Len(q) - 1) : Tail(q)[i] = q[i + 1]
OBVIOUS

\* Requests are frames, and only callers invoke.
LEMMA RequestFacts ==
    /\ Requests \subseteq Frames
    /\ \A f \in Requests : f.type = "invoke" => f.id \in Callers
    /\ \A x \in All : Sent(x) \in Requests /\ Sent(x).id = x
    /\ \A x \in Callers : Sent(x).type = "invoke"
    /\ Sent(Closer).type = "shutdown"
<1>1. ASSUME NEW x \in All
      PROVE  /\ Sent(x) \in Frames /\ Sent(x).id = x
             /\ x \in Callers => Sent(x).type = "invoke"
             /\ x = Closer => Sent(x).type = "shutdown"
  BY FuncProcessAssumption DEF Frames, Sent, All
<1>2. \A x \in All : x \in Callers \/ x = Closer
  BY DEF All
<1>. QED BY <1>1, <1>2 DEF Requests, All

\* Frames whose type is replaced.
LEMMA RetypeFacts ==
    ASSUME NEW f \in Frames, NEW t \in {"invoke", "shutdown", "shutdown_ok", "result", "error"}
    PROVE  /\ [f EXCEPT !.type = t] \in Frames
           /\ [f EXCEPT !.type = t].type = t /\ [f EXCEPT !.type = t].id = f.id
BY DEF Frames

\* Four bytes less.
LEMMA BittenFacts ==
    ASSUME NEW q \in Seq(Halves), q # <<>>
    PROVE  /\ Bitten(q) \in Seq(Halves) /\ Len(Bitten(q)) <= Len(q)
           /\ Head(q).part = "head" => Bitten(q) = Tail(q)
           /\ \A i \in 1..Len(Bitten(q)) : \E j \in 1..Len(q) : Bitten(q)[i].frame = q[j].frame
<1>1. CASE Head(q).part = "head"
  BY <1>1, TailFacts DEF Bitten
<1>2. CASE Head(q).part # "head"
  <2>. DEFINE h == Half("rest", Head(q).frame)
              b == <<h>> \o Tail(q)
  <2>1. h \in Halves /\ h.frame = q[1].frame /\ <<h>> \in Seq(Halves) /\ Len(<<h>>) = 1 /\ <<h>>[1] = h
    <3>1. Head(q) \in Halves /\ Head(q) = q[1]
      BY TailFacts
    <3>2. h \in Halves /\ h.frame = q[1].frame
      BY <3>1 DEF Halves, Half
    <3>. HIDE DEF h
    <3>. QED BY <3>2
  <2>. HIDE DEF h
  <2>2. Tail(q) \in Seq(Halves) /\ Len(Tail(q)) = Len(q) - 1 /\ Len(q) \in Nat /\ Len(q) >= 1
    BY TailFacts
  <2>3. /\ b \in Seq(Halves) /\ Len(b) = Len(q) /\ b[1] = h
        /\ \A i \in 1..Len(b) : i = 1 \/ b[i] = Tail(q)[i - 1]
    BY <2>1, <2>2
  <2>4. \A i \in 1..Len(q) : i = 1 \/ Tail(q)[i - 1] = q[i]
    BY <2>2, TailFacts
  <2>5. Bitten(q) = b
    BY <1>2 DEF Bitten, h
  <2>. HIDE DEF b
  <2>. QED BY <1>2, <2>1, <2>2, <2>3, <2>4, <2>5
<1>. QED BY <1>1, <1>2

\* Types are kept by every step.
LEMMA NextShape == ShapeInv /\ [Next]_vars => ShapeInv'
<1>. SUFFICES ASSUME ShapeInv, [Next]_vars PROVE ShapeInv'
  OBVIOUS
<1>. USE DEF startVars, fnVars, wireVars, callVars, Between, Busy, Reading
<1>a. Callers \subseteq All /\ Closer \in All
  BY DEF All
<1>b. toFn \in Seq(FnHalves) /\ toGw \in Seq(Halves) /\ FlagsOK
  BY DEF ShapeInv
<1>1. ASSUME MakeSocket PROVE ShapeInv'
  <2>1. FlagsOK'
    <3>1. (mode = "runc") \in BOOLEAN
      OBVIOUS
    <3>2. rootfs' \in BOOLEAN
      BY <1>1, <3>1, Zenon DEF MakeSocket
    <3>. QED BY <1>1, <1>b, <3>2, Zenon DEF FlagsOK, MakeSocket
  <2>2. start' \in {"socket", "failed"} /\ UNCHANGED <<mode, accept, fnVars, wireVars, callVars, closing, silenced>>
    BY <1>1 DEF MakeSocket
  <2>. QED BY <2>1, <2>2 DEF ShapeInv
<1>2. ASSUME Launch PROVE ShapeInv'
  <2>1. FlagsOK'
    BY <1>2, <1>b, Zenon DEF FlagsOK, Launch
  <2>. QED BY <1>2, <1>a, <2>1 DEF ShapeInv, Launch
<1>3. ASSUME Accepted PROVE ShapeInv'
  BY <1>3, <1>a DEF ShapeInv, FlagsOK, Accepted
<1>4. ASSUME Deliver PROVE ShapeInv'
  BY <1>4, <1>a DEF ShapeInv, FlagsOK, Deliver
<1>5. ASSUME Ready PROVE ShapeInv'
  <2>1. FlagsOK'
    BY <1>5, <1>b, Zenon DEF FlagsOK, Ready
  <2>. QED BY <1>5, <1>a, <2>1 DEF ShapeInv, Ready
<1>6. ASSUME AcceptFails PROVE ShapeInv'
  BY <1>6, <1>a DEF ShapeInv, FlagsOK, AcceptFails, OnTimeout, Ended
<1>7. ASSUME DialTimeout PROVE ShapeInv'
  <2>1. FlagsOK'
    BY <1>7, <1>b, Zenon DEF FlagsOK, DialTimeout
  <2>. QED BY <1>7, <1>a, <2>1 DEF ShapeInv, DialTimeout, OnTimeout, Ended
<1>8. ASSUME CleanUpStart PROVE ShapeInv'
  <2>1. FlagsOK'
    BY <1>8, <1>b, Zenon DEF FlagsOK, CleanUpStart
  <2>. QED BY <1>8, <1>a, <2>1 DEF ShapeInv, CleanUpStart, DrainRaced
<1>9. ASSUME NEW c \in Callers, InvokeBegin(c) PROVE ShapeInv'
  BY <1>9, <1>a DEF ShapeInv, FlagsOK, InvokeBegin, At
<1>10. ASSUME NEW c \in Callers, InvokeEnd(c) PROVE ShapeInv'
  BY <1>10, <1>a DEF ShapeInv, FlagsOK, InvokeEnd
<1>11. ASSUME NEW x \in All, WriteHead(x) PROVE ShapeInv'
  <2>1. Half("head", Sent(x)) \in FnHalves
    BY RequestFacts DEF Half, FnHalves
  <2>2. toFn' \in Seq(FnHalves)
    BY <1>11, <1>b, <2>1, AppendFacts DEF WriteHead, WriteHalf
  <2>3. \E w \in {"sendBody", "readHead", "broken"} : gw' = [gw EXCEPT ![x] = w]
    BY <1>11 DEF WriteHead, WriteHalf, At
  <2>4. UNCHANGED <<mode, rootfs, startVars, fnVars, toGw, conn, lock, got, closing, silenced>>
    BY <1>11 DEF WriteHead, WriteHalf
  <2>. QED BY <2>2, <2>3, <2>4 DEF ShapeInv, FlagsOK
<1>12. ASSUME NEW x \in All, WriteBody(x) PROVE ShapeInv'
  <2>1. Half("body", Sent(x)) \in FnHalves
    BY RequestFacts DEF Half, FnHalves
  <2>2. toFn' \in Seq(FnHalves)
    BY <1>12, <1>b, <2>1, AppendFacts DEF WriteBody, WriteHalf
  <2>3. \E w \in {"sendBody", "readHead", "broken"} : gw' = [gw EXCEPT ![x] = w]
    BY <1>12 DEF WriteBody, WriteHalf, At
  <2>4. UNCHANGED <<mode, rootfs, startVars, fnVars, toGw, conn, lock, got, closing, silenced>>
    BY <1>12 DEF WriteBody, WriteHalf
  <2>. QED BY <2>2, <2>3, <2>4 DEF ShapeInv, FlagsOK
<1>13. ASSUME NEW x \in All, ReadHead(x) PROVE ShapeInv'
  <2>1. toGw' \in Seq(Halves)
    BY <1>13, <1>b, BittenFacts DEF ReadHead
  <2>. QED BY <1>13, <1>a, <2>1 DEF ShapeInv, FlagsOK, ReadHead, At
<1>14. ASSUME NEW x \in All, ReadBody(x) PROVE ShapeInv'
  <2>1. toGw' \in Seq(Halves) /\ Head(toGw) \in Halves
    BY <1>14, <1>b, TailFacts DEF ReadBody
  <2>2. Head(toGw).frame \in Frames
    BY <2>1 DEF Halves
  <2>. QED BY <1>14, <1>a, <2>1, <2>2 DEF ShapeInv, FlagsOK, ReadBody, At
<1>15. ASSUME NEW x \in All, ReadRest(x) PROVE ShapeInv'
  <2>1. toGw' \in Seq(Halves)
    BY <1>15, <1>b, BittenFacts DEF ReadRest
  <2>. QED BY <1>15, <1>a, <2>1 DEF ShapeInv, FlagsOK, ReadRest, At
<1>16. ASSUME NEW x \in All, ReadFails(x) PROVE ShapeInv'
  BY <1>16, <1>a DEF ShapeInv, FlagsOK, ReadFails, At
<1>17. ASSUME CloseBegin PROVE ShapeInv'
  BY <1>17, <1>a DEF ShapeInv, FlagsOK, CloseBegin, At
<1>18. ASSUME CloseStop PROVE ShapeInv'
  BY <1>18, <1>a DEF ShapeInv, FlagsOK, CloseStop, Ended
<1>19. ASSUME CloseWait PROVE ShapeInv'
  <2>1. FlagsOK'
    BY <1>19, <1>b, Zenon DEF FlagsOK, CloseWait
  <2>. QED BY <1>19, <1>a, <2>1 DEF ShapeInv, CloseWait
<1>20. ASSUME CloseFinish PROVE ShapeInv'
  <2>1. FlagsOK'
    BY <1>20, <1>b, Zenon DEF FlagsOK, CloseFinish
  <2>. QED BY <1>20, <1>a, <2>1 DEF ShapeInv, CloseFinish
<1>21. ASSUME Dial PROVE ShapeInv'
  BY <1>21, <1>a DEF ShapeInv, FlagsOK, Dial
<1>22. ASSUME FnReadHead PROVE ShapeInv'
  <2>1. toFn' \in Seq(FnHalves) /\ Head(toFn) \in FnHalves
    BY <1>22, <1>b, TailFacts DEF FnReadHead
  <2>2. Head(toFn).frame \in Requests
    BY <2>1 DEF FnHalves
  <2>. QED BY <1>22, <1>a, <2>1, <2>2, RequestFacts DEF ShapeInv, FlagsOK, FnReadHead
<1>23. ASSUME FnReadBody PROVE ShapeInv'
  <2>1. toFn' \in Seq(FnHalves) /\ Head(toFn) \in FnHalves
    BY <1>23, <1>b, TailFacts DEF FnReadBody
  <2>2. Head(toFn).frame \in Requests
    BY <2>1 DEF FnHalves
  <2>3. cur \in Requests /\ cur \in Frames
    BY <1>23, RequestFacts DEF ShapeInv, FnReadBody
  <2>4. [cur EXCEPT !.type = "shutdown_ok"] \in Frames
    BY <2>3, RetypeFacts
  <2>5. /\ UNCHANGED <<mode, rootfs, startVars, toGw, conn, callVars, closing, silenced>>
        /\ proc' \in {"running", "exited"}
        /\ \/ fn' = "body" /\ cur' = cur
           \/ fn' = "handle" /\ cur' = cur /\ cur.type = "invoke"
           \/ fn' = "reply" /\ cur' = [cur EXCEPT !.type = "shutdown_ok"]
    BY <1>23 DEF FnReadBody
  <2>6. FlagsOK' /\ mode' \in Modes /\ start' = start /\ accept' = accept
    BY <1>b, <2>5, Zenon DEF FlagsOK, ShapeInv
  <2>. QED BY <2>1, <2>3, <2>4, <2>5, <2>6 DEF ShapeInv
<1>24. ASSUME HandleInvoke PROVE ShapeInv'
  <2>1. cur \in Frames /\ cur.id \in Callers
    BY <1>24, RequestFacts DEF ShapeInv, HandleInvoke
  <2>2. \A t \in HandlerReplies : [cur EXCEPT !.type = t] \in Frames
    BY <2>1, RetypeFacts DEF HandlerReplies
  <2>. QED BY <1>24, <1>a, <2>1, <2>2 DEF ShapeInv, FlagsOK, HandleInvoke
<1>25. ASSUME FnWriteHead PROVE ShapeInv'
  <2>1. Half("head", cur) \in Halves
    BY <1>25 DEF Half, Halves, ShapeInv, FnWriteHead
  <2>2. toGw' \in Seq(Halves)
    BY <1>25, <1>b, <2>1, AppendFacts DEF FnWriteHead
  <2>. QED BY <1>25, <1>a, <2>2 DEF ShapeInv, FlagsOK, FnWriteHead
<1>26. ASSUME FnWriteBody PROVE ShapeInv'
  <2>1. Half("body", cur) \in Halves
    BY <1>26 DEF Half, Halves, ShapeInv, FnWriteBody
  <2>2. toGw' \in Seq(Halves)
    BY <1>26, <1>b, <2>1, AppendFacts DEF FnWriteBody
  <2>. QED BY <1>26, <1>a, <2>2 DEF ShapeInv, FlagsOK, FnWriteBody
<1>29. ASSUME NEW c \in Callers, Refuse(c) PROVE ShapeInv'
  BY <1>29, <1>a DEF ShapeInv, FlagsOK, Refuse, At
<1>27. ASSUME Die PROVE ShapeInv'
  BY <1>27, <1>a DEF ShapeInv, FlagsOK, Die
<1>28. CASE UNCHANGED vars
  BY <1>28 DEF ShapeInv, FlagsOK, vars
<1>. QED BY <1>1, <1>2, <1>3, <1>4, <1>5, <1>6, <1>7, <1>8, <1>9, <1>10, <1>11, <1>12, <1>13, <1>14, <1>15, <1>16, <1>17, <1>18, <1>19, <1>20, <1>21, <1>22, <1>23, <1>24, <1>25, <1>26, <1>27, <1>28, <1>29
   DEF Next, StartStep, GatewayStep, CloseStep, FnStep, All

\* Nothing removes the root directory of a container, and nothing else has one.
LEMMA NextRoot == RootInv /\ [Next]_vars => RootInv'
<1>. SUFFICES ASSUME RootInv, [Next]_vars PROVE RootInv'
  OBVIOUS
<1>1. CASE MakeSocket
  BY <1>1, Zenon DEF MakeSocket, RootInv
<1>2. CASE ~MakeSocket
  <2>1. UNCHANGED <<mode, rootfs>>
    BY <1>2 DEF Next, vars, StartStep, Launch, Accepted, Deliver, Ready, AcceptFails, CleanUpStart, DialTimeout,
       InvokeBegin, Refuse, InvokeEnd, GatewayStep, WriteHead, WriteBody, WriteHalf, ReadHead, ReadBody, ReadRest,
       ReadFails, CloseBegin, CloseStep, CloseStop, CloseWait, CloseFinish, FnStep, Dial, FnReadHead, FnReadBody,
       HandleInvoke, FnWriteHead, FnWriteBody, Die
  <2>. QED BY <2>1, Zenon DEF RootInv
<1>. QED BY <1>1, <1>2

-----------------------------------------------------------------------------
\* StartInv is inductive.
LEMMA NextStart == ShapeInv /\ StartInv /\ [Next]_vars => StartInv'
<1>. SUFFICES ASSUME ShapeInv, StartInv, [Next]_vars PROVE StartInv'
  OBVIOUS
<1>. USE DEF startVars, fnVars, wireVars, callVars
<1>a. Callers \subseteq All /\ Closer \in All
  BY DEF All
<1>1. ASSUME start = "ready", UNCHANGED <<start, accept>>, fn' # "boot" \/ fn' = fn, closing' # "done" => conn'
      PROVE  StartInv'
  BY <1>1 DEF StartInv
<1>3. CASE MakeSocket
  <2>1. /\ start = "begin" /\ UNCHANGED <<mode, accept, fnVars, wireVars, conn, callVars, closing>>
        /\ \/ start' = "socket"
           \/ start' = "failed" /\ UNCHANGED <<listening, sockDir, bundle>>
    BY <1>3 DEF MakeSocket
  <2>. QED BY <2>1 DEF StartInv, Unused
<1>4. CASE Launch
  BY <1>4 DEF Launch, StartInv, Unused
<1>5. CASE Accepted
  BY <1>5 DEF Accepted, StartInv, Unused
<1>6. CASE Deliver
  BY <1>6 DEF Deliver, StartInv, Unused
<1>7. CASE Ready
  BY <1>7 DEF Ready, StartInv, Unused
<1>8. CASE AcceptFails
  BY <1>8 DEF AcceptFails, OnTimeout, Ended, StartInv, Unused
<1>9. CASE DialTimeout
  BY <1>9 DEF DialTimeout, OnTimeout, Ended, StartInv, Unused
<1>10. CASE CleanUpStart
  <2>1. proc \in {"none", "exited"} /\ UNCHANGED <<mode, conn, closing>>
    BY <1>10 DEF CleanUpStart, DrainRaced, StartInv, ShapeInv
  <2>. QED BY <1>10, <2>1 DEF CleanUpStart, DrainRaced, StartInv, Unused
<1>11. ASSUME NEW c \in Callers, InvokeBegin(c) \/ Refuse(c) \/ InvokeEnd(c) PROVE StartInv'
  <2>1. start = "ready"
    BY <1>11, <1>a DEF InvokeBegin, Refuse, InvokeEnd, StartInv, Unused
  <2>2. UNCHANGED <<start, accept, fn, closing, conn>>
    BY <1>11 DEF InvokeBegin, Refuse, InvokeEnd
  <2>. QED BY <1>1, <2>1, <2>2 DEF StartInv
<1>12. ASSUME NEW x \in All, GatewayStep(x) PROVE StartInv'
  <2>1. start = "ready"
    BY <1>12 DEF GatewayStep, WriteHead, WriteBody, WriteHalf, ReadHead, ReadBody, ReadRest, ReadFails, Reading,
       StartInv, Unused
  <2>2. UNCHANGED <<start, accept, fn, closing, conn>>
    BY <1>12 DEF GatewayStep, WriteHead, WriteBody, WriteHalf, ReadHead, ReadBody, ReadRest, ReadFails
  <2>. QED BY <1>1, <2>1, <2>2 DEF StartInv
<1>13. CASE CloseBegin \/ CloseStep
  <2>1. start = "ready"
    BY <1>13 DEF CloseBegin, CloseStep, CloseStop, CloseWait, CloseFinish, StartInv, Unused
  <2>2. UNCHANGED <<start, accept, fn>>
    BY <1>13 DEF CloseBegin, CloseStep, CloseStop, CloseWait, CloseFinish
  <2>3. closing' # "done" => conn' = conn /\ closing # "done"
    BY <1>13 DEF CloseBegin, CloseStep, CloseStop, CloseWait, CloseFinish
  <2>. QED BY <1>1, <2>1, <2>2, <2>3 DEF StartInv
<1>14. CASE Dial
  BY <1>14 DEF Dial, StartInv, Unused
<1>15. CASE FnReadHead \/ FnReadBody \/ HandleInvoke \/ FnWriteHead \/ FnWriteBody
  <2>1. start = "ready"
    BY <1>15 DEF FnReadHead, FnReadBody, HandleInvoke, FnWriteHead, FnWriteBody, StartInv, Unused
  <2>2. UNCHANGED <<start, accept, closing, conn>> /\ (fn' # "boot" \/ fn' = fn)
    BY <1>15 DEF FnReadHead, FnReadBody, HandleInvoke, FnWriteHead, FnWriteBody
  <2>. QED BY <1>1, <2>1, <2>2 DEF StartInv
<1>16. CASE Die
  BY <1>16 DEF Die, StartInv, Unused
<1>17. CASE UNCHANGED vars
  BY <1>17 DEF vars, StartInv, Unused
<1>. QED BY <1>3, <1>4, <1>5, <1>6, <1>7, <1>8, <1>9, <1>10, <1>11, <1>12, <1>13, <1>14, <1>15, <1>16, <1>17
   DEF Next, StartStep, FnStep, All

-----------------------------------------------------------------------------
\* What holds of the exchange of frames.
Exchange == MatchInv /\ LoadInv /\ QuietInv

\* It holds of an instance that nobody has used.
LEMMA UnusedNow == ShapeInv /\ StartInv /\ Unused => Exchange
<1>. SUFFICES ASSUME ShapeInv, StartInv, Unused PROVE Exchange
  OBVIOUS
<1>1. Callers \subseteq All /\ Closer \in All /\ Len(toGw) = 0 /\ Len(toFn) = 0
  BY DEF All, Unused
<1>2. MatchInv
  BY <1>1 DEF MatchInv, Unused, Reading
<1>3. LoadInv
  BY <1>1 DEF LoadInv, Load, Unused, Left, Owed, Pending
<1>4. QuietInv
  BY <1>1 DEF QuietInv, Unused, StartInv, Between
<1>. QED BY <1>2, <1>3, <1>4 DEF Exchange

\* The same in the next state.
LEMMA UnusedNext == ShapeInv' /\ StartInv' /\ Unused' => Exchange'
BY UnusedNow, PTL

\* The steps of Start leave it unused.
LEMMA StartSteps ==
    ASSUME ShapeInv, StartInv, StartStep \/ DialTimeout \/ Dial
    PROVE  Unused'
<1>. USE DEF startVars, fnVars, wireVars, callVars
<1>1. Unused
  BY DEF StartStep, MakeSocket, Launch, Accepted, Deliver, Ready, AcceptFails, CleanUpStart, DrainRaced, DialTimeout,
     Dial, StartInv
<1>2. UNCHANGED <<closing, lock, toFn, toGw, gw>> /\ fn' \in {fn, "dialled"}
  BY DEF StartStep, MakeSocket, Launch, Accepted, Deliver, Ready, AcceptFails, CleanUpStart, DialTimeout, Dial
<1>. QED BY <1>1, <1>2 DEF Unused

\* The end of the process changes nothing about the exchange but that nobody
\* writes any more.
LEMMA EndSteps ==
    ASSUME ShapeInv, Exchange, Die \/ CloseStep \/ UNCHANGED vars
    PROVE  Exchange'
<1>. USE DEF startVars, fnVars, wireVars, callVars
<1>1. UNCHANGED <<start, fn, cur, toFn, toGw, lock, gw, got>> /\ (proc' = proc \/ proc' # "running")
  BY DEF Die, CloseStep, CloseStop, CloseWait, CloseFinish, Ended, vars
<1>2. closing' = closing \/ (closing # "no" /\ closing' # "no")
  BY DEF Die, CloseStep, CloseStop, CloseWait, CloseFinish, vars
<1>3. MatchInv'
  BY <1>1 DEF Exchange, MatchInv
<1>4. LoadInv'
  <2>1. Len(toGw) \in Nat /\ Len(toFn) \in Nat /\ Pending \in Nat /\ Owed \in Nat /\ Left(Closer) \in Nat
    BY DEF ShapeInv, Pending, Owed, Left
  <2>2. Pending' = Pending /\ Owed' = Owed /\ Left(Closer)' = Left(Closer)
    BY <1>1 DEF Pending, Owed, Left
  <2>. QED BY <1>1, <1>2, <2>1, <2>2 DEF Exchange, LoadInv, Load
<1>5. QuietInv'
  BY <1>1, <1>2 DEF Exchange, QuietInv, InTurn
<1>. QED BY <1>3, <1>4, <1>5 DEF Exchange

\* LoadInv is kept by the steps of the gateway and of the SDK.
LEMMA NextLoad ==
    ASSUME ShapeInv, StartInv, Exchange, ShapeInv',
           \/ \E c \in Callers : InvokeBegin(c) \/ Refuse(c) \/ InvokeEnd(c)
           \/ \E x \in All : GatewayStep(x)
           \/ CloseBegin \/ FnReadHead \/ FnReadBody \/ HandleInvoke \/ FnWriteHead \/ FnWriteBody
    PROVE  LoadInv'
<1>. USE DEF startVars, fnVars, wireVars, callVars, Exchange
<1>a. /\ Len(toGw) \in Nat /\ Len(toFn) \in Nat /\ Pending \in Nat /\ Owed \in Nat
      /\ Left(Closer) \in Nat
  BY DEF ShapeInv, Pending, Owed, Left
<1>b. toFn \in Seq(FnHalves) /\ toGw \in Seq(Halves) /\ Callers \subseteq All /\ Closer \in All /\ Closer \notin Callers
  BY FuncProcessAssumption DEF ShapeInv, All
<1>c. gw \in [All -> {"idle", "sendHead", "sendBody", "answered", "broken", "refused"} \cup Reading] /\ lock \in Callers \cup {None}
  BY DEF ShapeInv
<1>1. ASSUME NEW c \in Callers, InvokeBegin(c) PROVE LoadInv'
  <2>1. /\ UNCHANGED <<toGw, toFn, proc, fn, closing>> /\ lock = None /\ lock' = c
        /\ gw'[c] = "sendHead" /\ gw'[Closer] = gw[Closer] /\ closing = "no" /\ start = "ready"
    BY <1>1, <1>b, <1>c DEF InvokeBegin, MayInvoke, At
  <2>2. CASE proc = "running"
    <3>1. fn \in Between /\ toFn = <<>> /\ toGw = <<>> /\ gw[Closer] = "idle"
      BY <2>1, <2>2 DEF QuietInv
    <3>2. Pending' = 0 /\ Owed' = 2 /\ Left(Closer)' = 0 /\ Len(toFn') = 0 /\ Len(toGw') = 0
      BY <2>1, <3>1, FuncProcessAssumption DEF Pending, Owed, Left, Between
    <3>. QED BY <2>1, <2>2, <3>2 DEF LoadInv, Load
  <2>3. CASE proc # "running"
    BY <2>1, <2>3 DEF LoadInv, Load
  <2>. QED BY <2>2, <2>3
<1>2. ASSUME NEW c \in Callers, InvokeEnd(c) PROVE LoadInv'
  <2>1. UNCHANGED <<toGw, toFn, proc, fn, gw, closing>> /\ lock' = None
    BY <1>2 DEF InvokeEnd
  <2>2. Pending' = Pending /\ Owed' = 0 /\ Left(Closer)' = Left(Closer)
    BY <2>1 DEF Pending, Owed, Left
  <2>. QED BY <1>a, <2>1, <2>2 DEF LoadInv, Load
<1>7. ASSUME NEW c \in Callers, Refuse(c) PROVE LoadInv'
  <2>1. UNCHANGED <<toGw, toFn, proc, fn, lock, closing>> /\ gw' = [gw EXCEPT ![c] = "refused"]
    BY <1>7 DEF Refuse, At
  <2>2. lock = c /\ c # None
    BY <1>7, FuncProcessAssumption DEF Refuse, MatchInv
  <2>3. Pending' = Pending /\ Owed' = 0 /\ Left(Closer)' = Left(Closer)
    BY <1>b, <1>c, <2>1, <2>2 DEF Pending, Owed, Left
  <2>. QED BY <1>a, <2>1, <2>3 DEF LoadInv, Load
<1>3. CASE CloseBegin
  <2>1. /\ UNCHANGED <<toGw, toFn, proc, fn, lock>> /\ closing = "no" /\ closing' = "drain"
        /\ gw'[Closer] = "sendHead" /\ \A c \in Callers : gw'[c] = gw[c]
    BY <1>3, <1>b, <1>c DEF CloseBegin, At
  <2>2. Pending' = Pending /\ Owed' = Owed /\ Left(Closer)' = 2
    BY <1>c, <2>1 DEF Pending, Owed, Left
  <2>. QED BY <1>a, <2>1, <2>2 DEF LoadInv, Load
<1>4. ASSUME NEW x \in All, WriteHead(x) \/ WriteBody(x) PROVE LoadInv'
  <2>1. /\ UNCHANGED <<toGw, proc, fn, lock, closing>> /\ gw[x] \in {"sendHead", "sendBody"}
        /\ \A y \in All \ {x} : gw'[y] = gw[y]
        /\ \/ proc = "running" /\ Left(x)' = Left(x) - 1 /\ Len(toFn') = Len(toFn) + 1
           \/ Left(x)' = 0 /\ toFn' = toFn
    <3>1. /\ UNCHANGED <<toGw, proc, fn, lock, closing>> /\ gw[x] \in {"sendHead", "sendBody"}
          /\ \A y \in All \ {x} : gw'[y] = gw[y]
      BY <1>4, <1>c DEF WriteHead, WriteBody, WriteHalf, At
    <3>2. ASSUME NEW h PROVE Len(Append(toFn, h)) = Len(toFn) + 1
      OBVIOUS
    <3>3. CASE WriteHead(x)
      BY <1>c, <3>1, <3>2, <3>3 DEF WriteHead, WriteHalf, At, Left
    <3>4. CASE WriteBody(x)
      BY <1>c, <3>1, <3>2, <3>4 DEF WriteBody, WriteHalf, At, Left
    <3>. QED BY <1>4, <3>1, <3>3, <3>4
  <2>2. CASE x = Closer
    <3>1. Pending' = Pending /\ Owed' = Owed
      BY <1>b, <1>c, <2>1, <2>2 DEF Pending, Owed, Left
    <3>2. \/ proc = "running" /\ Left(Closer)' = Left(Closer) - 1 /\ Len(toFn') = Len(toFn) + 1
          \/ Left(Closer)' = 0 /\ toFn' = toFn
      BY <2>1, <2>2 DEF Left
    <3>. QED BY <1>a, <2>1, <3>1, <3>2 DEF LoadInv, Load
  <2>3. CASE x # Closer
    <3>1. x \in Callers /\ lock = x /\ x # None
      BY <2>1, <2>3, FuncProcessAssumption DEF MatchInv, All
    <3>2. /\ Pending' = Pending /\ Left(Closer)' = Left(Closer)
          /\ \/ proc = "running" /\ Owed' = Owed - 1 /\ Len(toFn') = Len(toFn) + 1
             \/ Owed' = 0 /\ toFn' = toFn
      BY <1>b, <1>c, <2>1, <2>3, <3>1 DEF Pending, Owed, Left
    <3>. QED BY <1>a, <2>1, <3>2 DEF LoadInv, Load
  <2>. QED BY <2>2, <2>3
<1>5. ASSUME NEW x \in All, ReadHead(x) \/ ReadBody(x) \/ ReadRest(x) \/ ReadFails(x) PROVE LoadInv'
  <2>1. /\ UNCHANGED <<toFn, proc, fn, lock, closing>> /\ gw[x] \in Reading
        /\ gw'[x] \in {"readBody", "readRest", "answered", "broken"} /\ \A y \in All \ {x} : gw'[y] = gw[y]
    BY <1>5, <1>c DEF ReadHead, ReadBody, ReadRest, ReadFails, At, Reading
  <2>2. Len(toGw') \in Nat /\ Len(toGw') <= Len(toGw)
    <3>1. Len(toGw') \in Nat
      BY DEF ShapeInv
    <3>2. toGw' = toGw \/ (toGw # <<>> /\ toGw' \in {Bitten(toGw), Tail(toGw)})
      BY <1>5 DEF ReadHead, ReadBody, ReadRest, ReadFails
    <3>3. toGw # <<>> => Len(Bitten(toGw)) <= Len(toGw) /\ Len(Tail(toGw)) <= Len(toGw)
      BY <1>b, BittenFacts, TailFacts
    <3>. QED BY <1>a, <3>1, <3>2, <3>3
  <2>3. Pending' = Pending /\ Owed' = Owed /\ Left(Closer)' = Left(Closer)
    BY <1>b, <1>c, <2>1 DEF Pending, Owed, Left, Reading
  <2>. QED BY <1>a, <2>1, <2>2, <2>3 DEF LoadInv, Load
<1>6. CASE FnReadHead \/ FnReadBody \/ HandleInvoke \/ FnWriteHead \/ FnWriteBody
  <2>1. UNCHANGED <<lock, gw, closing>> /\ proc = "running"
    BY <1>6 DEF FnReadHead, FnReadBody, HandleInvoke, FnWriteHead, FnWriteBody
  <2>2. Owed' = Owed /\ Left(Closer)' = Left(Closer) /\ Pending' \in Nat
    BY <2>1 DEF Owed, Left, Pending
  <2>3. toFn # <<>> => Len(Tail(toFn)) = Len(toFn) - 1
    BY <1>b, TailFacts
  <2>4. \A h : Len(Append(toGw, h)) = Len(toGw) + 1
    OBVIOUS
  <2>5. \/ proc' = "running" /\ Len(toGw') + Len(toFn') + Pending' <= Len(toGw) + Len(toFn) + Pending
        \/ proc' # "running" /\ Len(toGw') + Len(toFn') <= Len(toGw) + Len(toFn) + Pending
    <3>1. CASE FnReadHead
      BY <1>a, <2>3, <3>1 DEF FnReadHead, Pending
    <3>2. CASE FnReadBody
      BY <1>a, <2>3, <3>2 DEF FnReadBody, Pending
    <3>3. CASE HandleInvoke
      BY <1>a, <3>3 DEF HandleInvoke, Pending
    <3>4. CASE FnWriteHead
      BY <1>a, <2>4, <3>4 DEF FnWriteHead, Pending
    <3>5. CASE FnWriteBody
      BY <1>a, <2>4, <3>5 DEF FnWriteBody, Pending
    <3>. QED BY <1>6, <3>1, <3>2, <3>3, <3>4, <3>5
  <2>6. Len(toGw') \in Nat /\ Len(toFn') \in Nat
    BY DEF ShapeInv
  <2>. QED BY <1>a, <2>1, <2>2, <2>5, <2>6 DEF LoadInv, Load
<1>. QED BY <1>1, <1>2, <1>3, <1>4, <1>5, <1>6, <1>7 DEF GatewayStep

\* MatchInv is kept by the steps of the gateway and of the SDK.
LEMMA NextMatch ==
    ASSUME ShapeInv, StartInv, Exchange,
           \/ \E c \in Callers : InvokeBegin(c) \/ Refuse(c) \/ InvokeEnd(c)
           \/ \E x \in All : GatewayStep(x)
           \/ CloseBegin \/ FnReadHead \/ FnReadBody \/ HandleInvoke \/ FnWriteHead \/ FnWriteBody
    PROVE  MatchInv'
<1>. USE DEF startVars, fnVars, wireVars, callVars, Exchange
<1>b. /\ toFn \in Seq(FnHalves) /\ toGw \in Seq(Halves) /\ Callers \subseteq All /\ Closer \in All
      /\ Closer \notin Callers /\ None \notin Callers
  BY FuncProcessAssumption DEF ShapeInv, All
<1>c. /\ gw \in [All -> {"idle", "sendHead", "sendBody", "answered", "broken", "refused"} \cup Reading]
      /\ got \in [All -> Frames \cup {None}] /\ lock \in Callers \cup {None}
  BY DEF ShapeInv
<1>d. Len(toFn) \in Nat /\ Len(toGw) \in Nat
  BY <1>b
<1>1. ASSUME NEW c \in Callers, InvokeBegin(c) PROVE MatchInv'
  <2>1. /\ UNCHANGED <<toGw, toFn, proc, fn, cur, got>> /\ lock = None /\ lock' = c
        /\ gw'[c] = "sendHead" /\ closing = "no" /\ start = "ready" /\ \A y \in All \ {c} : gw'[y] = gw[y]
    BY <1>1, <1>b, <1>c DEF InvokeBegin, MayInvoke, At
  <2>2. toGw = <<>> /\ (proc = "running" => fn \in Between /\ toFn = <<>>)
    BY <2>1 DEF QuietInv
  <2>3. Len(toGw) = 0 /\ (proc = "running" => Len(toFn) = 0 /\ fn \notin Busy)
    BY <2>2 DEF Between, Busy
  <2>4. \A y \in Callers : gw[y] \notin {"sendHead", "sendBody"} \cup Reading
    BY <1>b, <2>1 DEF MatchInv
  <2>5. \A i \in 1..Len(toGw') : FALSE
    BY <2>1, <2>3
  <2>6. proc' = "running" => (\A i \in 1..Len(toFn') : FALSE) /\ fn' \notin Busy
    BY <2>1, <2>3
  <2>7. \A y \in Callers : gw'[y] = "answered" => Mine(got'[y], y)
    BY <1>b, <2>1 DEF MatchInv, Mine
  <2>. QED BY <1>b, <2>1, <2>4, <2>5, <2>6, <2>7 DEF MatchInv
<1>2. ASSUME NEW c \in Callers, InvokeEnd(c) PROVE MatchInv'
  <2>1. UNCHANGED <<gw, got>> /\ lock' = None /\ lock = c /\ gw[c] \in {"answered", "broken", "refused"}
    BY <1>2 DEF InvokeEnd
  <2>. QED BY <1>b, <2>1 DEF MatchInv, Mine, Reading
<1>8. ASSUME NEW c \in Callers, Refuse(c) PROVE MatchInv'
  <2>1. /\ UNCHANGED <<toGw, toFn, proc, fn, cur, lock, got>> /\ gw'[c] = "refused"
        /\ \A y \in All \ {c} : gw'[y] = gw[y]
    BY <1>8, <1>b, <1>c DEF Refuse, At
  <2>2. \A y \in Callers : y = c \/ gw'[y] = gw[y]
    BY <1>b, <2>1
  <2>3. "refused" \notin {"sendHead", "sendBody", "idle", "answered"} \cup Reading
    BY DEF Reading
  <2>4. lock' # None => gw'[lock'] # "idle"
    BY <1>b, <1>c, <2>1, <2>2, <2>3 DEF MatchInv
  <2>. QED BY <1>b, <1>c, <2>1, <2>2, <2>3, <2>4 DEF MatchInv, Mine
<1>3. CASE CloseBegin
  <2>1. UNCHANGED <<toGw, toFn, proc, fn, cur, lock, got>> /\ \A c \in Callers : gw'[c] = gw[c]
    BY <1>3, <1>b, <1>c DEF CloseBegin, At
  <2>. QED BY <1>b, <1>c, <2>1 DEF MatchInv, Mine
<1>4. ASSUME NEW x \in All, NEW part \in {"head", "body"}, NEW from \in {"sendHead", "sendBody"},
             NEW to \in {"sendBody", "readHead"}, WriteHalf(x, part, from, to)
      PROVE  MatchInv'
  <2>1. /\ UNCHANGED <<toGw, proc, fn, cur, lock, got>> /\ gw[x] \in {"sendHead", "sendBody"}
        /\ gw'[x] \in {to, "readHead", "broken"} /\ \A y \in All \ {x} : gw'[y] = gw[y]
        /\ toFn' = toFn \/ toFn' = Append(toFn, Half(part, Sent(x)))
    BY <1>4, <1>c DEF WriteHalf, At
  <2>2. x \in Callers => lock = x
    BY <2>1 DEF MatchInv
  <2>3. lock # None => Mine(Sent(x), lock)
    BY <2>2, RequestFacts DEF Mine, All
  <2>4. Half(part, Sent(x)).frame = Sent(x) /\ Half(part, Sent(x)) \in FnHalves
    BY RequestFacts DEF Half, FnHalves
  <2>5. \A i \in 1..Len(toFn') : toFn'[i].frame = Sent(x) \/ (i \in 1..Len(toFn) /\ toFn'[i] = toFn[i])
    BY <1>b, <1>d, <2>1, <2>4, AppendFacts
  <2>6. lock # None /\ proc = "running" => \A i \in 1..Len(toFn') : Mine(toFn'[i].frame, lock)
    BY <2>3, <2>5 DEF MatchInv
  <2>7. \A c \in Callers : /\ gw'[c] \in {"sendHead", "sendBody"} \cup Reading => lock = c
                           /\ gw'[c] = "answered" => Mine(got'[c], c)
    BY <1>b, <2>1, <2>2 DEF MatchInv, Mine
  <2>8. lock # None => gw'[lock] # "idle"
    BY <1>b, <1>c, <2>1 DEF MatchInv
  <2>9. lock # None => \A i \in 1..Len(toGw') : Mine(toGw'[i].frame, lock)
    BY <2>1 DEF MatchInv
  <2>10. lock # None /\ proc = "running" /\ fn' \in Busy => Mine(cur', lock)
    BY <2>1 DEF MatchInv
  <2>. QED BY <2>1, <2>6, <2>7, <2>8, <2>9, <2>10 DEF MatchInv
<1>5. ASSUME NEW x \in All, ReadHead(x) \/ ReadBody(x) \/ ReadRest(x) \/ ReadFails(x) PROVE MatchInv'
  <2>1. /\ UNCHANGED <<toFn, proc, fn, cur, lock>> /\ gw[x] \in Reading
        /\ gw'[x] \in {"readBody", "readRest", "answered", "broken"} /\ \A y \in All \ {x} : gw'[y] = gw[y]
        /\ \A y \in All \ {x} : got'[y] = got[y]
        /\ gw'[x] = "answered" => toGw # <<>> /\ got'[x] = Head(toGw).frame
    BY <1>5, <1>c DEF ReadHead, ReadBody, ReadRest, ReadFails, At, Reading
  <2>2. \A i \in 1..Len(toGw') : \E j \in 1..Len(toGw) : toGw'[i].frame = toGw[j].frame
    <3>1. toGw' = toGw \/ (toGw # <<>> /\ toGw' \in {Bitten(toGw), Tail(toGw)})
      BY <1>5 DEF ReadHead, ReadBody, ReadRest, ReadFails
    <3>2. CASE toGw # <<>> /\ toGw' = Bitten(toGw)
      BY <1>b, <3>2, BittenFacts
    <3>3. CASE toGw # <<>> /\ toGw' = Tail(toGw)
      BY <1>b, <1>d, <3>3, TailFacts
    <3>. QED BY <3>1, <3>2, <3>3
  <2>3. x \in Callers => lock = x
    BY <2>1 DEF MatchInv
  <2>4. lock # None => \A i \in 1..Len(toGw') : Mine(toGw'[i].frame, lock)
    BY <2>2 DEF MatchInv
  <2>5. x \in Callers /\ gw'[x] = "answered" => Mine(got'[x], x)
    <3>1. toGw # <<>> => 1 \in 1..Len(toGw) /\ Head(toGw) = toGw[1]
      BY <1>b, TailFacts
    <3>2. x \in Callers => lock # None
      BY <1>b, <2>3
    <3>. QED BY <2>1, <2>3, <3>1, <3>2 DEF MatchInv
  <2>6. \A c \in Callers : /\ gw'[c] \in {"sendHead", "sendBody"} \cup Reading => lock = c
                           /\ gw'[c] = "answered" => Mine(got'[c], c)
    <3>1. ASSUME NEW c \in Callers, c # x
          PROVE  /\ gw'[c] \in {"sendHead", "sendBody"} \cup Reading => lock = c
                 /\ gw'[c] = "answered" => Mine(got'[c], c)
      BY <1>b, <2>1, <3>1 DEF MatchInv, Mine
    <3>. QED BY <2>3, <2>5, <3>1
  <2>7. lock # None => gw'[lock] # "idle"
    BY <1>b, <1>c, <2>1 DEF MatchInv
  <2>8. lock # None /\ proc = "running" =>
           /\ \A i \in 1..Len(toFn') : Mine(toFn'[i].frame, lock)
           /\ fn' \in Busy => Mine(cur', lock)
    BY <2>1 DEF MatchInv
  <2>. QED BY <2>1, <2>4, <2>6, <2>7, <2>8 DEF MatchInv
<1>6. CASE FnReadHead \/ FnReadBody \/ HandleInvoke \/ FnWriteHead \/ FnWriteBody
  <2>1. UNCHANGED <<lock, gw, got, closing>> /\ proc = "running"
    BY <1>6 DEF FnReadHead, FnReadBody, HandleInvoke, FnWriteHead, FnWriteBody
  <2>2. SUFFICES ASSUME lock # None
                 PROVE  /\ \A i \in 1..Len(toGw') : Mine(toGw'[i].frame, lock)
                        /\ proc' = "running" =>
                              /\ \A i \in 1..Len(toFn') : Mine(toFn'[i].frame, lock)
                              /\ fn' \in Busy => Mine(cur', lock)
    <3>1. \A c \in Callers : gw[c] = "answered" => Mine(got'[c], c)
      BY <2>1 DEF MatchInv, Mine
    <3>. QED BY <2>1, <2>2, <3>1 DEF MatchInv
  <2>3. /\ \A i \in 1..Len(toGw) : Mine(toGw[i].frame, lock)
        /\ \A i \in 1..Len(toFn) : Mine(toFn[i].frame, lock)
        /\ fn \in Busy => Mine(cur, lock)
    BY <2>1, <2>2 DEF MatchInv
  <2>4. toFn # <<>> => /\ 1 \in 1..Len(toFn) /\ Head(toFn) = toFn[1]
                       /\ \A i \in 1..Len(Tail(toFn)) : i + 1 \in 1..Len(toFn) /\ Tail(toFn)[i] = toFn[i + 1]
    BY <1>b, <1>d, TailFacts
  <2>5. toFn # <<>> => /\ Mine(Head(toFn).frame, lock)
                       /\ \A i \in 1..Len(Tail(toFn)) : Mine(Tail(toFn)[i].frame, lock)
    BY <2>3, <2>4
  <2>6. ASSUME NEW h \in Halves, Mine(h.frame, lock)
        PROVE  \A i \in 1..Len(Append(toGw, h)) : Mine(Append(toGw, h)[i].frame, lock)
    <3>1. \A i \in 1..Len(Append(toGw, h)) : i \in 1..Len(toGw) \/ i = Len(toGw) + 1
      BY <1>b, <1>d, AppendFacts
    <3>. QED BY <1>b, <2>3, <2>6, <3>1, AppendFacts
  <2>7. CASE FnReadHead
    BY <2>3, <2>5, <2>7 DEF FnReadHead
  <2>8. CASE FnReadBody
    <3>1. fn \in Busy /\ cur \in Frames
      BY <2>8, RequestFacts DEF FnReadBody, Busy, ShapeInv
    <3>2. Mine([cur EXCEPT !.type = "shutdown_ok"], lock)
      BY <3>1, RetypeFacts DEF Mine
    <3>. QED BY <2>3, <2>5, <2>8, <3>1, <3>2 DEF FnReadBody
  <2>9. CASE HandleInvoke
    <3>1. fn \in Busy /\ cur \in Frames /\ cur.type = "invoke"
      BY <2>9, RequestFacts DEF HandleInvoke, Busy, ShapeInv
    <3>2. \A t \in HandlerReplies : Mine([cur EXCEPT !.type = t], lock)
      BY <2>3, <3>1, RetypeFacts DEF Mine, HandlerReplies
    <3>. QED BY <2>3, <2>9, <3>1, <3>2 DEF HandleInvoke
  <2>10. CASE FnWriteHead
    <3>1. fn \in Busy /\ cur \in Frames
      BY <2>10 DEF FnWriteHead, Busy, ShapeInv
    <3>2. Half("head", cur) \in Halves /\ Half("head", cur).frame = cur
      BY <3>1 DEF Half, Halves
    <3>. QED BY <2>3, <2>6, <2>10, <3>1, <3>2 DEF FnWriteHead
  <2>11. CASE FnWriteBody
    <3>1. fn \in Busy /\ cur \in Frames
      BY <2>11 DEF FnWriteBody, Busy, ShapeInv
    <3>2. Half("body", cur) \in Halves /\ Half("body", cur).frame = cur
      BY <3>1 DEF Half, Halves
    <3>. QED BY <2>3, <2>6, <2>11, <3>1, <3>2 DEF FnWriteBody
  <2>. QED BY <1>6, <2>7, <2>8, <2>9, <2>10, <2>11
<1>7. ASSUME NEW x \in All, WriteHead(x) \/ WriteBody(x) PROVE MatchInv'
  BY <1>4, <1>7 DEF WriteHead, WriteBody
<1>. QED BY <1>1, <1>2, <1>3, <1>5, <1>6, <1>7, <1>8 DEF GatewayStep

\* Sequences of up to two elements.
LEMMA Tuples ==
    ASSUME NEW a, NEW b
    PROVE  /\ Append(<<>>, a) = <<a>> /\ Append(<<a>>, b) = <<a, b>>
           /\ Head(<<a>>) = a /\ Tail(<<a>>) = <<>> /\ Head(<<a, b>>) = a /\ Tail(<<a, b>>) = <<b>>
           /\ <<a>> # <<>> /\ <<a, b>> # <<>>
<1>1. Append(<<>>, a) = <<a>>
  OBVIOUS
<1>2. Append(<<a>>, b) = <<a, b>>
  <2>. DEFINE S == {a, b}
              q == Append(<<a>>, b)
              t == <<a, b>>
  <2>1. <<a>> \in Seq(S) /\ Len(<<a>>) = 1 /\ <<a>>[1] = a
    OBVIOUS
  <2>2. q \in Seq(S) /\ Len(q) = 2 /\ q[1] = a /\ q[2] = b
    BY <2>1
  <2>3. t \in Seq(S) /\ Len(t) = 2 /\ t[1] = a /\ t[2] = b
    OBVIOUS
  <2>. HIDE DEF q, t
  <2>4. \A i \in 1..2 : q[i] = t[i]
    BY <2>2, <2>3
  <2>5. q = t
    BY <2>2, <2>3, <2>4, SeqEqual
  <2>. QED BY <2>5 DEF q, t
<1>3. Head(<<a>>) = a /\ Head(<<a, b>>) = a
  OBVIOUS
<1>4. Tail(<<a>>) = <<>>
  OBVIOUS
<1>5. Tail(<<a, b>>) = <<b>>
  OBVIOUS
<1>6. <<a>> # <<>> /\ <<a, b>> # <<>>
  OBVIOUS
<1>. QED BY <1>1, <1>2, <1>3, <1>4, <1>5, <1>6

\* The steps of the SDK keep the turns.
LEMMA TurnSteps ==
    ASSUME ShapeInv, NEW c \in Callers, NEW w, InTurn(Sent(c), w), cur' \in Frames \cup {None},
           w \notin {"readHead", "readBody"} => toGw = <<>>,
           FnReadHead \/ FnReadBody \/ HandleInvoke \/ FnWriteHead \/ FnWriteBody
    PROVE  /\ proc' = "running" /\ InTurn(Sent(c), w)'
           /\ \/ toGw' = toGw
              \/ w = "readHead" /\ toGw = <<>> /\ Len(toGw') = 1 /\ toGw'[1].part = "head"
              \/ w = "readHead" /\ Len(toGw) = 1 /\ Len(toGw') = 2 /\ toGw'[1] = toGw[1] /\ toGw'[2].part = "body"
              \/ w = "readBody" /\ toGw = <<>> /\ Len(toGw') = 1 /\ toGw'[1].part = "body"
<1>. USE DEF startVars, fnVars, wireVars, callVars
<1>. DEFINE s == Sent(c)
            h == Half("head", s)
            b == Half("body", s)
<1>a. toGw \in Seq(Halves) /\ Len(toGw) \in Nat /\ (toGw = <<>> => Len(toGw) = 0)
  BY DEF ShapeInv
<1>b. /\ h.part = "head" /\ h.frame = s /\ b.part = "body" /\ b.frame = s /\ s.type = "invoke"
      /\ s \in Requests /\ s \in Frames /\ Half("body", cur).part = "body" /\ Half("head", cur).part = "head"
  BY RequestFacts DEF Half, All
<1>c. /\ Head(<<h>>) = h /\ Tail(<<h>>) = <<>> /\ Head(<<h, b>>) = h /\ Tail(<<h, b>>) = <<b>>
      /\ Head(<<b>>) = b /\ Tail(<<b>>) = <<>> /\ <<h>> # <<>> /\ <<b>> # <<>>
  BY Tuples
<1>d. cur = s => Half("body", cur) = b
  OBVIOUS
<1>. HIDE DEF s, h, b
<1>1. CASE FnReadHead
  <2>1. fn \in Between /\ toFn # <<>> /\ fn # "body"
    BY <1>1 DEF FnReadHead, Between
  <2>2. /\ toGw = <<>>
        /\ (w = "sendBody" /\ toFn = <<h>>) \/ (w = "readHead" /\ toFn = <<h, b>>)
    BY <2>1 DEF InTurn, s, h, b, Between
  <2>3. proc' = "running" /\ fn' = "body" /\ cur' = s /\ toFn' = Tail(toFn) /\ toGw' = toGw
    BY <1>1, <1>b, <1>c, <2>2 DEF FnReadHead
  <2>4. \/ w = "sendBody" /\ toFn' = <<>>
        \/ w = "readHead" /\ toFn' = <<b>>
    BY <1>c, <2>2, <2>3
  <2>. QED BY <2>2, <2>3, <2>4 DEF InTurn, s, b
<1>2. CASE FnReadBody
  <2>1. w = "readHead" /\ toFn = <<b>> /\ cur = s /\ toGw = <<>>
    BY <1>2 DEF FnReadBody, InTurn, s, h, b, Between
  <2>2. proc' = "running" /\ fn' = "handle" /\ toFn' = <<>> /\ toGw' = toGw
    BY <1>2, <1>b, <1>c, <1>d, <2>1 DEF FnReadBody
  <2>. QED BY <2>1, <2>2 DEF InTurn
<1>3. CASE HandleInvoke
  <2>1. w = "readHead" /\ toFn = <<>> /\ toGw = <<>>
    BY <1>3 DEF HandleInvoke, InTurn, Between
  <2>2. UNCHANGED <<toFn, toGw, proc>> /\ proc = "running"
    BY <1>3 DEF HandleInvoke
  <2>3. fn' \in {"read", "hung"} \/ (fn' = "reply" /\ cur'.type \in Replies)
    <3>1. cur \in Frames
      BY <1>3, RequestFacts DEF HandleInvoke, ShapeInv
    <3>2. \A t \in HandlerReplies : [cur EXCEPT !.type = t].type \in Replies
      BY <3>1, RetypeFacts DEF HandlerReplies, Replies
    <3>. QED BY <1>3, <3>2 DEF HandleInvoke
  <2>. QED BY <1>a, <2>1, <2>2, <2>3 DEF InTurn
<1>4. CASE FnWriteHead
  <2>1. w = "readHead" /\ toFn = <<>> /\ toGw = <<>> /\ cur.type \in Replies /\ fn = "reply"
    BY <1>4 DEF FnWriteHead, InTurn, Between
  <2>2. /\ UNCHANGED <<toFn, proc, cur>> /\ proc = "running" /\ fn' = "replyBody"
        /\ Len(toGw') = 1 /\ toGw'[1] = Half("head", cur)
    <3>1. Half("head", cur) \in Halves
      BY <2>1 DEF Half, Halves, ShapeInv
    <3>. QED BY <1>4, <1>a, <2>1, <3>1, AppendFacts DEF FnWriteHead
  <2>. QED BY <1>b, <2>1, <2>2 DEF InTurn
<1>5. CASE FnWriteBody
  <2>1. /\ toFn = <<>> /\ cur.type \in Replies /\ fn = "replyBody"
        /\ (w = "readHead" /\ Len(toGw) = 1) \/ (w = "readBody" /\ toGw = <<>>)
    BY <1>5 DEF FnWriteBody, InTurn, Between
  <2>2. /\ UNCHANGED <<toFn, proc, cur>> /\ proc = "running" /\ fn' = "read"
        /\ Len(toGw') = Len(toGw) + 1 /\ toGw'[Len(toGw) + 1] = Half("body", cur)
        /\ \A i \in 1..Len(toGw) : toGw'[i] = toGw[i]
    <3>1. Half("body", cur) \in Halves
      BY <2>1 DEF Half, Halves, ShapeInv
    <3>. QED BY <1>5, <1>a, <2>1, <3>1, AppendFacts DEF FnWriteBody, Replies
  <2>3. CASE w = "readHead" /\ Len(toGw) = 1
    <3>1. Len(toGw') = 2 /\ toGw'[2] = Half("body", cur) /\ toGw'[1] = toGw[1]
      BY <2>2, <2>3
    <3>. QED BY <1>b, <2>1, <2>2, <2>3, <3>1 DEF InTurn
  <2>4. CASE w = "readBody" /\ toGw = <<>>
    <3>1. Len(toGw') = 1 /\ toGw'[1] = Half("body", cur)
      BY <1>a, <2>2, <2>4
    <3>. QED BY <1>b, <2>1, <2>2, <2>4, <3>1 DEF InTurn
  <2>. QED BY <2>1, <2>3, <2>4
<1>. QED BY <1>1, <1>2, <1>3, <1>4, <1>5

\* QuietInv is kept by the steps of the gateway and of the SDK.
LEMMA NextQuiet ==
    ASSUME ShapeInv, StartInv, Exchange, ShapeInv',
           \/ \E c \in Callers : InvokeBegin(c) \/ Refuse(c) \/ InvokeEnd(c)
           \/ \E x \in All : GatewayStep(x)
           \/ CloseBegin \/ FnReadHead \/ FnReadBody \/ HandleInvoke \/ FnWriteHead \/ FnWriteBody
    PROVE  QuietInv'
<1>. USE DEF startVars, fnVars, wireVars, callVars, Exchange
<1>a. SUFFICES ASSUME closing' = "no" PROVE QuietInv'
  BY DEF QuietInv
<1>b. /\ toFn \in Seq(FnHalves) /\ toGw \in Seq(Halves) /\ Callers \subseteq All /\ Closer \in All
      /\ Closer \notin Callers /\ None \notin Callers /\ Len(toFn) \in Nat /\ Len(toGw) \in Nat
  BY FuncProcessAssumption DEF ShapeInv, All
<1>c. /\ gw \in [All -> {"idle", "sendHead", "sendBody", "answered", "broken", "refused"} \cup Reading]
      /\ lock \in Callers \cup {None}
  BY DEF ShapeInv
<1>d. UNCHANGED <<start, closing, conn>> /\ closing = "no" /\ ~CloseBegin
  BY <1>a DEF InvokeBegin, Refuse, InvokeEnd, GatewayStep, WriteHead, WriteBody, WriteHalf, ReadHead, ReadBody, ReadRest,
     ReadFails, CloseBegin, FnReadHead, FnReadBody, HandleInvoke, FnWriteHead, FnWriteBody
<1>e. /\ gw[Closer] = "idle"
      /\ \A c \in Callers : gw[c] # "readRest" /\ (gw[c] = "broken" => proc # "running")
      /\ lock = None \/ gw[lock] \notin {"readHead", "readBody"} => toGw = <<>>
      /\ lock = None /\ start = "ready" /\ proc = "running" => fn \in Between /\ toFn = <<>>
      /\ lock # None =>
            /\ gw[lock] = "readHead" /\ toGw # <<>> =>
                  toGw[1].part = "head" /\ (Len(toGw) = 2 => toGw[2].part = "body")
            /\ gw[lock] = "readBody" /\ toGw # <<>> => toGw[1].part = "body" /\ Len(toGw) = 1
            /\ proc = "running" => InTurn(Sent(lock), gw[lock])
  BY <1>d DEF QuietInv
<1>f. Len(toGw) <= 2 /\ Len(toGw) \in Nat
  <2>1. Len(toFn) \in Nat /\ Pending \in Nat /\ Owed \in Nat /\ Left(Closer) \in Nat
    BY <1>b DEF Pending, Owed, Left
  <2>. QED BY <1>b, <1>d, <2>1 DEF LoadInv, Load
<1>1. ASSUME NEW c \in Callers, InvokeBegin(c) PROVE QuietInv'
  <2>1. /\ UNCHANGED <<toGw, toFn, proc, fn, cur>> /\ lock = None /\ lock' = c /\ start = "ready"
        /\ gw'[c] = "sendHead" /\ \A y \in All \ {c} : gw'[y] = gw[y]
    BY <1>1, <1>b, <1>c DEF InvokeBegin, MayInvoke, At
  <2>2. proc' = "running" => InTurn(Sent(lock), gw[lock])'
    BY <1>e, <2>1 DEF InTurn
  <2>. QED BY <1>b, <1>e, <2>1, <2>2 DEF QuietInv
<1>2. ASSUME NEW c \in Callers, InvokeEnd(c) PROVE QuietInv'
  <2>1. /\ UNCHANGED <<toGw, toFn, proc, fn, gw>> /\ lock' = None /\ lock = c /\ gw[c] \in {"answered", "broken", "refused"}
        /\ c # None
    BY <1>2, <1>b DEF InvokeEnd
  <2>2. toGw = <<>>
    BY <1>e, <2>1
  <2>3. proc = "running" => fn \in Between /\ toFn = <<>>
    BY <1>e, <2>1 DEF InTurn
  <2>. QED BY <1>e, <2>1, <2>2, <2>3 DEF QuietInv
<1>12. ASSUME NEW c \in Callers, Refuse(c) PROVE QuietInv'
  <2>1. /\ UNCHANGED <<toGw, toFn, proc, fn, cur, lock>> /\ gw[c] = "sendHead"
        /\ gw'[c] = "refused" /\ \A y \in All \ {c} : gw'[y] = gw[y]
    BY <1>12, <1>b, <1>c DEF Refuse, At
  <2>2. lock = c /\ c # None
    BY <1>b, <2>1 DEF MatchInv
  <2>3. toGw = <<>> /\ (proc = "running" => InTurn(Sent(c), "sendHead"))
    BY <1>e, <2>1, <2>2
  <2>4. proc' = "running" => InTurn(Sent(lock), gw[lock])'
    BY <2>1, <2>2, <2>3 DEF InTurn
  <2>5. (gw[Closer] = "idle")' /\ (\A y \in Callers : gw[y] # "readRest" /\ (gw[y] = "broken" => proc # "running"))'
    BY <1>b, <1>e, <2>1
  <2>. QED BY <2>1, <2>2, <2>3, <2>4, <2>5 DEF QuietInv
<1>3. ASSUME NEW x \in All, GatewayStep(x) PROVE x \in Callers /\ lock = x /\ x # None /\ conn
  <2>1. gw[x] \in {"sendHead", "sendBody"} \cup Reading
    BY <1>3 DEF GatewayStep, WriteHead, WriteBody, WriteHalf, ReadHead, ReadBody, ReadRest, ReadFails, Reading
  <2>2. x # Closer /\ start = "ready"
    BY <1>e, <2>1 DEF StartInv, Unused, Reading
  <2>. QED BY <1>b, <1>d, <2>1, <2>2 DEF MatchInv, StartInv, All
<1>4. ASSUME NEW x \in All, GatewayStep(x), UNCHANGED <<lock, proc, fn, cur>>, gw'[x] # "readRest",
             \A y \in All \ {x} : gw'[y] = gw[y], gw'[x] = "broken" => proc # "running",
             gw'[x] \notin {"readHead", "readBody"} => toGw' = <<>>,
             gw'[x] = "readHead" /\ toGw' # <<>> =>
                toGw'[1].part = "head" /\ (Len(toGw') = 2 => toGw'[2].part = "body"),
             gw'[x] = "readBody" /\ toGw' # <<>> => toGw'[1].part = "body" /\ Len(toGw') = 1,
             proc = "running" => InTurn(Sent(x), gw[x])'
      PROVE  QuietInv'
  <2>1. x \in Callers /\ lock = x /\ x # None /\ lock' = x /\ proc' = proc
    BY <1>3, <1>4
  <2>2. proc' = "running" => InTurn(Sent(lock), gw[lock])'
    BY <1>4, <2>1 DEF InTurn, Sent
  <2>3. (gw[Closer] = "idle")' /\ (\A c \in Callers : gw[c] # "readRest" /\ (gw[c] = "broken" => proc # "running"))'
    BY <1>b, <1>e, <1>4, <2>1
  <2>. QED BY <1>4, <2>1, <2>2, <2>3 DEF QuietInv
<1>5. ASSUME NEW x \in All, WriteHead(x) PROVE QuietInv'
  <2>1. /\ UNCHANGED <<toGw, proc, fn, cur, lock>> /\ gw[x] = "sendHead"
        /\ \A y \in All \ {x} : gw'[y] = gw[y]
        /\ \/ gw'[x] = "sendBody" /\ proc = "running" /\ toFn' = Append(toFn, Half("head", Sent(x)))
           \/ gw'[x] = "broken" /\ proc # "running"
    <3>1. GatewayStep(x)
      BY <1>5 DEF GatewayStep
    <3>. QED BY <1>5, <1>b, <1>c, <1>3, <3>1 DEF WriteHead, WriteHalf, At
  <2>2. toGw = <<>> /\ GatewayStep(x) /\ lock = x /\ x # None
    BY <1>5, <1>3, <1>e, <2>1 DEF GatewayStep
  <2>3. ASSUME proc = "running" PROVE InTurn(Sent(x), gw[x])'
    <3>1. InTurn(Sent(x), "sendHead")
      BY <1>e, <2>1, <2>2, <2>3
    <3>2. fn \in Between /\ toFn = <<>>
      BY <3>1 DEF InTurn
    <3>3. toFn' = <<Half("head", Sent(x))>>
      BY <2>1, <2>3, <3>2, Tuples
    <3>. QED BY <2>1, <2>3, <3>2, <3>3 DEF InTurn, Sent
  <2>. QED BY <1>4, <2>1, <2>2, <2>3
<1>6. ASSUME NEW x \in All, WriteBody(x) PROVE QuietInv'
  <2>1. /\ UNCHANGED <<toGw, proc, fn, cur, lock>> /\ gw[x] = "sendBody"
        /\ \A y \in All \ {x} : gw'[y] = gw[y]
        /\ \/ gw'[x] = "readHead" /\ proc = "running" /\ toFn' = Append(toFn, Half("body", Sent(x)))
           \/ gw'[x] = "broken" /\ proc # "running"
    <3>1. GatewayStep(x)
      BY <1>6 DEF GatewayStep
    <3>. QED BY <1>6, <1>b, <1>c, <1>3, <3>1 DEF WriteBody, WriteHalf, At
  <2>2. toGw = <<>> /\ GatewayStep(x) /\ lock = x /\ x # None
    BY <1>6, <1>3, <1>e, <2>1 DEF GatewayStep
  <2>3. ASSUME proc = "running" PROVE InTurn(Sent(x), gw[x])'
    <3>. DEFINE h == Half("head", Sent(x))
                b == Half("body", Sent(x))
    <3>1. InTurn(Sent(x), "sendBody")
      BY <1>e, <2>1, <2>2, <2>3
    <3>2. \/ fn \in Between /\ toFn = <<h>>
          \/ fn = "body" /\ cur = Sent(x) /\ toFn = <<>>
      BY <3>1 DEF InTurn
    <3>3. toFn' = Append(toFn, b)
      BY <2>1, <2>3
    <3>4. Append(<<h>>, b) = <<h, b>> /\ Append(<<>>, b) = <<b>>
      BY Tuples
    <3>5. \/ fn \in Between /\ toFn' = <<h, b>>
          \/ fn = "body" /\ cur = Sent(x) /\ toFn' = <<b>>
      BY <3>2, <3>3, <3>4
    <3>. QED BY <2>1, <2>2, <2>3, <3>5 DEF InTurn, Sent
  <2>. QED BY <1>4, <2>1, <2>2, <2>3
<1>7. ASSUME NEW x \in All, ReadHead(x) PROVE QuietInv'
  <2>1. GatewayStep(x) /\ lock = x /\ x # None /\ gw[x] = "readHead" /\ toGw # <<>>
    BY <1>7, <1>3 DEF GatewayStep, ReadHead
  <2>2. Head(toGw) = toGw[1] /\ toGw[1].part = "head" /\ Len(toGw) \in {1, 2}
    <3>1. Head(toGw) = toGw[1] /\ Len(toGw) >= 1
      BY <1>b, <2>1, TailFacts
    <3>2. Len(toGw) = 1 \/ Len(toGw) = 2
      <4>1. \A n \in Nat : n <= 2 /\ n >= 1 => n = 1 \/ n = 2
        OBVIOUS
      <4>. QED BY <1>f, <3>1, <4>1
    <3>. QED BY <1>e, <2>1, <3>1, <3>2
  <2>3. /\ UNCHANGED <<toFn, proc, fn, cur, lock>> /\ gw'[x] = "readBody" /\ \A y \in All \ {x} : gw'[y] = gw[y]
        /\ toGw' = Tail(toGw)
    BY <1>7, <1>b, <1>c, <2>1, <2>2, BittenFacts DEF ReadHead, At
  <2>4. \/ Len(toGw) = 1 /\ toGw' = <<>>
        \/ Len(toGw) = 2 /\ Len(toGw') = 1 /\ toGw'[1].part = "body"
    <3>1. Tail(toGw) \in Seq(Halves) /\ Len(Tail(toGw)) = Len(toGw) - 1 /\ (Len(toGw) = 2 => Tail(toGw)[1] = toGw[2])
      BY <1>b, <2>1, TailFacts
    <3>2. ASSUME Len(Tail(toGw)) = 0 PROVE Tail(toGw) = <<>>
      BY <3>1, <3>2, EmptySeq
    <3>. QED BY <1>e, <2>1, <2>2, <2>3, <3>1, <3>2
  <2>5. ASSUME proc = "running" PROVE InTurn(Sent(x), gw[x])'
    <3>1. InTurn(Sent(x), "readHead")
      BY <1>e, <2>1, <2>5
    <3>2. /\ toFn = <<>>
          /\ (fn = "replyBody" /\ cur.type \in Replies /\ Len(toGw) = 1) \/ (fn = "read" /\ Len(toGw) = 2)
      BY <2>1, <2>2, <3>1 DEF InTurn
    <3>. QED BY <2>3, <2>4, <3>2 DEF InTurn
  <2>. QED BY <1>4, <2>1, <2>3, <2>4, <2>5
<1>8. ASSUME NEW x \in All, ReadBody(x) PROVE QuietInv'
  <2>1. GatewayStep(x) /\ lock = x /\ x # None /\ gw[x] = "readBody" /\ toGw # <<>>
    BY <1>8, <1>3 DEF GatewayStep, ReadBody
  <2>2. Head(toGw) = toGw[1] /\ toGw[1].part = "body" /\ Len(toGw) = 1
    BY <1>b, <1>e, <2>1, TailFacts
  <2>3. /\ UNCHANGED <<toFn, proc, fn, cur, lock>> /\ gw'[x] = "answered" /\ \A y \in All \ {x} : gw'[y] = gw[y]
        /\ toGw' = Tail(toGw)
    BY <1>8, <1>b, <1>c, <2>2 DEF ReadBody, At
  <2>4. toGw' = <<>>
    <3>1. Tail(toGw) \in Seq(Halves) /\ Len(Tail(toGw)) = 0
      BY <1>b, <2>1, <2>2, TailFacts
    <3>. QED BY <2>3, <3>1
  <2>5. ASSUME proc = "running" PROVE InTurn(Sent(x), gw[x])'
    <3>1. InTurn(Sent(x), "readBody")
      BY <1>e, <2>1, <2>5
    <3>2. fn = "read" /\ toFn = <<>>
      BY <2>1, <3>1 DEF InTurn
    <3>. QED BY <2>3, <3>2 DEF InTurn, Between
  <2>. QED BY <1>4, <2>1, <2>3, <2>4, <2>5
<1>9. ASSUME NEW x \in All, ReadRest(x) PROVE FALSE
  BY <1>9, <1>3, <1>e DEF GatewayStep, ReadRest
<1>10. ASSUME NEW x \in All, ReadFails(x) PROVE QuietInv'
  <2>1. GatewayStep(x) /\ conn
    BY <1>10, <1>3 DEF GatewayStep
  <2>2. /\ UNCHANGED <<toFn, toGw, proc, fn, cur, lock>> /\ gw'[x] = "broken" /\ \A y \in All \ {x} : gw'[y] = gw[y]
        /\ toGw = <<>> /\ proc # "running"
    BY <1>10, <1>b, <1>c, <2>1 DEF ReadFails, EndOfStream, At
  <2>. QED BY <1>4, <2>1, <2>2
<1>11. CASE FnReadHead \/ FnReadBody \/ HandleInvoke \/ FnWriteHead \/ FnWriteBody
  <2>1. UNCHANGED <<lock, gw>> /\ proc = "running"
    BY <1>11 DEF FnReadHead, FnReadBody, HandleInvoke, FnWriteHead, FnWriteBody
  <2>2. start = "ready"
    BY <1>11 DEF FnReadHead, FnReadBody, HandleInvoke, FnWriteHead, FnWriteBody, StartInv, Unused
  <2>3. lock # None /\ lock \in Callers
    BY <1>11, <1>c, <1>e, <2>1, <2>2 DEF FnReadHead, FnReadBody, HandleInvoke, FnWriteHead, FnWriteBody, Between
  <2>4. PICK c \in Callers : c = lock
    BY <2>3
  <2>5. PICK w : w = gw[c]
    OBVIOUS
  <2>6. InTurn(Sent(c), w) /\ (w \notin {"readHead", "readBody"} => toGw = <<>>) /\ cur' \in Frames \cup {None}
    BY <1>e, <2>1, <2>3, <2>4, <2>5 DEF ShapeInv
  <2>7. /\ proc' = "running" /\ InTurn(Sent(c), w)'
        /\ \/ toGw' = toGw
           \/ w = "readHead" /\ toGw = <<>> /\ Len(toGw') = 1 /\ toGw'[1].part = "head"
           \/ w = "readHead" /\ Len(toGw) = 1 /\ Len(toGw') = 2 /\ toGw'[1] = toGw[1] /\ toGw'[2].part = "body"
           \/ w = "readBody" /\ toGw = <<>> /\ Len(toGw') = 1 /\ toGw'[1].part = "body"
    BY <1>11, <2>6, TurnSteps
  <2>8. InTurn(Sent(lock), gw[lock])'
    BY <2>1, <2>4, <2>5, <2>7 DEF InTurn, Sent
  <2>9. /\ w \notin {"readHead", "readBody"} => toGw' = <<>>
        /\ w = "readHead" /\ toGw' # <<>> => toGw'[1].part = "head" /\ (Len(toGw') = 2 => toGw'[2].part = "body")
        /\ w = "readBody" /\ toGw' # <<>> => toGw'[1].part = "body" /\ Len(toGw') = 1
    <3>1. Len(toGw) = 1 => toGw # <<>>
      OBVIOUS
    <3>. QED BY <1>e, <2>3, <2>4, <2>5, <2>6, <2>7, <3>1
  <2>. QED BY <1>e, <2>1, <2>3, <2>4, <2>5, <2>7, <2>8, <2>9 DEF QuietInv
<1>. QED BY <1>1, <1>2, <1>5, <1>6, <1>7, <1>8, <1>9, <1>10, <1>11, <1>12, <1>d DEF GatewayStep
-----------------------------------------------------------------------------
\* A new instance.
LEMMA InitInv == Init => FuncProcessInv
<1>. SUFFICES ASSUME Init PROVE FuncProcessInv
  OBVIOUS
<1>1. ShapeInv
  <2>1. FlagsOK
    BY Zenon DEF Init, FlagsOK
  <2>. QED BY <2>1 DEF Init, ShapeInv, All, Between, Busy
<1>2. Unused
  BY DEF Init, Unused, All
<1>3. StartInv
  BY <1>2 DEF Init, StartInv
<1>4. RootInv
  BY Zenon DEF Init, RootInv
<1>. QED BY <1>1, <1>2, <1>3, <1>4, UnusedNow DEF FuncProcessInv, Exchange

\* Every step keeps the invariant.
LEMMA NextInv == FuncProcessInv /\ [Next]_vars => FuncProcessInv'
<1>. SUFFICES ASSUME FuncProcessInv, [Next]_vars PROVE FuncProcessInv'
  OBVIOUS
<1>1. ShapeInv /\ StartInv /\ Exchange
  BY DEF FuncProcessInv, Exchange
<1>2. ShapeInv' /\ StartInv' /\ RootInv'
  BY <1>1, NextShape, NextStart, NextRoot DEF FuncProcessInv
<1>3. CASE StartStep \/ DialTimeout \/ Dial
  <2>1. Unused'
    BY <1>1, <1>3, StartSteps
  <2>. QED BY <1>2, <2>1, UnusedNext DEF FuncProcessInv, Exchange
<1>4. CASE Die \/ CloseStep \/ UNCHANGED vars
  <2>1. Exchange'
    BY <1>1, <1>4, EndSteps
  <2>. QED BY <1>2, <2>1 DEF FuncProcessInv, Exchange
<1>5. CASE \/ \E c \in Callers : InvokeBegin(c) \/ Refuse(c) \/ InvokeEnd(c)
           \/ \E x \in All : GatewayStep(x)
           \/ CloseBegin \/ FnReadHead \/ FnReadBody \/ HandleInvoke \/ FnWriteHead \/ FnWriteBody
  <2>1. LoadInv'
    BY <1>1, <1>2, <1>5, NextLoad
  <2>2. MatchInv'
    BY <1>1, <1>5, NextMatch
  <2>3. QuietInv'
    BY <1>1, <1>2, <1>5, NextQuiet
  <2>. QED BY <1>2, <2>1, <2>2, <2>3 DEF FuncProcessInv
<1>. QED BY <1>3, <1>4, <1>5 DEF Next, FnStep, All

\* The invariant of spawn, wire and the SDK's loop holds throughout.
THEOREM FuncProcessInvariant == Spec => []FuncProcessInv
BY InitInv, NextInv, PTL DEF Spec

\* Types are kept, and never more than two frames are under way in either
\* direction, for any number of callers, although Close takes no lock.
THEOREM FuncProcessTypeCorrect == Spec => []TypeOK
<1>1. FuncProcessInv => TypeOK
  <2>. SUFFICES ASSUME FuncProcessInv PROVE TypeOK
    OBVIOUS
  <2>1. Len(toGw) <= 4 /\ Len(toFn) <= 4
    <3>1. Len(toGw) \in Nat /\ Len(toFn) \in Nat /\ Pending \in Nat /\ Owed \in Nat /\ Left(Closer) \in Nat
      BY DEF FuncProcessInv, ShapeInv, Pending, Owed, Left
    <3>. QED BY <3>1 DEF FuncProcessInv, LoadInv, Load
  <2>2. {listening, sockDir, bundle, rootfs, conn} \subseteq BOOLEAN
    BY Zenon DEF FuncProcessInv, ShapeInv, FlagsOK
  <2>3. toFn \in Seq(Halves)
    <3>1. FnHalves \subseteq Halves
      BY RequestFacts DEF FnHalves, Halves
    <3>. QED BY <3>1 DEF FuncProcessInv, ShapeInv
  <2>. QED BY <2>1, <2>2, <2>3 DEF FuncProcessInv, ShapeInv, TypeOK, Between, Busy, All
<1>. QED BY FuncProcessInvariant, <1>1, PTL

\* Whichever step of a Start failed, and whether or not a connection raced in,
\* nothing it started runs or listens, socket and bundle directories are gone,
\* a container is deleted; a killed host process is left to be waited for.
THEOREM FailedStartCleansUpHolds == Spec => []FailedStartCleansUp
<1>1. FuncProcessInv => FailedStartCleansUp
  <2>. SUFFICES ASSUME FuncProcessInv, start = "failed" PROVE FailedStartCleansUp
    BY DEF FailedStartCleansUp
  <2>1. /\ proc \in IF mode = "runc" THEN {"none", "reaped"} ELSE {"none", "exited"}
        /\ ~listening /\ ~sockDir /\ ~bundle /\ accept # "sent"
    BY DEF FuncProcessInv, StartInv
  <2>2. rootfs => mode = "runc"
    BY DEF FuncProcessInv, RootInv
  <2>. QED BY <2>1, <2>2, Zenon DEF FailedStartCleansUp
<1>. QED BY FuncProcessInvariant, <1>1, PTL

\* A client is given the answer to its own request or an error, for any
\* number of callers and while Close reads and writes on the same connection;
\* until Close, only the end of the process breaks off an Invoke that has
\* begun to write; one that is refused before leaves the frames in step.
THEOREM OwnReplyHolds == Spec => []OwnReply
<1>1. FuncProcessInv => OwnReply
  <2>. SUFFICES ASSUME FuncProcessInv, NEW c \in Callers
                PROVE  /\ gw[c] = "answered" /\ Status(c) # 502 => got[c].id = c
                       /\ gw[c] = "broken" /\ proc = "running" => closing # "no"
    BY DEF OwnReply
  <2>1. gw[c] = "broken" /\ proc = "running" => closing # "no"
    BY DEF FuncProcessInv, QuietInv
  <2>2. ASSUME gw[c] = "answered", Status(c) # 502 PROVE got[c].id = c
    <3>1. got[c].type \in {"result", "error"}
      BY <2>2 DEF Status
    <3>2. Mine(got[c], c)
      BY <2>2 DEF FuncProcessInv, MatchInv
    <3>. QED BY <3>1, <3>2 DEF Mine
  <2>. QED BY <2>1, <2>2
<1>. QED BY FuncProcessInvariant, <1>1, PTL

\* What Close has undone, by how far it is: the process is waited for before
\* the bundle goes, and the socket's directory goes last.
ClosedLeavesNothing ==
    /\ closing \in {"cleanup", "done"} => start = "ready" /\ proc = "reaped" /\ ~bundle
    /\ closing = "done" => ~sockDir /\ ~listening /\ ~conn

\* Nothing brings back what Close has undone: the steps of Start are over, and
\* the process, its callers and the drain no longer touch it.
LEMMA NextClosed == FuncProcessInv /\ ClosedLeavesNothing /\ [Next]_vars => ClosedLeavesNothing'
<1>. SUFFICES ASSUME FuncProcessInv, ClosedLeavesNothing, [Next]_vars PROVE ClosedLeavesNothing'
  OBVIOUS
<1>1. start # "ready" => closing = "no"
  BY DEF FuncProcessInv, StartInv, Unused
<1>2. CASE StartStep \/ DialTimeout
  <2>1. \/ UNCHANGED closing /\ start # "ready"
        \/ UNCHANGED <<closing, start, listening, sockDir, bundle, proc, conn>>
    BY <1>2 DEF StartStep, MakeSocket, Launch, Accepted, Deliver, Ready, AcceptFails, CleanUpStart,
                DrainRaced, DialTimeout, fnVars
  <2>. QED BY <1>1, <2>1 DEF ClosedLeavesNothing
<1>3. CASE CloseBegin \/ CloseStep
  BY <1>1, <1>3 DEF CloseBegin, CloseStep, CloseStop, CloseWait, CloseFinish, ClosedLeavesNothing,
                    startVars, fnVars
<1>4. CASE \/ UNCHANGED vars \/ \E c \in Callers : InvokeBegin(c) \/ Refuse(c) \/ InvokeEnd(c)
           \/ \E x \in All : GatewayStep(x)
  <2>1. UNCHANGED <<closing, start, listening, sockDir, bundle, proc, conn>>
    BY <1>4 DEF vars, startVars, fnVars, InvokeBegin, Refuse, InvokeEnd, GatewayStep, WriteHead, WriteBody,
                WriteHalf, ReadHead, ReadBody, ReadRest, ReadFails
  <2>. QED BY <2>1 DEF ClosedLeavesNothing
<1>5. CASE FnStep \/ Die
  <2>1. /\ proc = "running"
        /\ UNCHANGED <<closing, start, listening, sockDir, bundle, conn>>
    BY <1>5 DEF FnStep, Dial, FnReadHead, FnReadBody, HandleInvoke, FnWriteHead, FnWriteBody, Die, startVars
  <2>. QED BY <2>1 DEF ClosedLeavesNothing
<1>. QED BY <1>2, <1>3, <1>4, <1>5 DEF Next, All

\* Whatever the handler, its callers and the drain goroutine do meanwhile, the
\* process is reaped and the bundle gone before Close goes on to the socket,
\* and when it returns the socket's directory, listener and connection are gone too: the
\* safety part of CloseCompletes.
THEOREM ClosedLeavesNothingHolds == Spec => []ClosedLeavesNothing
<1>1. Init => ClosedLeavesNothing
  BY DEF Init, ClosedLeavesNothing
<1>. QED BY FuncProcessInvariant, NextClosed, <1>1, PTL DEF Spec
=============================================================================
