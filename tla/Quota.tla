-------------------------------- MODULE Quota --------------------------------
(***************************************************************************)
(* The approximate rate limiter of internal/quota: every gateway admits    *)
(* requests against its local counter plus the cluster aggregate it last   *)
(* saw (Limiter.Allow), and a background flush moves the counter into the  *)
(* shared store and refreshes limit and aggregate (Limiter.flush).  One    *)
(* project and one kind; projects and kinds do not interact.               *)
(***************************************************************************)
EXTENDS Integers, FiniteSets, FiniteSetsExt

CONSTANTS
    Gateways,   \* replicas, one Limiter each
    Callers,    \* request goroutines in Allow
    GatewayOf,  \* the gateway each caller runs on
    Limit,      \* the configured requests_per_min
    MaxMinute,  \* minutes that the model lets pass
    MaxTotal,   \* admissions per gateway that the model explores
    Unsynced,   \* gateways whose limiter has not flushed yet
    Faults      \* which store calls may fail: subset of {"push", "refresh"}

ASSUME QuotaAssumption ==
    /\ IsFiniteSet(Gateways)
    /\ GatewayOf \in [Callers -> Gateways]
    /\ Limit \in Nat \ {0}
    /\ MaxMinute \in Nat
    /\ MaxTotal \in Nat
    /\ Unsynced \subseteq Gateways
    /\ Faults \subseteq {"push", "refresh"}

VARIABLES
    minute,                   \* now().Truncate(time.Minute)
    usage,                    \* cfunc_quota_usage: bucket -> count
    local, remote, limits,    \* the Limiter's maps
    cpc, climit, cremote,     \* Allow: phase, and what it read under mu
    fpc, bucket, delta, seen, \* flush: phase and its variables
    admitted, total,          \* history: admissions this minute, and ever
    misdated,                 \* history: of this minute, flushed to an earlier one
    passed,                   \* history: callers that a second flush has overtaken
    overtaken,                \* history: of this minute, admitted to such callers
    lost,                     \* history: admissions whose push failed
    impaired                  \* history: what went wrong: "blind", "push", "refresh"

callVars  == <<cpc, climit, cremote>>
flushVars == <<fpc, bucket, delta, seen>>
histVars  == <<admitted, total, misdated, passed, overtaken, lost, impaired>>
quotaVars == <<minute, usage, local, remote, limits, callVars, flushVars, histVars>>

Minutes == 0..MaxMinute

QuotaInit ==
    /\ minute = 0
    /\ usage = [m \in Minutes |-> 0]
    /\ local = [g \in Gateways |-> 0]
    /\ remote = [g \in Gateways |-> 0]
    /\ limits = [g \in Gateways |-> IF g \in Unsynced THEN 0 ELSE Limit]
    /\ cpc = [c \in Callers |-> "idle"]
    /\ climit = [c \in Callers |-> 0]
    /\ cremote = [c \in Callers |-> 0]
    /\ fpc = [g \in Gateways |-> "idle"]
    /\ bucket = [g \in Gateways |-> 0]
    /\ delta = [g \in Gateways |-> 0]
    /\ seen = [g \in Gateways |-> 0]
    /\ admitted = [g \in Gateways |-> 0]
    /\ total = [g \in Gateways |-> 0]
    /\ misdated = [g \in Gateways |-> 0]
    /\ passed = {}
    /\ overtaken = [g \in Gateways |-> 0]
    /\ lost = [g \in Gateways |-> 0]
    /\ impaired = [g \in Gateways |-> {}]

(***************************************************************************)
(* Allow                                                                   *)
(***************************************************************************)
\* The section under l.mu.
ReadLimits(c) ==
    LET g == GatewayOf[c] IN
    /\ cpc[c] = "idle"
    /\ total[g] < MaxTotal
    /\ cpc' = [cpc EXCEPT ![c] = "decide"]
    /\ climit' = [climit EXCEPT ![c] = limits[g]]
    /\ cremote' = [cremote EXCEPT ![c] = remote[g]]
    /\ passed' = passed \ {c}
    /\ UNCHANGED <<minute, usage, local, remote, limits, flushVars,
                   admitted, total, misdated, overtaken, lost, impaired>>

\* atomic.AddInt64, or the CompareAndSwap that succeeded.
Count(c) ==
    LET g == GatewayOf[c] IN
    /\ local' = [local EXCEPT ![g] = @ + 1]
    /\ admitted' = [admitted EXCEPT ![g] = @ + 1]
    /\ total' = [total EXCEPT ![g] = @ + 1]
    /\ overtaken' = [overtaken EXCEPT ![g] = IF c \in passed THEN @ + 1 ELSE @]
    /\ cpc' = [cpc EXCEPT ![c] = "idle"]
    /\ UNCHANGED <<minute, usage, remote, limits, climit, cremote, flushVars, misdated, passed, lost>>

\* limit <= 0: no limit is known.
AdmitUnlimited(c) ==
    /\ cpc[c] = "decide"
    /\ climit[c] <= 0
    /\ Count(c)
    /\ impaired' = [impaired EXCEPT ![GatewayOf[c]] = @ \cup {"blind"}]

\* Faulty variant: off by one at the limit.
AdmitOneMore(c) ==
    /\ cpc[c] = "decide"
    /\ climit[c] > 0
    /\ cremote[c] + local[GatewayOf[c]] <= climit[c]
    /\ Count(c)
    /\ UNCHANGED impaired

\* The CAS loop: one atomic decision on the current counter, but on the
\* limit and the aggregate that were read before.
Admit(c) ==
    /\ cpc[c] = "decide"
    /\ climit[c] > 0
    /\ cremote[c] + local[GatewayOf[c]] + 1 <= climit[c]
    /\ Count(c)
    /\ UNCHANGED impaired

Deny(c) ==
    /\ cpc[c] = "decide"
    /\ climit[c] > 0
    /\ cremote[c] + local[GatewayOf[c]] + 1 > climit[c]
    /\ cpc' = [cpc EXCEPT ![c] = "idle"]
    /\ UNCHANGED <<minute, usage, local, remote, limits, climit, cremote, flushVars, histVars>>

(***************************************************************************)
(* flush                                                                   *)
(***************************************************************************)
\* History: calls under way that have read an older aggregate than the one
\* published last.
Behind(g) == {c \in Callers : GatewayOf[c] = g /\ cpc[c] = "decide" /\ cremote[c] # remote[g]}

\* The ticker fires, or Close flushes: bucket := now().Truncate(time.Minute).
FlushBegin(g) ==
    /\ fpc[g] = "idle"
    /\ bucket' = [bucket EXCEPT ![g] = minute]
    /\ fpc' = [fpc EXCEPT ![g] = "swap"]
    /\ passed' = passed \cup Behind(g)
    /\ UNCHANGED <<minute, usage, local, remote, limits, callVars, delta, seen,
                   admitted, total, misdated, overtaken, lost, impaired>>

\* Faulty variant: the counter is read here and overwritten by a later store
\* of zero, so that admissions in between vanish.
FlushSwapLossy(g) ==
    /\ fpc[g] = "swap"
    /\ \E d \in 0..local[g] : delta' = [delta EXCEPT ![g] = d]
    /\ local' = [local EXCEPT ![g] = 0]
    /\ misdated' = [misdated EXCEPT ![g] = IF bucket[g] = minute THEN @ ELSE admitted[g]]
    /\ fpc' = [fpc EXCEPT ![g] = "push"]
    /\ UNCHANGED <<minute, usage, remote, limits, callVars, bucket, seen, admitted,
                   total, passed, overtaken, lost, impaired>>

\* atomic.SwapInt64(cnt, 0)
FlushSwap(g) ==
    /\ fpc[g] = "swap"
    /\ delta' = [delta EXCEPT ![g] = local[g]]
    /\ local' = [local EXCEPT ![g] = 0]
    /\ misdated' = [misdated EXCEPT ![g] = IF bucket[g] = minute THEN @ ELSE admitted[g]]
    /\ fpc' = [fpc EXCEPT ![g] = "push"]
    /\ UNCHANGED <<minute, usage, remote, limits, callVars, bucket, seen, admitted,
                   total, passed, overtaken, lost, impaired>>

\* AddQuotaUsage
FlushPush(g) ==
    /\ fpc[g] = "push"
    /\ usage' = [usage EXCEPT ![bucket[g]] = @ + delta[g]]
    /\ delta' = [delta EXCEPT ![g] = 0]
    /\ fpc' = [fpc EXCEPT ![g] = "limits"]
    /\ UNCHANGED <<minute, local, remote, limits, callVars, bucket, seen, histVars>>

\* AddQuotaUsage fails; the error is ignored and the swapped count is gone.
FlushPushFails(g) ==
    /\ "push" \in Faults
    /\ fpc[g] = "push"
    /\ delta' = [delta EXCEPT ![g] = 0]
    /\ lost' = [lost EXCEPT ![g] = @ + delta[g]]
    /\ impaired' = [impaired EXCEPT ![g] = @ \cup {"push"}]
    /\ fpc' = [fpc EXCEPT ![g] = "limits"]
    /\ UNCHANGED <<minute, usage, local, remote, limits, callVars, bucket, seen, admitted,
                   total, misdated, passed, overtaken>>

\* ListProjects, ListQuotas, and the new limits under l.mu.
FlushLimits(g) ==
    /\ fpc[g] = "limits"
    /\ limits' = [limits EXCEPT ![g] = Limit]
    /\ fpc' = [fpc EXCEPT ![g] = "usage"]
    /\ UNCHANGED <<minute, usage, local, remote, callVars, bucket, delta, seen, histVars>>

\* GetQuotaUsage: the sum of all buckets at or after since.
UsageSince(b) == MapThenSumSet(LAMBDA m : usage[m], b..MaxMinute)

FlushUsage(g) ==
    /\ fpc[g] = "usage"
    /\ seen' = [seen EXCEPT ![g] = UsageSince(bucket[g])]
    /\ fpc' = [fpc EXCEPT ![g] = "publish"]
    /\ UNCHANGED <<minute, usage, local, remote, limits, callVars, bucket, delta, histVars>>

\* A query of the refresh fails: limit and aggregate stay as they were.
FlushAborts(g) ==
    /\ "refresh" \in Faults
    /\ fpc[g] \in {"limits", "usage"}
    /\ fpc' = [fpc EXCEPT ![g] = "idle"]
    /\ impaired' = [impaired EXCEPT ![g] = @ \cup {"refresh"}]
    /\ UNCHANGED <<minute, usage, local, remote, limits, callVars, bucket, delta, seen,
                   admitted, total, misdated, passed, overtaken, lost>>

\* The new aggregate, under l.mu.
FlushPublish(g) ==
    /\ fpc[g] = "publish"
    /\ remote' = [remote EXCEPT ![g] = seen[g]]
    /\ fpc' = [fpc EXCEPT ![g] = "idle"]
    /\ UNCHANGED <<minute, usage, local, limits, callVars, bucket, delta, seen, histVars>>

\* The clock reaches the next minute.
NewMinute ==
    /\ minute < MaxMinute
    /\ minute' = minute + 1
    /\ admitted' = [g \in Gateways |-> 0]
    /\ misdated' = [g \in Gateways |-> 0]
    /\ overtaken' = [g \in Gateways |-> 0]
    /\ UNCHANGED <<usage, local, remote, limits, callVars, flushVars, total, passed, lost, impaired>>

-----------------------------------------------------------------------------
AllowStep(c) == ReadLimits(c) \/ AdmitUnlimited(c) \/ Admit(c) \/ Deny(c)

FlushStep(g) ==
    \/ FlushBegin(g) \/ FlushSwap(g)
    \/ FlushPush(g) \/ FlushPushFails(g)
    \/ FlushLimits(g) \/ FlushUsage(g) \/ FlushAborts(g) \/ FlushPublish(g)

QuotaNext ==
    \/ \E c \in Callers : AllowStep(c)
    \/ \E g \in Gateways : FlushStep(g)
    \/ NewMinute

QuotaSpec == QuotaInit /\ [][QuotaNext]_quotaVars

-----------------------------------------------------------------------------
(***************************************************************************)
(* Type invariant of the limiter.                                          *)
(***************************************************************************)
QuotaTypeOK ==
    /\ minute \in Minutes
    /\ usage \in [Minutes -> Nat]
    /\ local \in [Gateways -> Nat]
    /\ remote \in [Gateways -> Nat]
    /\ limits \in [Gateways -> {0, Limit}]
    /\ cpc \in [Callers -> {"idle", "decide"}]
    /\ climit \in [Callers -> {0, Limit}]
    /\ cremote \in [Callers -> Nat]
    /\ fpc \in [Gateways -> {"idle", "swap", "push", "limits", "usage", "publish"}]
    /\ bucket \in [Gateways -> 0..minute]
    /\ delta \in [Gateways -> Nat]
    /\ seen \in [Gateways -> Nat]
    /\ admitted \in [Gateways -> Nat]
    /\ total \in [Gateways -> Nat]
    /\ misdated \in [Gateways -> Nat]
    /\ passed \subseteq Callers
    /\ overtaken \in [Gateways -> Nat]
    /\ lost \in [Gateways -> Nat]
    /\ impaired \in [Gateways -> SUBSET {"blind", "push", "refresh"}]

\* docs/en/operations.md: a gateway overshoots "by up to one bucket-window
\* worth of requests": what it admits in a minute is at most twice the limit,
\* plus what a minute boundary between `bucket := ...` and the swap dates
\* into the minute before, plus the calls that one flush and the beginning of
\* another overtook between their look at the aggregate and their decision.
\* (For a gateway that knew its limit and whose flushes succeeded, whatever
\* happens to the others.)
OvershootBound ==
    \A g \in Gateways : impaired[g] = {} => admitted[g] <= 2 * Limit + misdated[g] + overtaken[g]

SumOver(f, S) == MapThenSumSet(LAMBDA x : f[x], S)

\* Every admitted request is counted, once: in the store, in a flush that is
\* under way or in a local counter; only a failed push takes it away.  No
\* project is throttled for requests that were not made.
Conserved ==
    SumOver(total, Gateways) = SumOver(usage, Minutes) + SumOver(local, Gateways)
                               + SumOver(delta, Gateways) + SumOver(lost, Gateways)
=============================================================================
