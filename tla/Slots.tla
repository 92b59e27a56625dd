------------------------------- MODULE Slots -------------------------------
(***************************************************************************)
(* The concurrency slots of one upstream channel: two Redis counters per   *)
(* call, one of the channel and one of the tenant, taken and given back by *)
(* atomic scripts around every call to the upstream, and the inspector's   *)
(* calibration of the channel's counter with the number of active tasks.   *)
(*                                                                         *)
(* A worker that dies keeps its slot.  A counter is removed by its TTL an  *)
(* hour after a call last took a slot of it (or a calibration lowered it); *)
(* calls end long before that, so nobody holds a slot of it then.          *)
(***************************************************************************)
EXTENDS Naturals, FiniteSets

CONSTANTS
    Workers,       \* workers and gateway requests that call the upstream
    Tasks,         \* tasks of the channel
    NoTask,
    Tenants,
    TenantOf,      \* the tenant of each task
    ChannelLimit,  \* channel_concurrency
    TenantLimit,   \* tenant_concurrency
    NoCount,       \* the inspector has read nothing
    MaxCrashes     \* bound of the model on crashes

ASSUME SetsAssumption ==
    /\ IsFiniteSet(Workers) /\ IsFiniteSet(Tasks)
    /\ TenantOf \in [Tasks -> Tenants]
ASSUME LimitsAssumption ==
    ChannelLimit \in Nat /\ TenantLimit \in Nat /\ MaxCrashes \in Nat
ASSUME NamesAssumption == NoTask \notin Tasks /\ NoCount \notin Nat

VARIABLES
    active,   \* the tasks in an active status
    chan,     \* conc:{channel}
    ten,      \* conc:{channel}:{tenant}
    at,       \* where each worker stands
    job,      \* the task it is about
    count,    \* the number of active tasks the inspector has read
    crashes

vars == <<active, chan, ten, at, job, count, crashes>>
counters == <<chan, ten>>

Init ==
    /\ active = {}
    /\ chan = 0 /\ ten = [n \in Tenants |-> 0]
    /\ at = [w \in Workers |-> "idle"]
    /\ job = [w \in Workers |-> NoTask]
    /\ count = NoCount /\ crashes = 0

Holding == {w \in Workers : at[w] \in {"call", "release"}}
HoldingFor(n) == {w \in Holding : TenantOf[job[w]] = n}

-----------------------------------------------------------------------------
(* Tasks are accepted; they end in the handlers that hold a slot, and       *)
(* elsewhere (deadlines, cancellation, an operator).                        *)
TaskAccepted(t) ==
    /\ t \notin active
    /\ active' = active \cup {t}
    /\ UNCHANGED <<counters, at, job, count, crashes>>

TaskEnds(t) ==
    /\ t \in active
    /\ active' = active \ {t}
    /\ UNCHANGED <<counters, at, job, count, crashes>>

Goto(w, place) == /\ at' = [at EXCEPT ![w] = place] /\ UNCHANGED job
Idles(w) == /\ at' = [at EXCEPT ![w] = "idle"]
            /\ job' = [job EXCEPT ![w] = NoTask]

(* A handler loads its task and finds it active; a message that was         *)
(* delivered twice makes two of them.                                       *)
Load(w, t) ==
    /\ at[w] = "idle" /\ t \in active
    /\ at' = [at EXCEPT ![w] = "loaded"]
    /\ job' = [job EXCEPT ![w] = t]
    /\ UNCHANGED <<active, counters, count, crashes>>

Full(n) == chan >= ChannelLimit \/ ten[n] >= TenantLimit

(* ACQUIRE_LUA: both counters, or neither.                                  *)
Acquire(w) ==
    /\ at[w] = "loaded" /\ ~Full(TenantOf[job[w]])
    /\ chan' = chan + 1
    /\ ten' = [ten EXCEPT ![TenantOf[job[w]]] = @ + 1]
    /\ Goto(w, "call")
    /\ UNCHANGED <<active, count, crashes>>

(* Faulty variant: the release also runs when no slot was granted.          *)
DeniedReleases(w) ==
    /\ at[w] = "loaded" /\ Full(TenantOf[job[w]])
    /\ Goto(w, "release")
    /\ UNCHANGED <<active, counters, count, crashes>>

(* The message is put back for later.                                       *)
Denied(w) ==
    /\ at[w] = "loaded" /\ Full(TenantOf[job[w]])
    /\ Idles(w)
    /\ UNCHANGED <<active, counters, count, crashes>>

(* The call is over and its result handled, or it raised.                   *)
CallEnds(w) ==
    /\ at[w] = "call"
    /\ active' \in {active, active \ {job[w]}}
    /\ Goto(w, "release")
    /\ UNCHANGED <<counters, count, crashes>>

Less(n) == IF n > 0 THEN n - 1 ELSE n

(* Faulty variant: DECR without a look at the value.                        *)
ReleaseBlind(w) ==
    /\ at[w] = "release"
    /\ chan' = chan - 1
    /\ ten' = [ten EXCEPT ![TenantOf[job[w]]] = @ - 1]
    /\ Idles(w)
    /\ UNCHANGED <<active, count, crashes>>

(* RELEASE_LUA: each counter down by one, but not below zero.               *)
Release(w) ==
    /\ at[w] = "release"
    /\ chan' = Less(chan)
    /\ ten' = [ten EXCEPT ![TenantOf[job[w]]] = Less(@)]
    /\ Idles(w)
    /\ UNCHANGED <<active, count, crashes>>

Crash(w) ==
    /\ at[w] # "idle" /\ crashes < MaxCrashes
    /\ crashes' = crashes + 1
    /\ Idles(w)
    /\ UNCHANGED <<active, counters, count>>

-----------------------------------------------------------------------------
(* calibrate_concurrency: the active tasks are counted (a channel without   *)
(* any is not among the counts) ...                                         *)
CountActive ==
    /\ count = NoCount /\ active # {}
    /\ count' = Cardinality(active)
    /\ UNCHANGED <<active, counters, at, job, crashes>>

(* ... and CALIBRATE_LUA lowers the counter to that count.                  *)
Calibrate ==
    /\ count # NoCount
    /\ chan' = IF chan > count THEN count ELSE chan
    /\ count' = NoCount
    /\ UNCHANGED <<active, ten, at, job, crashes>>

(* Faulty variant: a tenant's counter has no TTL.                           *)
TenantNeverExpires(n) == FALSE /\ UNCHANGED vars

(* EXPIRE.                                                                  *)
ChannelExpires ==
    /\ chan # 0 /\ Holding = {}
    /\ chan' = 0
    /\ UNCHANGED <<active, ten, at, job, count, crashes>>

TenantExpires(n) ==
    /\ ten[n] # 0 /\ HoldingFor(n) = {}
    /\ ten' = [ten EXCEPT ![n] = 0]
    /\ UNCHANGED <<active, chan, at, job, count, crashes>>

-----------------------------------------------------------------------------
Works(w) == Acquire(w) \/ Denied(w) \/ CallEnds(w) \/ Release(w)

Next ==
    \/ \E t \in Tasks : TaskAccepted(t) \/ TaskEnds(t)
    \/ \E w \in Workers : \/ Works(w) \/ Crash(w)
                          \/ \E t \in Tasks : Load(w, t)
    \/ CountActive \/ Calibrate \/ ChannelExpires
    \/ \E n \in Tenants : TenantExpires(n)

Spec == Init /\ [][Next]_vars

(* Handlers run to their end, and Redis removes what is over its TTL.       *)
Fairness ==
    /\ \A w \in Workers : WF_vars(Works(w))
    /\ WF_vars(ChannelExpires)
    /\ \A n \in Tenants : WF_vars(TenantExpires(n))

FairSpec == Spec /\ Fairness

-----------------------------------------------------------------------------
(* Every variable keeps its type: both counters of concurrency.py stay       *)
(* between zero and their limit, and a worker that is busy has a task.       *)
TypeOK ==
    /\ active \subseteq Tasks
    /\ chan \in 0 .. ChannelLimit
    /\ ten \in [Tenants -> 0 .. TenantLimit]
    /\ at \in [Workers -> {"idle", "loaded", "call", "release"}]
    /\ job \in [Workers -> Tasks \cup {NoTask}]
    /\ \A w \in Workers : at[w] # "idle" => job[w] \in Tasks
    /\ count \in Nat \cup {NoCount} /\ crashes \in Nat

(* A tenant's counter never falls below the calls that are under way for    *)
(* it, so no tenant has more than its share, whatever was denied, has       *)
(* crashed, was delivered twice or expired: acquire and release of          *)
(* concurrency.py are paired by the handlers' try and finally.              *)
TenantBounded ==
    \A n \in Tenants : /\ Cardinality(HoldingFor(n)) <= ten[n]
                       /\ ten[n] <= TenantLimit

(* The channel's counter falls below the calls under way only through a     *)
(* calibration, which may lower it to a count taken before further tasks    *)
(* came and calls began (or to fewer than two calls of one task).           *)
UndercountIsCalibration ==
    [][Cardinality(Holding) <= chan =>
          \/ Cardinality(Holding') <= chan'
          \/ count # NoCount /\ chan' = count /\ count' = NoCount]_vars

(* Slots lost to crashes do not block a tenant or the channel for good: a   *)
(* counter that is full although nobody holds a slot is lowered again, even *)
(* when there are too many active tasks for a calibration to notice.        *)
LeakedSlotsComeBack ==
    /\ (chan >= ChannelLimit /\ Holding = {}) ~> chan < ChannelLimit
    /\ \A n \in Tenants :
          (ten[n] >= TenantLimit /\ HoldingFor(n) = {}) ~> ten[n] < TenantLimit

=============================================================================
