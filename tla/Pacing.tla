------------------------------- MODULE Pacing -------------------------------
(***************************************************************************)
(* The pace of calls to one upstream channel: intervals learnt from how    *)
(* long tasks take (a histogram and cached percentiles), and a penalty     *)
(* multiplier that doubles when the upstream pushes back (429, 401, 403)   *)
(* and decays by a tenth with every success after a quiet period (AIMD).   *)
(*                                                                         *)
(* All of it lives in separate Redis keys which workers and the console    *)
(* read and write one by one, so updates may overtake each other.          *)
(* Multipliers are counted in units of 1/Unit and rounded down.            *)
(***************************************************************************)
EXTENDS Naturals, Sequences, FiniteSetsExt

CONSTANTS
    Workers,
    Unit,         \* AIMD_MIN, as a number of units
    Base,         \* poll_base_interval
    Minimum,      \* poll_min_interval
    Maximum,      \* poll_max_interval
    Initial,      \* poll_initial_interval
    HotStart,     \* poll_hot_start_samples
    Bucket,       \* BUCKET_SECONDS
    Durations,    \* how long tasks take
    Elapsed,      \* for how long tasks have been running when polled
    MaxPushback,  \* bound of the model on pushback
    MaxSamples    \* bound of the model on samples

ASSUME IntervalsAssumption ==
    /\ Unit \in Nat \ {0} /\ Base \in Nat \ {0} /\ Bucket \in Nat \ {0}
    /\ Minimum \in Nat \ {0} /\ Maximum \in Nat /\ Initial \in Nat
    /\ Minimum <= Maximum /\ Base <= Maximum
    /\ HotStart \in Nat \ {0}
    /\ Durations \subseteq Nat /\ Elapsed \subseteq Nat
    /\ MaxPushback \in Nat /\ MaxSamples \in Nat

VARIABLES
    mult,      \* poll:aimd, in units
    recent,    \* poll:rl is less than aimd_quiet_seconds old
    paused,    \* poll:pause lies in the future
    durs,      \* the durations recorded in poll:hist, before they are bucketed
    cache,     \* poll:pct: the percentiles, as of some earlier histogram
    fresh,     \* percentiles computed and not yet cached
    at,        \* where each worker stands
    next,      \* the multiplier it is about to write
    admin,     \* where a reset by the console stands
    pushback   \* answers with pushback so far

vars == <<mult, recent, paused, durs, cache, fresh, at, next, admin, pushback>>
penalty == <<mult, recent, paused>>
learnt == <<durs, cache, fresh>>

-----------------------------------------------------------------------------
(* Percentiles of the histogram.                                            *)

Count(h, S) == Cardinality({i \in DOMAIN h : h[i] \in S})
Total(h) == Len(h)

(* _bucket_label: the lower end of the bucket.                              *)
Label(d) == (d \div Bucket) * Bucket
Labels == {Label(d) : d \in Durations}

(* Faulty variant: the first bucket that holds anything.                    *)
PercentileFirst(h, q) ==
    IF Total(h) = 0 THEN Initial
    ELSE Max({Bucket, Min({l \in Labels :
                Count(h, {d \in Durations : Label(d) <= l}) > 0})})

(* _percentile: the first bucket up to which q percent of the samples lie,  *)
(* and at least one bucket's width.                                         *)
Percentile(h, q) ==
    IF Total(h) = 0 THEN Initial
    ELSE Max({Bucket, Min({l \in Labels :
                100 * Count(h, {d \in Durations : Label(d) <= l})
                    >= q * Total(h)})})

Stats(h) == [p10 |-> Percentile(h, 10), p50 |-> Percentile(h, 50),
             warm |-> Total(h) >= HotStart]
AllStats == [p10 : Nat, p50 : Nat, warm : BOOLEAN]
NoStats == [p10 |-> 0, p50 |-> 0, warm |-> FALSE]

-----------------------------------------------------------------------------
(* _BasePolling                                                             *)

Clamp(v) == Max({Minimum, Min({Maximum, v})})

(* compute_interval: the interval doubles with every median that has        *)
(* passed, eight times at most.                                             *)
ComputeInterval(elapsed, s, first) ==
    IF ~s.warm
    THEN Clamp(IF first THEN Initial ELSE Max({Initial, Minimum}))
    ELSE IF first THEN Clamp(Max({s.p10, Minimum}))
    ELSE Clamp(Base * 2^Min({8, elapsed \div Max({s.p50, Minimum})}))

(* base_interval, and next_interval with the penalty.                       *)
BaseInterval(s, elapsed, first) == ComputeInterval(elapsed, s, first)

(* Faulty variant: the penalty comes after the bounds.                      *)
NextIntervalUnbounded(s, m, elapsed, first) ==
    (ComputeInterval(elapsed, s, first) * m) \div Unit

NextInterval(s, m, elapsed, first) ==
    Clamp((ComputeInterval(elapsed, s, first) * m) \div Unit)

Cap == (Maximum * Unit) \div Base

(* Faulty variant: no upper bound.                                          *)
AimdUpUncapped(m) == Max({Unit, 2 * m})

AimdUp(m) == Min({Cap, Max({Unit, 2 * m})})

AimdDown(m) == Max({Unit, (9 * m) \div 10})

-----------------------------------------------------------------------------
Init ==
    /\ mult = Unit /\ recent = FALSE /\ paused = FALSE
    /\ durs = <<>> /\ cache = NoStats /\ fresh = NoStats
    /\ at = [w \in Workers |-> "idle"]
    /\ next = [w \in Workers |-> Unit]
    /\ admin = "idle" /\ pushback = 0

Goto(w, place) == at' = [at EXCEPT ![w] = place] /\ UNCHANGED next
Plans(w, m, place) == /\ at' = [at EXCEPT ![w] = place]
                      /\ next' = [next EXCEPT ![w] = m]
Idles(w) == Plans(w, Unit, "idle")

(* A poll begins, unless the channel is paused (its message is put back for *)
(* later); a create does not ask.                                           *)
Call(w, kind) ==
    /\ at[w] = "idle"
    /\ (kind = "poll" => ~paused)
    /\ Goto(w, "call")
    /\ UNCHANGED <<penalty, learnt, admin, pushback>>

(* note_rate_limited reads the multiplier, ...                              *)
PushedBack(w) ==
    /\ at[w] = "call" /\ pushback < MaxPushback
    /\ pushback' = pushback + 1
    /\ Plans(w, AimdUp(mult), "raise")
    /\ UNCHANGED <<penalty, learnt, admin>>

(* ... writes the doubled one, ...                                          *)
Raise(w) ==
    /\ at[w] = "raise"
    /\ mult' = next[w]
    /\ Plans(w, Unit, "stamp")
    /\ UNCHANGED <<recent, paused, learnt, admin, pushback>>

(* ... the time, and, after a Retry-After, the pause.                       *)
Stamp(w) ==
    /\ at[w] = "stamp"
    /\ recent' = TRUE /\ paused' \in {paused, TRUE}
    /\ Idles(w)
    /\ UNCHANGED <<mult, learnt, admin, pushback>>

(* Faulty variant: the multiplier is never lowered.                         *)
HealthyForgotten(w) ==
    /\ at[w] = "call"
    /\ Idles(w)
    /\ UNCHANGED <<penalty, learnt, admin, pushback>>

(* _note_channel_healthy, decay_if_clean: the upstream answered, and did    *)
(* not push back lately ...                                                 *)
Healthy(w) ==
    /\ at[w] = "call"
    /\ IF recent THEN Idles(w) ELSE Goto(w, "lower")
    /\ UNCHANGED <<penalty, learnt, admin, pushback>>

(* ... so note_clean_period reads the multiplier, and writes a lower one.   *)
Lower(w) ==
    /\ at[w] = "lower"
    /\ Plans(w, AimdDown(mult), "lowered")
    /\ UNCHANGED <<penalty, learnt, admin, pushback>>

Lowered(w) ==
    /\ at[w] = "lowered"
    /\ mult' = next[w]
    /\ Idles(w)
    /\ UNCHANGED <<recent, paused, learnt, admin, pushback>>

(* Any other failure, or the worker dies.                                   *)
Fails(w) ==
    /\ at[w] # "idle" /\ pushback < MaxPushback
    /\ pushback' = pushback + 1
    /\ Idles(w)
    /\ UNCHANGED <<penalty, learnt, admin>>

QuietPasses ==
    /\ recent /\ recent' = FALSE
    /\ UNCHANGED <<mult, paused, learnt, at, next, admin, pushback>>

PauseEnds ==
    /\ paused /\ paused' = FALSE
    /\ UNCHANGED <<mult, recent, learnt, at, next, admin, pushback>>

(* The multiplier expires a week after it was written.                      *)
PenaltyExpires ==
    /\ mult # Unit /\ mult' = Unit
    /\ UNCHANGED <<recent, paused, learnt, at, next, admin, pushback>>

-----------------------------------------------------------------------------
(* terminal_sample: a task is over.                                         *)
RecordTerminal(d) ==
    /\ Total(durs) < MaxSamples
    /\ durs' = Append(durs, d)
    /\ UNCHANGED <<penalty, cache, fresh, at, next, admin, pushback>>

(* The histogram expires a week after the last sample.                      *)
SamplesExpire ==
    /\ durs # <<>> /\ durs' = <<>>
    /\ UNCHANGED <<penalty, cache, fresh, at, next, admin, pushback>>

(* stats: percentiles are computed where none are cached, ...               *)
ComputeStats ==
    /\ cache = NoStats /\ fresh = NoStats
    /\ fresh' = Stats(durs)
    /\ UNCHANGED <<penalty, durs, cache, at, next, admin, pushback>>

(* ... cached, and dropped after PCT_CACHE_SECONDS.                         *)
CacheStats ==
    /\ fresh # NoStats
    /\ cache' = fresh /\ fresh' = NoStats
    /\ UNCHANGED <<penalty, durs, at, next, admin, pushback>>

CacheExpires ==
    /\ cache # NoStats /\ cache' = NoStats
    /\ UNCHANGED <<penalty, durs, fresh, at, next, admin, pushback>>

-----------------------------------------------------------------------------
(* reset_channel_pacing: an operator lifts the penalty, key by key, and may *)
(* have what was learnt forgotten.                                          *)
ResetBegins ==
    /\ admin = "idle"
    /\ mult' = Unit
    /\ admin' = "pause"
    /\ UNCHANGED <<recent, paused, learnt, at, next, pushback>>

ResetPause ==
    /\ admin = "pause"
    /\ paused' = FALSE
    /\ admin' = "quiet"
    /\ UNCHANGED <<mult, recent, learnt, at, next, pushback>>

ResetQuiet ==
    /\ admin = "quiet"
    /\ recent' = FALSE
    /\ admin' \in {"idle", "samples"}
    /\ UNCHANGED <<mult, paused, learnt, at, next, pushback>>

ResetSamples ==
    /\ admin = "samples"
    /\ durs' = <<>>
    /\ admin' = "cache"
    /\ UNCHANGED <<penalty, cache, fresh, at, next, pushback>>

ResetCache ==
    /\ admin = "cache"
    /\ cache' = NoStats
    /\ admin' = "idle"
    /\ UNCHANGED <<penalty, durs, fresh, at, next, pushback>>

-----------------------------------------------------------------------------
Answered(w) == PushedBack(w) \/ Healthy(w)
Handles(w) == Answered(w) \/ Raise(w) \/ Stamp(w) \/ Lower(w) \/ Lowered(w)

Next ==
    \/ \E w \in Workers : \/ \E k \in {"poll", "submit"} : Call(w, k)
                          \/ Handles(w) \/ Fails(w)
    \/ QuietPasses \/ PauseEnds \/ PenaltyExpires \/ SamplesExpire
    \/ \E d \in Durations : RecordTerminal(d)
    \/ ComputeStats \/ CacheStats \/ CacheExpires
    \/ ResetBegins \/ ResetPause \/ ResetQuiet \/ ResetSamples \/ ResetCache

Spec == Init /\ [][Next]_vars

(* Time passes, tasks are polled again and again, and answers are handled.  *)
Fairness ==
    /\ WF_vars(QuietPasses) /\ WF_vars(PauseEnds)
    /\ \A w \in Workers : WF_vars(Call(w, "poll")) /\ WF_vars(Handles(w))

FairSpec == Spec /\ Fairness

-----------------------------------------------------------------------------
(* Every variable keeps its type: the multiplier of polling.py stays between *)
(* AIMD_MIN and the one that stretches the base interval to the longest.     *)
TypeOK ==
    /\ mult \in Unit .. Cap /\ recent \in BOOLEAN /\ paused \in BOOLEAN
    /\ durs \in Seq(Durations) /\ cache \in AllStats /\ fresh \in AllStats
    /\ at \in [Workers -> {"idle", "call", "raise", "stamp", "lower",
                           "lowered"}]
    /\ next \in [Workers -> Unit .. Cap]
    /\ admin \in {"idle", "pause", "quiet", "samples", "cache"}
    /\ pushback \in Nat

(* The interval that next_interval gives the first poll of a task and the   *)
(* polls after an answer "running" or a 5xx: whatever percentiles are       *)
(* cached and whatever penalty has built up, it stays within the configured *)
(* bounds, does not shrink as the task goes on, and is not shorter than     *)
(* without the penalty.  (It does not pace the poll after any other answer: *)
(* a 429 is retried after its Retry-After or 5 s, 401, 403 and 404 after a  *)
(* backoff, an unreadable answer after 30 s, each whatever the penalty.)    *)
CadenceSound ==
    cache # NoStats =>
        \A e \in Elapsed, first \in BOOLEAN :
            LET i == NextInterval(cache, mult, e, first)
            IN /\ Minimum <= i /\ i <= Maximum
               /\ BaseInterval(cache, e, first) <= i
               /\ \A f \in Elapsed :
                     f <= e => NextInterval(cache, mult, f, first) <= i

(* The sample below which q percent of the recorded durations lie.          *)
Quantile(h, q) ==
    Min({d \in Durations :
           100 * Count(h, {c \in Durations : c <= d}) >= q * Total(h)})

(* The percentile taken from the buckets is off by at most the width of one *)
(* bucket, although a bucket is named by its lower end.                     *)
PercentileClose ==
    Total(durs) > 0 =>
        \A q \in {10, 50, 95} :
            LET p == Percentile(durs, q)
                d == Quantile(durs, q)
            IN p <= d + Bucket /\ d <= p + Bucket

(* When the upstream no longer pushes back, the penalty ends, although      *)
(* concurrent updates of the multiplier may have overwritten each other and *)
(* a reset (note_rate_limited, note_clean_period, reset).                   *)
PenaltyEnds == <>[](mult = Unit)

=============================================================================
