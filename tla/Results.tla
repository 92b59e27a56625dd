------------------------------ MODULE Results ------------------------------
(***************************************************************************)
(* How the verdict on a submitted task and its result reach the caller:    *)
(* callbacks from the upstream, polls, the transfer of the result into the *)
(* object store, and what a query shows.                                   *)
(*                                                                         *)
(* The upstream delivers its reports late, repeatedly and out of order, on *)
(* requests that may die between two transactions.  A callback is recorded *)
(* (and deduplicated) in one transaction and applied in others.  Signature *)
(* checks come before all of this: a callback that fails them changes      *)
(* nothing.  A task whose result is stored: result_policy store, with an   *)
(* object store configured.                                                *)
(***************************************************************************)
EXTENDS Naturals, StateMachine

CONSTANTS
    Callbacks,    \* callback requests in progress at once
    Movers,       \* workers of the transfer queue
    Sources,      \* status_source of the templates: "poll", "callback"
    MaxTransfer,  \* MAX_TRANSFER_ATTEMPTS
    Progress,     \* bound of the model on different progress reports
    MaxDoubts     \* bound of the model on stalls and unreadable answers

ASSUME SourceAssumption == Sources \subseteq {"poll", "callback"}
ASSUME BoundsAssumption ==
    MaxTransfer \in Nat \ {0} /\ Progress \in Nat /\ MaxDoubts \in Nat

VARIABLES
    source,   \* the template's status_source
    row,      \* the AsyncTask row
    truth,    \* the upstream's verdict on its task
    events,   \* callback_event: the reports recorded
    orphans,  \* orphan_callback: reports under a token nobody knows
    cb,       \* where each callback request stands, and what it loaded
    poll,     \* where the poll stands
    doubts,   \* stalls and unreadable answers so far
    sent,     \* store_result was enqueued for the task
    xfer,     \* attempt numbers of the store_result messages on the bus
    mover,    \* where each transfer worker stands
    object    \* the result in the object store: "none", "stored", "purged"

vars == <<source, row, truth, events, orphans, cb, poll, doubts, sent, xfer,
          mover, object>>
world == <<source, truth>>
reports == <<events, orphans>>
transfer == <<sent, xfer, mover, object>>

Verdicts == {"succeeded", "failed", "expired"}
Natives == {"running"} \cup Verdicts

(* A report: a status, and a number that tells progress reports apart.      *)
Reports == [status : Natives, no : 0 .. Progress]
NoReport == [status |-> "running", no |-> 0]

Row == [status : TaskStatus, uid : BOOLEAN, raw : Natives \cup {"none"},
        due : BOOLEAN, ref : BOOLEAN, degraded : BOOLEAN, tries : Nat]
Seen == [status : TaskStatus, due : BOOLEAN]
NotSeen == [status |-> "accepted", due |-> FALSE]
AtRest == [at |-> "idle", report |-> NoReport, seen |-> NotSeen]
NotPolling == [at |-> "idle", seen |-> "accepted", verdict |-> "running"]

(* The row as accept_create inserts it, with the create call under way.     *)
Init ==
    /\ source \in Sources
    /\ row = [status |-> "accepted", uid |-> FALSE, raw |-> "none",
              due |-> FALSE, ref |-> FALSE, degraded |-> FALSE, tries |-> 0]
    /\ truth = "running" /\ events = {} /\ orphans = {}
    /\ cb = [c \in Callbacks |-> AtRest]
    /\ poll = NotPolling /\ doubts = 0
    /\ sent = FALSE /\ xfer = {} /\ object = "none"
    /\ mover = [w \in Movers |-> [at |-> "idle", attempt |-> 0]]

-----------------------------------------------------------------------------
(* maps_status: the status a report stands for; progress has none.          *)
Mapped(native) == CASE native = "succeeded" -> "succeeded"
                    [] native = "expired" -> "timeout"
                    [] native = "failed" -> "failed"

(* A conditional write of TaskDAO: it takes effect if the row still has the *)
(* status it had when it was loaded.                                        *)
IfStill(status, new) == row' = IF row.status = status THEN new ELSE row

(* What is written with a verdict: next_poll_at is cleared, unless the task *)
(* failed; then a poll sets it for the retry and a callback leaves it alone.*)
Settled(dst, native, due) ==
    [row EXCEPT !.status = dst, !.raw = native, !.due = due /\ dst = "failed"]

(* finalize_task: the transfer of a new success is enqueued.                *)
EnqueueTransfer ==
    IF row.status = "succeeded" /\ ~row.ref
    THEN xfer' = xfer \cup {1} /\ sent' = TRUE
    ELSE UNCHANGED <<xfer, sent>>

-----------------------------------------------------------------------------
(* receive_callback                                                         *)

True(e) == /\ e.status \in {"running", truth}
           /\ e.status \in Verdicts => e.no = 0

(* insert_callback_event: the unique index tells repeated reports apart.    *)
Duplicate(e) == e \in events

(* A report that was not recorded before (else 200 at once) is recorded.    *)
Receive(c, e) ==
    /\ cb[c].at = "idle" /\ True(e) /\ ~Duplicate(e)
    /\ events' = events \cup {e}
    /\ cb' = [cb EXCEPT ![c] = [at |-> "load", report |-> e,
                                seen |-> NotSeen]]
    /\ UNCHANGED <<world, row, orphans, poll, doubts, transfer>>

(* The token is nobody's: the report is recorded, and put aside.            *)
ReceiveOrphan(e) ==
    /\ True(e) /\ ~Duplicate(e)
    /\ events' = events \cup {e}
    /\ orphans' = orphans \cup {e}
    /\ UNCHANGED <<world, row, cb, poll, doubts, transfer>>

(* reconcile_orphans: the inspector finds the task by its upstream id and   *)
(* marks the report resolved; it is not applied.                            *)
ReconcileOrphan(e) ==
    /\ e \in orphans /\ row.uid
    /\ orphans' = orphans \ {e}
    /\ UNCHANGED <<world, row, events, cb, poll, doubts, transfer>>

-----------------------------------------------------------------------------
(* _apply_callback                                                          *)

At(c, place) == cb[c].at = place
CallbackEnds(c) == cb' = [cb EXCEPT ![c] = AtRest]

(* The task is loaded again; if it is over, the report is dropped.          *)
ApplyLoad(c) ==
    /\ At(c, "load")
    /\ IF row.status \in BusinessTerminal
       THEN CallbackEnds(c)
       ELSE cb' = [cb EXCEPT ![c].at = "apply",
                             ![c].seen = [status |-> row.status,
                                          due |-> row.due]]
    /\ UNCHANGED <<world, row, reports, poll, doubts, transfer>>

(* Faulty variant: the snapshot is written whatever has happened since.     *)
ApplyProgressBlind(c) ==
    /\ At(c, "apply") /\ cb[c].report.status = "running"
    /\ row' = [row EXCEPT !.raw = "running", !.due = @ \/ cb[c].seen.due]
    /\ CallbackEnds(c)
    /\ UNCHANGED <<world, reports, poll, doubts, transfer>>

(* Progress, or a report without a status: the snapshot is replaced, with   *)
(* the next_poll_at that was loaded.                                        *)
ApplyProgress(c) ==
    /\ At(c, "apply") /\ cb[c].report.status = "running"
    /\ \E native \in {"running", "none"} :
          IfStill(cb[c].seen.status,
                  [row EXCEPT !.raw = native, !.due = @ \/ cb[c].seen.due])
    /\ CallbackEnds(c)
    /\ UNCHANGED <<world, reports, poll, doubts, transfer>>

(* A verdict where polls decide: a poll is made due, nothing else.          *)
ApplyArbitrate(c) ==
    /\ At(c, "apply") /\ cb[c].report.status \in Verdicts
    /\ source = "poll"
    /\ row' = IF row.status \in ActiveStatuses THEN [row EXCEPT !.due = TRUE]
                                               ELSE row
    /\ CallbackEnds(c)
    /\ UNCHANGED <<world, reports, poll, doubts, transfer>>

(* A verdict where callbacks decide.  A move outside the whitelist raises:  *)
(* the upstream gets 500, and its next try is a duplicate.                  *)
ApplyVerdict(c) ==
    /\ At(c, "apply") /\ cb[c].report.status \in Verdicts
    /\ source = "callback"
    /\ LET native == cb[c].report.status
           src == cb[c].seen.status
       IN /\ IF CanTransition(src, Mapped(native))
             THEN IfStill(src, Settled(Mapped(native), native, row.due))
             ELSE UNCHANGED row
          /\ cb' = [cb EXCEPT ![c] =
                IF CanTransition(src, Mapped(native)) /\ row.status = src
                THEN [AtRest EXCEPT !.at = "finalize"] ELSE AtRest]
    /\ UNCHANGED <<world, reports, poll, doubts, transfer>>

ApplyFinalize(c) ==
    /\ At(c, "finalize")
    /\ EnqueueTransfer
    /\ CallbackEnds(c)
    /\ UNCHANGED <<world, row, reports, poll, doubts, mover, object>>

CallbackCrash(c) ==
    /\ ~At(c, "idle")
    /\ CallbackEnds(c)
    /\ UNCHANGED <<world, row, reports, poll, doubts, transfer>>

CallbackStep(c) ==
    \/ \E e \in Reports : Receive(c, e)
    \/ ApplyLoad(c) \/ ApplyProgress(c) \/ ApplyArbitrate(c)
    \/ ApplyVerdict(c) \/ ApplyFinalize(c) \/ CallbackCrash(c)

-----------------------------------------------------------------------------
(* What else moves the row (see TaskLifecycle for the details).             *)

Polled == {"upstream_submitted", "in_progress", "poll_unrecognized"}

(* mark_submitted: with the id, the status the answer to the create call    *)
(* carries, if it has one; it is not looked at, and may be a verdict.       *)
MarkSubmitted ==
    /\ row.status = "accepted"
    /\ \E native \in {"none", "running", truth} :
          row' = [row EXCEPT !.status = "upstream_submitted", !.uid = TRUE,
                             !.raw = native, !.due = TRUE]
    /\ UNCHANGED <<world, reports, cb, poll, doubts, transfer>>

(* Faulty variant: tasks whose verdict comes by callback are not polled.    *)
PollCallUnlessCallback ==
    /\ poll.at = "idle" /\ row.status \in Polled /\ source = "poll"
    /\ poll' = [at |-> "answered", seen |-> row.status, verdict |-> truth]
    /\ UNCHANGED <<world, row, reports, cb, doubts, transfer>>

(* Every task is polled, whatever the source of its verdict is.             *)
PollCall ==
    /\ poll.at = "idle" /\ row.status \in Polled
    /\ poll' = [at |-> "answered", seen |-> row.status, verdict |-> truth]
    /\ UNCHANGED <<world, row, reports, cb, doubts, transfer>>

(* The poll found the task running, or over; a failure is final once the    *)
(* attempts are used up.                                                    *)
PollRunning ==
    /\ poll.at = "answered" /\ poll.verdict = "running"
    /\ IfStill(poll.seen, [row EXCEPT !.status = "in_progress",
                                      !.raw = "running", !.due = TRUE])
    /\ poll' = NotPolling
    /\ UNCHANGED <<world, reports, cb, doubts, transfer>>

PollVerdict ==
    /\ poll.at = "answered" /\ poll.verdict \in Verdicts
    /\ \E dst \in IF poll.verdict = "failed" THEN {"failed", "dead"}
                                             ELSE {Mapped(poll.verdict)} :
          /\ IF CanTransition(poll.seen, dst)
             THEN IfStill(poll.seen, Settled(dst, poll.verdict, TRUE))
             ELSE UNCHANGED row
          /\ poll' = IF dst = "succeeded" /\ row.status = poll.seen
                     THEN [NotPolling EXCEPT !.at = "finalize"] ELSE NotPolling
    /\ UNCHANGED <<world, reports, cb, doubts, transfer>>

(* finalize_success; a worker that dies before it has no successor: the     *)
(* message comes again, and finds the task over.                            *)
PollFinalize ==
    /\ poll.at = "finalize"
    /\ \/ xfer' = xfer \cup {1} /\ sent' = TRUE
       \/ UNCHANGED <<xfer, sent>>
    /\ poll' = NotPolling
    /\ UNCHANGED <<world, row, reports, cb, doubts, mover, object>>

(* No status can be read from the answer; or the task stalls and becomes    *)
(* unknown, until it is confirmed.                                          *)
PollUnreadable ==
    /\ poll.at = "answered" /\ doubts < MaxDoubts
    /\ doubts' = doubts + 1
    /\ IfStill(poll.seen, [row EXCEPT !.status = "poll_unrecognized",
                                      !.raw = "none", !.due = TRUE])
    /\ poll' = NotPolling
    /\ UNCHANGED <<world, reports, cb, transfer>>

Stalls ==
    /\ row.status \in {"upstream_submitted", "in_progress"}
    /\ doubts < MaxDoubts
    /\ doubts' = doubts + 1
    /\ row' = [row EXCEPT !.status = "submit_unknown", !.due = TRUE]
    /\ UNCHANGED <<world, reports, cb, poll, transfer>>

Confirmed ==
    /\ row.status = "submit_unknown"
    /\ row' = [row EXCEPT !.status = "upstream_submitted", !.due = TRUE]
    /\ UNCHANGED <<world, reports, cb, poll, doubts, transfer>>

(* The deadline sweep.                                                      *)
TimesOut ==
    /\ CanTransition(row.status, "timeout")
    /\ row' = [row EXCEPT !.status = "timeout", !.due = FALSE]
    /\ UNCHANGED <<world, reports, cb, poll, doubts, transfer>>

UpstreamEnds(v) ==
    /\ truth = "running"
    /\ truth' = v
    /\ UNCHANGED <<source, row, reports, cb, poll, doubts, transfer>>

TaskStep ==
    \/ MarkSubmitted \/ PollCall \/ PollRunning \/ PollVerdict \/ PollFinalize
    \/ PollUnreadable \/ Stalls \/ Confirmed \/ TimesOut
    \/ \E v \in Verdicts : UpstreamEnds(v)

-----------------------------------------------------------------------------
(* store_result                                                             *)

Moves(w, place) == mover[w].at = place
MoverTo(w, place) == mover' = [mover EXCEPT ![w].at = place]
MoverEnds(w) == mover' = [mover EXCEPT ![w] = [at |-> "idle", attempt |-> 0]]

(* A message is taken; it is over if the result is there already.           *)
TransferTake(w, a) ==
    /\ Moves(w, "idle") /\ a \in xfer
    /\ xfer' = xfer \ {a}
    /\ mover' = IF row.ref THEN mover
                ELSE [mover EXCEPT ![w] = [at |-> "fetch", attempt |-> a]]
    /\ UNCHANGED <<world, row, reports, cb, poll, doubts, sent, object>>

(* Faulty variant: the attempts are counted and never compared.             *)
TransferRetryUnbounded(w) ==
    /\ Moves(w, "fetch")
    /\ row' = IF row.ref THEN row
              ELSE [row EXCEPT !.due = TRUE, !.tries = mover[w].attempt + 1]
    /\ MoverEnds(w)
    /\ UNCHANGED <<world, reports, cb, poll, doubts, sent, xfer, object>>

(* Faulty variant: the attempt is recorded and no time for the next one.    *)
TransferRetryUndated(w) ==
    /\ Moves(w, "fetch") /\ mover[w].attempt < MaxTransfer
    /\ row' = IF row.ref THEN row ELSE [row EXCEPT !.tries = mover[w].attempt]
    /\ MoverEnds(w)
    /\ UNCHANGED <<world, reports, cb, poll, doubts, sent, xfer, object>>

(* schedule_transfer_retry: next_poll_at carries the time of the retry, and *)
(* the attempt number is kept as it is.                                     *)
TransferRetry(w) ==
    /\ Moves(w, "fetch") /\ mover[w].attempt < MaxTransfer
    /\ row' = IF row.ref THEN row
              ELSE [row EXCEPT !.due = TRUE, !.tries = mover[w].attempt]
    /\ MoverEnds(w)
    /\ UNCHANGED <<world, reports, cb, poll, doubts, sent, xfer, object>>

(* Faulty variant: the mark does not look at the result.                    *)
TransferGiveUpBlind(w) ==
    /\ Moves(w, "fetch")
    /\ row' = [row EXCEPT !.degraded = TRUE, !.due = FALSE]
    /\ MoverEnds(w)
    /\ UNCHANGED <<world, reports, cb, poll, doubts, sent, xfer, object>>

(* mark_result_unavailable: no URL in the snapshot, a URL that is refused,  *)
(* a result too large, or the last attempt failed.                          *)
TransferGiveUp(w) ==
    /\ Moves(w, "fetch")
    /\ row' = IF row.ref THEN row
              ELSE [row EXCEPT !.degraded = TRUE, !.due = FALSE]
    /\ MoverEnds(w)
    /\ UNCHANGED <<world, reports, cb, poll, doubts, sent, xfer, object>>

TransferFetched(w) ==
    /\ Moves(w, "fetch")
    /\ MoverTo(w, "put")
    /\ UNCHANGED <<world, row, reports, cb, poll, doubts, sent, xfer, object>>

(* put_bytes, under the same key every time.                                *)
TransferPut(w) ==
    /\ Moves(w, "put")
    /\ object' = "stored"
    /\ MoverTo(w, "commit")
    /\ UNCHANGED <<world, row, reports, cb, poll, doubts, sent, xfer>>

(* set_result_ref, where there is none; it clears what a worker that gave   *)
(* up has noted.                                                            *)
TransferCommit(w) ==
    /\ Moves(w, "commit")
    /\ row' = IF row.ref THEN row
              ELSE [row EXCEPT !.ref = TRUE, !.degraded = FALSE]
    /\ MoverEnds(w)
    /\ UNCHANGED <<world, reports, cb, poll, doubts, sent, xfer, object>>

(* A worker dies; its message is delivered again.                           *)
TransferCrash(w) ==
    /\ ~Moves(w, "idle")
    /\ xfer' = xfer \cup {mover[w].attempt}
    /\ MoverEnds(w)
    /\ UNCHANGED <<world, row, reports, cb, poll, doubts, sent, object>>

PendingTransfer == row.status = "succeeded" /\ ~row.ref /\ row.due

(* dispatch_pending_transfers: every tick of the inspector, while due.      *)
DispatchPending ==
    /\ PendingTransfer
    /\ xfer' = xfer \cup {IF row.tries = 0 THEN 1 ELSE row.tries}
    /\ sent' = TRUE
    /\ UNCHANGED <<world, row, reports, cb, poll, doubts, mover, object>>

(* The bucket's lifecycle policy removes old objects.                       *)
ObjectPurged ==
    /\ object = "stored" /\ row.ref
    /\ object' = "purged"
    /\ UNCHANGED <<world, row, reports, cb, poll, doubts, sent, xfer, mover>>

TransferWork(w) ==
    \/ \E a \in 1 .. MaxTransfer : TransferTake(w, a)
    \/ TransferRetry(w) \/ TransferGiveUp(w) \/ TransferFetched(w)
    \/ TransferPut(w) \/ TransferCommit(w)

Next ==
    \/ \E c \in Callbacks : CallbackStep(c)
    \/ \E e \in Reports : ReceiveOrphan(e) \/ ReconcileOrphan(e)
    \/ TaskStep
    \/ \E w \in Movers : TransferWork(w) \/ TransferCrash(w)
    \/ DispatchPending \/ ObjectPurged

Spec == Init /\ [][Next]_vars

(* Workers poll submitted tasks and handle the answers, submissions and     *)
(* confirmations come to an end, and transfer workers handle what is queued *)
(* (the worker loop and the inspector's tick).  Nothing is assumed of the   *)
(* upstream, its callbacks, or its results.                                 *)
Fairness ==
    /\ WF_vars(MarkSubmitted) /\ WF_vars(Confirmed)
    /\ WF_vars(PollCall) /\ WF_vars(PollRunning \/ PollVerdict)
    /\ WF_vars(PollFinalize) /\ WF_vars(DispatchPending)
    /\ \A w \in Movers : WF_vars(TransferWork(w))

FairSpec == Spec /\ Fairness

-----------------------------------------------------------------------------
(* What a query shows.                                                      *)

(* Faulty variant: only what the upstream said last is shown.               *)
ShownRaw == IF row.raw = "none" THEN "queued" ELSE row.raw

(* _effective_status_value: internal terminal states, and a cancelled task, *)
(* are shown as the upstream's failure; a task without a status as queued.  *)
ShownStatus ==
    CASE row.status = "succeeded" -> "succeeded"
      [] row.status \in BusinessTerminal \ {"succeeded"} ->
            IF row.status \in {"timeout", "cancelled"} /\ row.raw = "expired"
            THEN "expired" ELSE "failed"
      [] row.status \notin BusinessTerminal /\ row.raw = "none" -> "queued"
      [] OTHER -> row.raw

PresignedResultUrl == IF row.ref /\ object = "stored" THEN {"url"} ELSE {}

(* Of the notices, those about the result; a result that the bucket has     *)
(* removed gives none.                                                      *)
DegradedNotices ==
    (IF row.degraded THEN {"result_unavailable"} ELSE {})
    \cup (IF row.status = "succeeded" /\ ~row.ref THEN {"result_pending"} ELSE {})

(* The result in the answer to a query: only a success has one.             *)
ShownResult == IF row.status = "succeeded" THEN PresignedResultUrl ELSE {}

-----------------------------------------------------------------------------
(* Every variable keeps its type: a transfer is never tried under a number   *)
(* above MAX_TRANSFER_ATTEMPTS, and only reports recorded are put aside.     *)
TypeOK ==
    /\ source \in Sources /\ row \in Row /\ truth \in Natives
    /\ events \subseteq Reports /\ orphans \subseteq events
    /\ cb \in [Callbacks -> [at : {"idle", "load", "apply", "finalize"},
                             report : Reports, seen : Seen]]
    /\ poll \in [at : {"idle", "answered", "finalize"}, seen : TaskStatus,
                 verdict : Natives]
    /\ doubts \in Nat /\ sent \in BOOLEAN /\ xfer \subseteq 1 .. MaxTransfer
    /\ mover \in [Movers -> [at : {"idle", "fetch", "put", "commit"},
                             attempt : 0 .. MaxTransfer]]
    /\ object \in {"none", "stored", "purged"}

(* A task that is over is shown as over, although the last thing the        *)
(* upstream said may have been that it is running; and a verdict that is    *)
(* shown, before or after the gateway knows that the task is over, is the   *)
(* upstream's, except that a task the gateway ended itself is shown as      *)
(* failed.  No late, repeated or reordered report, no status in the answer  *)
(* to the create call and no poll that was overtaken makes up a verdict.    *)
ShownIsVerdict ==
    /\ row.status \in BusinessTerminal => ShownStatus \in Verdicts
    /\ ShownStatus \in {"succeeded", "expired"} => ShownStatus = truth
    /\ ShownStatus = "failed" =>
          truth = "failed" \/ row.status \in BusinessTerminal \ {"succeeded"}

(* What is shown of a task that is over does not change, whatever callbacks *)
(* and polls are still under way.                                           *)
ShownStands ==
    [][row.status \in BusinessTerminal => ShownStatus' = ShownStatus]_vars

(* A task with a result reference has the object, unless the bucket's       *)
(* lifecycle removed it, and is not at the same time declared to have no    *)
(* result, whichever of two transfer workers was last.                      *)
RefHasObject ==
    /\ row.ref => object # "none" /\ row.status = "succeeded"
    /\ "url" \in ShownResult => DegradedNotices = {}

(* Once store_result was enqueued the transfer is not forgotten, whichever  *)
(* worker dies: there is a result, it was given up, a worker or a message   *)
(* is about it, or it is due for the inspector.                             *)
TransferNotForgotten ==
    sent => \/ row.ref \/ row.degraded \/ row.due \/ xfer # {}
            \/ \E w \in Movers : ~Moves(w, "idle")

(* The upstream's success, or expiry, reaches the row although callbacks    *)
(* are lost, refused or recorded without being applied: polls go on for     *)
(* every task.  (A failure that finds the task in poll_unrecognized with no *)
(* attempt left has no legal move and waits for the deadline.)              *)
VerdictArrives ==
    truth \in {"succeeded", "expired"} ~> row.status \in BusinessTerminal

=============================================================================
