---------------------------- MODULE TaskLifecycle ----------------------------
(***************************************************************************)
(* The life of one asynchronous task in the gateway: the row in the        *)
(* database, the messages about it on the bus, the workers and gateway     *)
(* requests acting on it, the scheduler, the inspector, an operator, and   *)
(* the upstream service that does the work.                                *)
(*                                                                         *)
(* Every database call of the code is a transaction of its own, so every   *)
(* call is a step of its own here; what a handler loaded (seen) may be     *)
(* stale by the time it writes, and only the status condition of the       *)
(* write (TaskDAO._cas) protects the row.  Time is abstracted: any delay   *)
(* may pass between two steps, so "due", "stalled" and "too old" are       *)
(* choices, and only the deadline, which the code writes, is state.        *)
(***************************************************************************)
EXTENDS Naturals, StateMachine

CONSTANTS
    Workers,           \* worker processes (handlers run one message at a time)
    Gateways,          \* gateway requests that may be in progress at once
    Uids,              \* the tasks the upstream may create for create requests
    NoId,              \* upstream_task_id IS NULL
    MaxAttempts,       \* max_attempts of the strategy
    MaxExt,            \* deadline_extension_max_seconds, in extensions
    Poll404Threshold,  \* POLL_404_CONFIRM_THRESHOLD
    ConfirmAuto,       \* capabilities.confirm_auto_allowed of the template
    CanCancel,         \* capabilities.cancel of the template
    Inline,            \* submit_mode = "inline" (else "queued")
    Source,            \* status_source: "poll" or "callback"; "none" if the
                       \* upstream sends no callbacks
    Requests,          \* what people may ask: "cancel", "query", "close"
    Faulty,            \* infrastructure faults that may happen
    Outcomes,          \* how the upstream's tasks may end
    Noise,             \* failures the upstream's query endpoint may show
    AttemptsCap        \* bound of the model on attempts

ASSUME AgentsAssumption == Workers \cap Gateways = {}
ASSUME NoIdAssumption == NoId \notin Uids
ASSUME LimitsAssumption ==
    /\ MaxAttempts \in Nat /\ MaxExt \in Nat /\ Poll404Threshold \in Nat
    /\ AttemptsCap \in Nat
ASSUME SwitchesAssumption ==
    /\ ConfirmAuto \in BOOLEAN /\ CanCancel \in BOOLEAN /\ Inline \in BOOLEAN
    /\ Source \in {"none", "poll", "callback"}

(* What the query endpoint may answer instead of a status: an unreadable    *)
(* body, 404, 409, 5xx or a transport error, 429, 401/403, and the URL      *)
(* guard's refusal to call it at all.                                       *)
Noises == {"garbled", "missing", "conflict", "broken", "throttled",
           "channel_fault", "ssrf"}
FaultKinds == {"crash", "redeliver", "lose", "expire"}
ASSUME NoiseAssumption ==
    /\ Noise \subseteq Noises /\ Faulty \subseteq FaultKinds
    /\ Outcomes \subseteq {"succeeded", "failed", "expired"}
    /\ Requests \subseteq {"cancel", "query", "close"}

VARIABLES
    row,      \* the AsyncTask row
    bus,      \* handler names with a message for this task on the bus
    pc,       \* where each worker or gateway request stands
    job,      \* the handler it is running
    seen,     \* the row as it loaded it
    tok,      \* the upstream task its create call or confirmation is about
    todo,     \* what it still does after its last write
    up,       \* the upstream's tasks
    cred,     \* the caller's credential is in the credential store
    gw,       \* how far accept_create got
    insp,     \* where the inspector stands
    trouble   \* infrastructure faults may still happen

agents == <<pc, job, seen, tok, todo>>
outside == <<bus, up, cred, gw, insp, trouble>>
vars == <<row, bus, pc, job, seen, tok, todo, up, cred, gw, insp, trouble>>

Agents == Workers \cup Gateways
Messages == {"submit_upstream", "poll_upstream", "compensate_orphan",
             "cancel_upstream"}
Jobs == Messages \cup {"none", "inline", "inline_reloaded", "query",
                       "cancel_request", "callback"}
UpStates == {"unused", "wire", "running", "succeeded", "failed", "expired",
             "cancelled"}
Verdicts == {"running", "succeeded", "failed", "expired"}
Places == {"idle", "loaded", "intended", "sent", "noteext", "promote",
           "resched", "found", "absent", "inconclusive", "stopped",
           "refused", "called", "finish", "raised"} \cup Verdicts \cup Noises
Sweeps == {"sweeping", "stalled", "expired", "failed"}

Row == [status : TaskStatus, intent : BOOLEAN, uid : Uids \cup {NoId},
        attempts : Nat, cancel : BOOLEAN, scheduled : BOOLEAN,
        overdue : BOOLEAN, ext : Nat, poll404 : Nat]

(* What an agent loaded of it; told is what a callback reports.             *)
Snapshot == [status : TaskStatus, uid : Uids \cup {NoId}, attempts : Nat,
             cancel : BOOLEAN, overdue : BOOLEAN, ext : Nat, poll404 : Nat,
             due : BOOLEAN, told : Verdicts]

(* The row accept_create inserts.                                           *)
NewRow == [status |-> "accepted", intent |-> FALSE, uid |-> NoId,
           attempts |-> 0, cancel |-> FALSE, scheduled |-> FALSE,
           overdue |-> FALSE, ext |-> 0, poll404 |-> 0]

Blank == [status |-> "accepted", uid |-> NoId, attempts |-> 0,
          cancel |-> FALSE, overdue |-> FALSE, ext |-> 0, poll404 |-> 0,
          due |-> FALSE, told |-> "running"]

(* What each handler goes on to read of the task it loaded.                 *)
Load(j) ==
    CASE j \in {"submit_upstream", "inline_reloaded"} ->
            [Blank EXCEPT !.status = row.status, !.attempts = row.attempts,
                          !.cancel = row.cancel, !.overdue = row.overdue,
                          !.ext = row.ext]
      [] j = "poll_upstream" ->
            [Blank EXCEPT !.status = row.status, !.uid = row.uid,
                          !.attempts = row.attempts, !.overdue = row.overdue,
                          !.poll404 = row.poll404]
      [] j = "compensate_orphan" ->
            [Blank EXCEPT !.uid = row.uid, !.cancel = row.cancel]
      [] j = "cancel_upstream" ->
            [Blank EXCEPT !.status = row.status, !.uid = row.uid]
      [] j = "query" ->
            [Blank EXCEPT !.status = row.status, !.uid = row.uid,
                          !.attempts = row.attempts]

Init ==
    /\ row = NewRow
    /\ bus = {}
    /\ pc = [w \in Agents |-> "idle"]
    /\ job = [w \in Agents |-> "none"]
    /\ seen = [w \in Agents |-> Blank]
    /\ tok = [w \in Agents |-> NoId]
    /\ todo = [w \in Agents |-> {}]
    /\ up = [u \in Uids |-> "unused"]
    /\ cred = FALSE
    /\ gw = "inserted"
    /\ insp = "sweeping"
    /\ trouble = TRUE

-----------------------------------------------------------------------------
(* How an agent moves on.                                                   *)

At(w, j, p) == job[w] = j /\ pc[w] = p

Goto(w, p) == /\ pc' = [pc EXCEPT ![w] = p]
              /\ UNCHANGED <<job, seen, tok, todo>>

(* The handler returns: the worker acknowledges its message.                *)
Return(w) ==
    /\ pc' = [pc EXCEPT ![w] = "idle"]
    /\ job' = [job EXCEPT ![w] = "none"]
    /\ seen' = [seen EXCEPT ![w] = Blank]
    /\ tok' = [tok EXCEPT ![w] = NoId]
    /\ todo' = [todo EXCEPT ![w] = {}]

(* The handler still has something to send or to drop after its write.  An  *)
(* inline submit always has: it reloads the row to answer the caller.       *)
Then(w, acts) ==
    IF acts = {} /\ job[w] # "inline_reloaded"
    THEN Return(w)
    ELSE /\ pc' = [pc EXCEPT ![w] = "finish"]
         /\ todo' = [todo EXCEPT ![w] = acts]
         /\ seen' = [seen EXCEPT ![w] = Blank]
         /\ tok' = [tok EXCEPT ![w] = NoId]
         /\ UNCHANGED job

(* Faulty variant: the write does not check the status again.               *)
AdvanceBlind(w, expected, dst, new, won, lost) ==
    IF \E src \in expected : ~CanTransition(src, dst)
    THEN Goto(w, "raised") /\ UNCHANGED row
    ELSE row' = [new EXCEPT !.status = dst] /\ Then(w, won)

(* A conditional write that moves the status.  A source outside the         *)
(* whitelist raises TransitionError before the database is touched.         *)
Advance(w, expected, dst, new, won, lost) ==
    IF \E src \in expected : ~CanTransition(src, dst)
    THEN Goto(w, "raised") /\ UNCHANGED row
    ELSE IF row.status \in expected
    THEN row' = [new EXCEPT !.status = dst] /\ Then(w, won)
    ELSE UNCHANGED row /\ Then(w, lost)

(* Terminal moves clear next_poll_at; the other moves set it.               *)
Parked == [row EXCEPT !.scheduled = FALSE]
Due == [row EXCEPT !.scheduled = TRUE]

(* schedule_next_poll: only an active row is rescheduled.                   *)
ScheduleNextPoll ==
    row' = IF row.status \in ActiveStatuses THEN Due ELSE row

(* release_submit_intent, for an attempt that does not count.               *)
Refunded == [row EXCEPT !.intent = FALSE, !.scheduled = TRUE,
                        !.attempts = IF @ > 0 THEN @ - 1 ELSE 0]

(* relocate_compensate overwrites attributes with its note, and with them   *)
(* the recorded extensions and the 404 count.                               *)
Relocated(u) == [row EXCEPT !.uid = u, !.scheduled = TRUE, !.ext = 0,
                            !.poll404 = 0]

(* The statuses each handler acts on; it drops the message in the others.   *)
Concerns(m) ==
    CASE m = "submit_upstream" -> {"accepted", "failed"}
      [] m = "poll_upstream" -> {"upstream_submitted", "in_progress",
                                 "poll_unrecognized", "submit_unknown"}
      [] m = "compensate_orphan" -> {"submit_unknown"}
      [] m = "cancel_upstream" -> TaskStatus \ BusinessTerminal

(* A worker takes a message and loads the row.                              *)
Consume(w, m) ==
    /\ pc[w] = "idle" /\ m \in bus
    /\ bus' = bus \ {m}
    /\ IF row.status \in Concerns(m)
       THEN /\ pc' = [pc EXCEPT ![w] = "loaded"]
            /\ job' = [job EXCEPT ![w] = m]
            /\ seen' = [seen EXCEPT ![w] = Load(m)]
            /\ UNCHANGED <<tok, todo>>
       ELSE UNCHANGED agents
    /\ UNCHANGED <<row, up, cred, gw, insp, trouble>>

(* The writes after the last status move: messages, and the credential,     *)
(* which finalize_task drops if it finds the task over.                     *)
Finish(w) ==
    /\ pc[w] = "finish"
    /\ bus' = bus \cup (todo[w] \cap Messages)
                  \cup IF /\ job[w] = "inline_reloaded"
                          /\ row.status = "upstream_submitted"
                       THEN {"poll_upstream"} ELSE {}
    /\ cred' = (/\ cred /\ "drop" \notin todo[w]
                /\ ~("finalize" \in todo[w] /\ row.status \in BusinessTerminal))
    /\ Return(w)
    /\ UNCHANGED <<row, up, gw, insp, trouble>>

(* An exception leaves the message unacknowledged, to be claimed again; a   *)
(* gateway request just fails.                                              *)
Unwind(w) ==
    /\ pc[w] = "raised"
    /\ bus' = bus \cup ({job[w]} \cap Messages)
    /\ Return(w)
    /\ UNCHANGED <<row, up, cred, gw, insp, trouble>>

-----------------------------------------------------------------------------
(* submit_upstream                                                          *)

Submitting(w) == At(w, "submit_upstream", "loaded")

SubmitOverdue(w) ==
    /\ Submitting(w) /\ seen[w].overdue
    /\ Advance(w, {seen[w].status}, "timeout", Parked, {"drop"}, {})
    /\ UNCHANGED outside

SubmitCancelled(w) ==
    /\ Submitting(w) /\ ~seen[w].overdue /\ seen[w].cancel
    /\ Advance(w, {seen[w].status}, "cancelled", Parked, {"drop"}, {})
    /\ UNCHANGED outside

(* The credential is dropped whether or not the move to dead took effect.   *)
SubmitNoCredential(w) ==
    /\ Submitting(w) /\ ~seen[w].overdue /\ ~seen[w].cancel /\ ~cred
    /\ Advance(w, {seen[w].status}, "dead", Parked, {"drop"}, {"drop"})
    /\ UNCHANGED outside

(* The concurrency limiter has no slot.                                     *)
SubmitDenied(w) ==
    /\ Submitting(w) /\ ~seen[w].overdue /\ ~seen[w].cancel /\ cred
    /\ ScheduleNextPoll
    /\ Return(w)
    /\ UNCHANGED outside

(* Faulty variant: an intent taken by another path is not respected.        *)
SubmitIntentShared(w) ==
    /\ Submitting(w) /\ ~seen[w].overdue /\ ~seen[w].cancel /\ cred
    /\ row.attempts < AttemptsCap
    /\ IF row.status = "accepted"
       THEN /\ row' = [row EXCEPT !.intent = TRUE, !.attempts = @ + 1]
            /\ Goto(w, "intended")
       ELSE UNCHANGED row /\ Return(w)
    /\ UNCHANGED outside

(* mark_submit_intent: the one gate in front of every create call.          *)
SubmitIntent(w) ==
    /\ Submitting(w) /\ ~seen[w].overdue /\ ~seen[w].cancel /\ cred
    /\ row.attempts < AttemptsCap
    /\ IF row.status = "accepted" /\ ~row.intent
       THEN /\ row' = [row EXCEPT !.intent = TRUE, !.attempts = @ + 1]
            /\ Goto(w, "intended")
       ELSE UNCHANGED row /\ Return(w)
    /\ UNCHANGED outside

SubmitBodyLost(w) ==
    /\ At(w, "submit_upstream", "intended")
    /\ Advance(w, {seen[w].status}, "dead", Parked, {"drop"}, {})
    /\ UNCHANGED outside

(* The create request leaves for the upstream.                              *)
SendCreate(w, u) ==
    /\ pc[w] = "intended" /\ job[w] # "inline_reloaded"
    /\ up[u] = "unused"
    /\ up' = [up EXCEPT ![u] = "wire"]
    /\ pc' = [pc EXCEPT ![w] = "sent"]
    /\ tok' = [tok EXCEPT ![w] = u]
    /\ UNCHANGED <<row, bus, job, seen, todo, cred, gw, insp, trouble>>

-----------------------------------------------------------------------------
(* _handle_submit_result, for workers and for inline submits.               *)

Submittable == {"accepted", "failed"}
Handles(w, p) == pc[w] = p /\ job[w] # "inline"

(* The URL guard refused, so nothing was sent.                              *)
SsrfRejected(w) ==
    /\ Handles(w, "intended")
    /\ Advance(w, Submittable, "dead", Parked, {"drop"}, {"drop"})
    /\ UNCHANGED outside

(* No connection, so nothing was sent: retry while attempts last, counted   *)
(* in the row as it was loaded.                                             *)
ConnectFailed(w) ==
    /\ Handles(w, "intended")
    /\ IF seen[w].attempts >= MaxAttempts
       THEN Advance(w, Submittable, "dead", Parked, {"drop"}, {"drop"})
       ELSE /\ row' = IF row.status \in Submittable
                      THEN [row EXCEPT !.intent = FALSE, !.scheduled = TRUE]
                      ELSE row
            /\ Then(w, {})
    /\ UNCHANGED outside

Created(u) == up[u] \notin {"unused", "wire"}

(* Faulty variant: a cancel is forwarded whether or not one was asked for.  *)
ReplyCreatedCancels(w) ==
    /\ Handles(w, "sent") /\ Created(tok[w])
    /\ IF row.status = "accepted" /\ row.intent
       THEN /\ row' = [row EXCEPT !.status = "upstream_submitted",
                                  !.uid = tok[w], !.scheduled = TRUE]
            /\ Then(w, {"poll_upstream", "cancel_upstream"})
       ELSE UNCHANGED row /\ Then(w, {})
    /\ UNCHANGED outside

(* A 2xx answer with the id.  A cancel request in the loaded row is         *)
(* forwarded at once.                                                       *)
ReplyCreated(w) ==
    /\ Handles(w, "sent") /\ Created(tok[w])
    /\ IF row.status = "accepted" /\ row.intent
       THEN /\ row' = [row EXCEPT !.status = "upstream_submitted",
                                  !.uid = tok[w], !.scheduled = TRUE]
            /\ Then(w, {"poll_upstream"} \cup
                       IF seen[w].cancel THEN {"cancel_upstream"} ELSE {})
       ELSE UNCHANGED row /\ Then(w, {})
    /\ UNCHANGED outside

(* Faulty variant: an unclear answer is retried like a refused connection.  *)
ReplyUnclearRetries(w) ==
    /\ Handles(w, "sent")
    /\ row' = IF row.status \in Submittable
              THEN [row EXCEPT !.intent = FALSE, !.scheduled = TRUE] ELSE row
    /\ Then(w, {})
    /\ UNCHANGED outside

(* Faulty variant: submit_unknown without a next_poll_at.                   *)
ReplyUnclearParks(w) ==
    /\ Handles(w, "sent")
    /\ Advance(w, {"accepted"}, "submit_unknown", Parked,
               {"compensate_orphan"}, {"compensate_orphan"})
    /\ UNCHANGED outside

(* A timeout, a lost answer, 5xx, 409, or 2xx without an id: the upstream   *)
(* may or may not have created the task.                                    *)
ReplyUnclear(w) ==
    /\ Handles(w, "sent")
    /\ Advance(w, {"accepted"}, "submit_unknown", Due,
               {"compensate_orphan"}, {"compensate_orphan"})
    /\ UNCHANGED outside

Answered(w) == up' = [up EXCEPT ![tok[w]] = "unused"]

(* 429, 401 or 403: give the attempt back and, while the budget lasts,      *)
(* extend the deadline; the extension is noted in a second transaction.     *)
ReplyPushback(w) ==
    /\ Handles(w, "sent") /\ up[tok[w]] = "wire"
    /\ Answered(w)
    /\ IF row.status \notin Submittable
       THEN UNCHANGED row /\ Then(w, {})
       ELSE IF seen[w].ext < MaxExt
       THEN row' = [Refunded EXCEPT !.overdue = FALSE] /\ Goto(w, "noteext")
       ELSE row' = Refunded /\ Then(w, {})
    /\ UNCHANGED <<bus, cred, gw, insp, trouble>>

NoteExtension(w) ==
    /\ pc[w] = "noteext"
    /\ row' = IF row.status \in ActiveStatuses
              THEN [row EXCEPT !.ext = seen[w].ext + 1] ELSE row
    /\ Then(w, {})
    /\ UNCHANGED outside

(* Any other 4xx.                                                           *)
ReplyRejected(w) ==
    /\ Handles(w, "sent") /\ up[tok[w]] = "wire"
    /\ Answered(w)
    /\ Advance(w, Submittable, "dead", Parked, {"drop"}, {"drop"})
    /\ UNCHANGED <<bus, cred, gw, insp, trouble>>

SubmitStep(w) ==
    \/ SubmitOverdue(w) \/ SubmitCancelled(w) \/ SubmitNoCredential(w)
    \/ SubmitDenied(w) \/ SubmitIntent(w) \/ SubmitBodyLost(w)

CreateStep(w) ==
    \/ \E u \in Uids : SendCreate(w, u)
    \/ SsrfRejected(w) \/ ConnectFailed(w)
    \/ ReplyCreated(w) \/ ReplyUnclear(w) \/ ReplyPushback(w)
    \/ NoteExtension(w) \/ ReplyRejected(w)

-----------------------------------------------------------------------------
(* poll_upstream, and the refresh a caller's query triggers.                *)

Polling(w) == At(w, "poll_upstream", "loaded")

PollDivert(w) ==
    /\ Polling(w) /\ seen[w].status = "submit_unknown"
    /\ Then(w, {"compensate_orphan"})
    /\ UNCHANGED row /\ UNCHANGED outside

PollOverdue(w) ==
    /\ Polling(w) /\ seen[w].status # "submit_unknown" /\ seen[w].overdue
    /\ Advance(w, {seen[w].status}, "timeout", Parked, {"drop"}, {})
    /\ UNCHANGED outside

(* The channel is paused, or the limiter has no slot.                       *)
PollDeferred(w) ==
    /\ Polling(w) /\ seen[w].status # "submit_unknown" /\ ~seen[w].overdue
    /\ ScheduleNextPoll
    /\ Return(w)
    /\ UNCHANGED outside

(* Faulty variant: a status outside the template's lists is kept as it is.  *)
VerdictsUnmapped(s) == {s}

(* What the template makes of the status the upstream reports.  A cancelled *)
(* task is a failed one if the template lists the status; a status in none  *)
(* of its lists counts as running.                                          *)
VerdictsOf(s) == IF s = "cancelled" THEN {"failed", "running"} ELSE {s}

(* poll_once: the answer is as old as this call when it is handled.  A task *)
(* in a polled status without an id is sent to confirmation instead.        *)
PollCall(w) ==
    /\ Polling(w) /\ seen[w].status # "submit_unknown" /\ ~seen[w].overdue
    /\ IF seen[w].uid = NoId
       THEN Advance(w, {seen[w].status}, "submit_unknown", Due, {}, {})
       ELSE /\ \E a \in VerdictsOf(up[seen[w].uid]) \cup Noise : Goto(w, a)
            /\ UNCHANGED row
    /\ UNCHANGED outside

(* _handle_query only handles 2xx answers.                                  *)
QueryRefresh(g) ==
    /\ pc[g] = "idle" /\ "query" \in Requests
    /\ row.status \notin BusinessTerminal /\ row.uid # NoId
    /\ pc' = [pc EXCEPT ![g] = "loaded"]
    /\ job' = [job EXCEPT ![g] = "query"]
    /\ seen' = [seen EXCEPT ![g] = Load("query")]
    /\ UNCHANGED <<row, tok, todo>> /\ UNCHANGED outside

QueryCall(g) ==
    /\ At(g, "query", "loaded")
    /\ \E a \in VerdictsOf(up[seen[g].uid]) \cup (Noise \cap {"garbled"}) :
          Goto(g, a)
    /\ UNCHANGED row /\ UNCHANGED outside

-----------------------------------------------------------------------------
(* _handle_poll_result                                                      *)

(* A write that keeps the status it expects.                                *)
IfUnmoved(w, new) == row' = IF row.status = seen[w].status THEN new ELSE row

(* Still running: record it, and move on to in_progress separately.         *)
PollRunning(w) ==
    /\ pc[w] = "running"
    /\ IfUnmoved(w, Due)
    /\ IF seen[w].status = "in_progress" THEN Return(w) ELSE Goto(w, "promote")
    /\ UNCHANGED outside

PollPromote(w) ==
    /\ pc[w] = "promote"
    /\ Advance(w, {seen[w].status}, "in_progress", row, {}, {})
    /\ UNCHANGED outside

PollSucceeded(w) ==
    /\ pc[w] = "succeeded"
    /\ Advance(w, {seen[w].status}, "succeeded", Parked, {"drop"}, {})
    /\ UNCHANGED outside

PollExpired(w) ==
    /\ pc[w] = "expired"
    /\ Advance(w, {seen[w].status}, "timeout", Parked, {"drop"}, {})
    /\ UNCHANGED outside

(* The upstream's task failed: to be retried while attempts last.           *)
PollFailed(w) ==
    /\ pc[w] = "failed"
    /\ IF seen[w].attempts < MaxAttempts
       THEN Advance(w, {seen[w].status}, "failed", Due, {}, {})
       ELSE Advance(w, {seen[w].status}, "dead", Parked, {"drop"}, {})
    /\ UNCHANGED outside

PollGarbled(w) ==
    /\ pc[w] = "garbled"
    /\ IF seen[w].status = "poll_unrecognized"
       THEN IfUnmoved(w, Due) /\ Return(w)
       ELSE Advance(w, {seen[w].status}, "poll_unrecognized", Due, {}, {})
    /\ UNCHANGED outside

(* Faulty variant: the id of the doubted task is forgotten.                 *)
PollDoubtedForgets(w) ==
    /\ pc[w] \in {"missing", "conflict"}
    /\ Advance(w, {seen[w].status}, "submit_unknown",
               [Due EXCEPT !.uid = NoId], {"compensate_orphan"}, {})
    /\ UNCHANGED outside

(* 404 below the threshold is counted; 404 at the threshold, and 409, send  *)
(* the task to confirmation.                                                *)
PollDoubted(w) ==
    /\ pc[w] \in {"missing", "conflict"}
    /\ IF pc[w] = "missing" /\ seen[w].poll404 + 1 < Poll404Threshold
       THEN /\ row' = IF row.status \in ActiveStatuses
                      THEN [row EXCEPT !.poll404 = seen[w].poll404 + 1]
                      ELSE row
            /\ Goto(w, "resched")
       ELSE Advance(w, {seen[w].status}, "submit_unknown", Due,
                    {"compensate_orphan"}, {"compensate_orphan"})
    /\ UNCHANGED outside

(* 5xx and transport errors: mark_failure clears next_poll_at, and a second *)
(* transaction sets it again.                                               *)
PollBroken(w) ==
    /\ pc[w] = "broken"
    /\ IfUnmoved(w, Parked)
    /\ Goto(w, "resched")
    /\ UNCHANGED outside

PollReschedule(w) ==
    /\ pc[w] \in {"resched", "channel_fault"}
    /\ ScheduleNextPoll
    /\ Return(w)
    /\ UNCHANGED outside

PollThrottled(w) ==
    /\ pc[w] = "throttled"
    /\ IfUnmoved(w, Due)
    /\ Return(w)
    /\ UNCHANGED outside

PollSsrf(w) ==
    /\ pc[w] = "ssrf"
    /\ Advance(w, {seen[w].status}, "dead", Parked, {"drop"}, {"drop"})
    /\ UNCHANGED outside

PollStep(w) ==
    \/ PollDivert(w) \/ PollOverdue(w) \/ PollDeferred(w) \/ PollCall(w)

PollResultStep(w) ==
    \/ PollRunning(w) \/ PollPromote(w) \/ PollSucceeded(w) \/ PollExpired(w)
    \/ PollFailed(w) \/ PollGarbled(w) \/ PollDoubted(w) \/ PollBroken(w)
    \/ PollReschedule(w) \/ PollThrottled(w) \/ PollSsrf(w)

-----------------------------------------------------------------------------
(* compensate_orphan: the only way out of submit_unknown.                   *)

Compensating(w) == At(w, "compensate_orphan", "loaded")
Unknown == {"submit_unknown"}

CompensateCancelled(w) ==
    /\ Compensating(w) /\ seen[w].cancel
    /\ Advance(w, Unknown, "dead_awaiting_confirm", Parked, {"drop"}, {})
    /\ UNCHANGED outside

(* Faulty variant: polling is resumed without an id.                        *)
CompensateResumeBlind(w) ==
    /\ Compensating(w) /\ ~seen[w].cancel
    /\ Advance(w, Unknown, "upstream_submitted", Relocated(seen[w].uid),
               {"poll_upstream"}, {})
    /\ UNCHANGED outside

(* The id is known, so the task exists: back to polling.                    *)
CompensateResume(w) ==
    /\ Compensating(w) /\ ~seen[w].cancel /\ seen[w].uid # NoId
    /\ Advance(w, Unknown, "upstream_submitted", Relocated(seen[w].uid),
               {"poll_upstream"}, {})
    /\ UNCHANGED outside

(* Unknown for too long, or the template never re-creates on its own.       *)
CompensateGiveUp(w) ==
    /\ Compensating(w) /\ ~seen[w].cancel /\ seen[w].uid = NoId
    /\ Advance(w, Unknown, "dead_awaiting_confirm", Parked, {"drop"}, {})
    /\ UNCHANGED outside

(* _confirm: ask the upstream whether it created the task.                  *)
ConfirmCall(w) ==
    /\ Compensating(w) /\ ~seen[w].cancel /\ seen[w].uid = NoId
    /\ ConfirmAuto
    /\ \/ \E u \in Uids : /\ Created(u)
                          /\ pc' = [pc EXCEPT ![w] = "found"]
                          /\ tok' = [tok EXCEPT ![w] = u]
                          /\ UNCHANGED <<job, seen, todo>>
       \/ (\A u \in Uids : ~Created(u)) /\ Goto(w, "absent")
       \/ Goto(w, "inconclusive")
    /\ UNCHANGED row /\ UNCHANGED outside

CompensateFound(w) ==
    /\ pc[w] = "found"
    /\ Advance(w, Unknown, "upstream_submitted", Relocated(tok[w]),
               {"poll_upstream"}, {"poll_upstream"})
    /\ UNCHANGED outside

(* Not created: give the submit intent back and create again.               *)
CompensateAbsent(w) ==
    /\ pc[w] = "absent"
    /\ Advance(w, Unknown, "accepted", [Due EXCEPT !.intent = FALSE],
               {"submit_upstream"}, {})
    /\ UNCHANGED outside

(* No conclusion: relocate_compensate back to submit_unknown itself.        *)
CompensateInconclusive(w) ==
    /\ pc[w] = "inconclusive"
    /\ Advance(w, Unknown, "submit_unknown", [Due EXCEPT !.ext = 0,
               !.poll404 = 0], {}, {})
    /\ UNCHANGED outside

CompensateStep(w) ==
    \/ CompensateCancelled(w) \/ CompensateResume(w) \/ CompensateGiveUp(w)
    \/ ConfirmCall(w) \/ CompensateFound(w) \/ CompensateAbsent(w)
    \/ CompensateInconclusive(w)

-----------------------------------------------------------------------------
(* cancel_upstream                                                          *)

Cancelling(w) == At(w, "cancel_upstream", "loaded")

(* The upstream cannot cancel: only a task not yet submitted is cancelled,  *)
(* and its credential dropped even if it was submitted meanwhile.           *)
CancelUnsupported(w) ==
    /\ Cancelling(w) /\ ~CanCancel
    /\ IF seen[w].status = "accepted"
       THEN Advance(w, {"accepted"}, "cancelled", Parked, {"drop"}, {"drop"})
       ELSE ScheduleNextPoll /\ Return(w)
    /\ UNCHANGED outside

CancelUnsent(w) ==
    /\ Cancelling(w) /\ CanCancel /\ seen[w].uid = NoId
    /\ Advance(w, {"accepted"}, "cancelled", Parked, {"drop"}, {})
    /\ UNCHANGED outside

(* The call stops a running task; 404 and 409 answers come from tasks that  *)
(* no longer run, and count as stopped.  Any other answer, or none, may     *)
(* come with or without effect.                                             *)
CancelCall(w) ==
    /\ Cancelling(w) /\ CanCancel /\ seen[w].uid # NoId
    /\ \E s \in {up[seen[w].uid]} \cup
                (IF up[seen[w].uid] = "running" THEN {"cancelled"} ELSE {}) :
          /\ up' = [up EXCEPT ![seen[w].uid] = s]
          /\ \E a \in {"refused"} \cup
                      (IF s = "running" THEN {} ELSE {"stopped"}) : Goto(w, a)
    /\ UNCHANGED <<row, bus, cred, gw, insp, trouble>>

CancelDone(w) ==
    /\ pc[w] = "stopped"
    /\ Advance(w, {seen[w].status}, "cancelled", Parked, {"drop"}, {})
    /\ UNCHANGED outside

CancelRefused(w) ==
    /\ pc[w] = "refused"
    /\ ScheduleNextPoll
    /\ Return(w)
    /\ UNCHANGED outside

CancelStep(w) ==
    \/ CancelUnsupported(w) \/ CancelUnsent(w) \/ CancelCall(w)
    \/ CancelDone(w) \/ CancelRefused(w)

-----------------------------------------------------------------------------
(* The gateway: accept_create after the insert, _inline_submit and          *)
(* _handle_cancel.                                                          *)

(* Keep the caller's credential and leave the task to the queue.            *)
AcceptQueued ==
    /\ gw = "inserted" /\ ~Inline
    /\ gw' = "done" /\ cred' = TRUE
    /\ bus' = bus \cup {"submit_upstream"}
    /\ UNCHANGED <<row, up, insp, trouble>> /\ UNCHANGED agents

(* Keep it and try to take the submit intent at once; if another path has   *)
(* it, the task is left to the queue.                                       *)
AcceptInline(g) ==
    /\ gw = "inserted" /\ Inline /\ pc[g] = "idle"
    /\ gw' = "done" /\ cred' = TRUE
    /\ job' = [job EXCEPT ![g] = "inline"]
    /\ IF row.status = "accepted" /\ ~row.intent
       THEN /\ row' = [row EXCEPT !.intent = TRUE, !.attempts = @ + 1]
            /\ pc' = [pc EXCEPT ![g] = "intended"]
            /\ UNCHANGED todo
       ELSE /\ pc' = [pc EXCEPT ![g] = "finish"]
            /\ todo' = [todo EXCEPT ![g] = {"submit_upstream"}]
            /\ UNCHANGED row
    /\ UNCHANGED <<bus, seen, tok, up, insp, trouble>>

(* Faulty variant: the intent is given back after the request has left.     *)
InlineDeniedLate(g) ==
    /\ job[g] = "inline" /\ pc[g] \in {"intended", "sent"}
    /\ row' = IF row.status = "accepted" THEN Refunded ELSE row
    /\ Then(g, {"submit_upstream"})
    /\ UNCHANGED outside

(* The limiter has no slot: give the intent back and leave it to the queue. *)
InlineDenied(g) ==
    /\ At(g, "inline", "intended")
    /\ row' = IF row.status = "accepted" THEN Refunded ELSE row
    /\ Then(g, {"submit_upstream"})
    /\ UNCHANGED outside

(* The call is over; the result is handled against the row reloaded now.    *)
InlineReload(g) ==
    /\ job[g] = "inline" /\ pc[g] \in {"intended", "sent"}
    /\ job' = [job EXCEPT ![g] = "inline_reloaded"]
    /\ seen' = [seen EXCEPT ![g] = Load("inline_reloaded")]
    /\ UNCHANGED <<row, pc, tok, todo>> /\ UNCHANGED outside

RequestCancel(g) ==
    /\ pc[g] = "idle" /\ "cancel" \in Requests
    /\ row.status \in CancelPreconditions
    /\ row' = [row EXCEPT !.cancel = TRUE]
    /\ pc' = [pc EXCEPT ![g] = "finish"]
    /\ job' = [job EXCEPT ![g] = "cancel_request"]
    /\ todo' = [todo EXCEPT ![g] = {"cancel_upstream"}]
    /\ UNCHANGED <<seen, tok>> /\ UNCHANGED outside

-----------------------------------------------------------------------------
(* The gateway: receive_callback and _apply_callback.  Reports come late,   *)
(* repeatedly and in any order; which of them were recorded before is the   *)
(* matter of module Results.                                                *)

(* A report about a task created for this row, against the row as it is now.*)
ReceiveCallback(g, u) ==
    /\ pc[g] = "idle" /\ Source # "none" /\ Created(u)
    /\ row.status \notin BusinessTerminal
    /\ \E v \in {"running"} \cup VerdictsOf(up[u]) :
          seen' = [seen EXCEPT ![g] = [Blank EXCEPT !.status = row.status,
                                          !.due = row.scheduled, !.told = v]]
    /\ pc' = [pc EXCEPT ![g] = "called"]
    /\ job' = [job EXCEPT ![g] = "callback"]
    /\ UNCHANGED <<row, tok, todo>> /\ UNCHANGED outside

(* Progress: the snapshot is replaced, and next_poll_at set as it was       *)
(* loaded, if there was one.                                                *)
CallbackProgress(g) ==
    /\ pc[g] = "called" /\ seen[g].told = "running"
    /\ row' = IF row.status = seen[g].status
              THEN [row EXCEPT !.scheduled = @ \/ seen[g].due] ELSE row
    /\ Return(g)
    /\ UNCHANGED outside

(* A verdict where polls decide: the next poll is due, nothing else.        *)
CallbackArbitrated(g) ==
    /\ pc[g] = "called" /\ seen[g].told # "running" /\ Source = "poll"
    /\ ScheduleNextPoll
    /\ Return(g)
    /\ UNCHANGED outside

(* Faulty variant: the verdict is not read.                                 *)
CallbackBelieved(g) ==
    /\ pc[g] = "called" /\ seen[g].told # "running" /\ Source = "callback"
    /\ Advance(g, {seen[g].status}, "succeeded", Parked, {"finalize"}, {})
    /\ UNCHANGED outside

(* A verdict where callbacks decide.  A failure is written as failed with   *)
(* or without attempts left, and leaves next_poll_at as it is.              *)
CallbackVerdict(g) ==
    /\ pc[g] = "called" /\ seen[g].told # "running" /\ Source = "callback"
    /\ \/ /\ seen[g].told = "succeeded"
          /\ Advance(g, {seen[g].status}, "succeeded", Parked, {"finalize"}, {})
       \/ /\ seen[g].told = "expired"
          /\ Advance(g, {seen[g].status}, "timeout", Parked, {"finalize"}, {})
       \/ /\ seen[g].told = "failed"
          /\ Advance(g, {seen[g].status}, "failed", row, {"finalize"}, {})
    /\ UNCHANGED outside

CallbackStep(g) ==
    \/ CallbackProgress(g) \/ CallbackArbitrated(g) \/ CallbackVerdict(g)

GatewayStep(g) ==
    \/ AcceptInline(g) \/ InlineDenied(g) \/ InlineReload(g)
    \/ RequestCancel(g) \/ QueryRefresh(g) \/ QueryCall(g)
    \/ \E u \in Uids : ReceiveCallback(g, u)
    \/ CallbackStep(g)

-----------------------------------------------------------------------------
(* The scheduler: dispatch_due.  An accepted row is dispatched only without *)
(* a submit intent.  The lease it writes keeps next_poll_at set.            *)

(* Faulty variant: tasks in submit_unknown are not dispatched.              *)
SchedulerPolls ==
    /\ row.scheduled /\ row.status \in ActiveStatuses \ {"submit_unknown"}
    /\ row.status = "accepted" => ~row.intent
    /\ bus' = bus \cup {DispatchByStatus(row.status)}
    /\ UNCHANGED <<row, up, cred, gw, insp, trouble>> /\ UNCHANGED agents

(* due_for_dispatch: an accepted task only without a submit intent.         *)
DueForDispatch ==
    /\ row.scheduled /\ row.status \in ActiveStatuses
    /\ row.status = "accepted" => ~row.intent

SchedulerDispatch ==
    /\ DueForDispatch
    /\ bus' = bus \cup {DispatchByStatus(row.status)}
    /\ UNCHANGED <<row, up, cred, gw, insp, trouble>> /\ UNCHANGED agents

-----------------------------------------------------------------------------
(* The inspector's sweeps.  A sweep picks rows by age, which is a choice    *)
(* here, so the next one to find this row may be any of them; but the       *)
(* sweeps over unknown and stalled rows run after scan_deadlines in the     *)
(* same tick, which has timed an overdue row out or has ended the tick.     *)
(* A sweep reads the row and then moves it from the status it read; only an *)
(* accepted row can change between the two in a way the write does not      *)
(* notice (its intent is released, its deadline extended), so only for it   *)
(* they are two steps.                                                      *)

inspectorOnly == <<up, cred, gw, trouble>>

(* advance(..., expected=[task.status]); an exception ends the whole tick.  *)
(* The message goes out before the sweep's transaction commits: a worker    *)
(* that takes it first still finds the old status and drops it.             *)
SweepMove(src, dst, new, msgs) ==
    IF ~CanTransition(src, dst)
    THEN insp' = "failed" /\ UNCHANGED <<row, bus>>
    ELSE /\ insp' = "sweeping"
         /\ IF row.status = src
            THEN /\ row' = [new EXCEPT !.status = dst]
                 /\ bus' \in {bus, bus \cup msgs}
            ELSE UNCHANGED <<row, bus>>

(* Without a submit intent the upstream was never called: submit again.     *)
ScanAcceptedStalls ==
    /\ insp = "sweeping" /\ row.status = "accepted"
    /\ IF row.intent
       THEN insp' = "stalled" /\ UNCHANGED bus
       ELSE bus' = bus \cup {"submit_upstream"} /\ UNCHANGED insp
    /\ UNCHANGED row /\ UNCHANGED inspectorOnly /\ UNCHANGED agents

(* With one, the upstream may have been called: never submit unconfirmed.   *)
StalledToUnknown ==
    /\ insp = "stalled"
    /\ SweepMove("accepted", "submit_unknown", Due, {"compensate_orphan"})
    /\ UNCHANGED inspectorOnly /\ UNCHANGED agents

ScanDeadlines ==
    /\ insp = "sweeping" /\ row.status \in ActiveStatuses /\ row.overdue
    /\ IF row.status = "accepted"
       THEN insp' = "expired" /\ UNCHANGED <<row, bus>>
       ELSE SweepMove(row.status, "timeout", Parked, {})
    /\ UNCHANGED inspectorOnly /\ UNCHANGED agents

ExpiredToTimeout ==
    /\ insp = "expired"
    /\ SweepMove("accepted", "timeout", Parked, {})
    /\ UNCHANGED inspectorOnly /\ UNCHANGED agents

BoundUnknowns ==
    /\ insp = "sweeping" /\ ~row.overdue
    /\ row.status \in {"submit_unknown", "poll_unrecognized"}
    /\ SweepMove(row.status, "dead_awaiting_confirm", Parked, {})
    /\ UNCHANGED inspectorOnly /\ UNCHANGED agents

ReconcileOrphans ==
    /\ insp = "sweeping" /\ ~row.overdue
    /\ row.status \in {"upstream_submitted", "in_progress"}
    /\ SweepMove(row.status, "submit_unknown", Due, {"compensate_orphan"})
    /\ UNCHANGED inspectorOnly /\ UNCHANGED agents

NextTick ==
    /\ insp = "failed" /\ insp' = "sweeping"
    /\ UNCHANGED <<row, bus>> /\ UNCHANGED inspectorOnly /\ UNCHANGED agents

InspectorStep ==
    \/ ScanAcceptedStalls \/ StalledToUnknown \/ ScanDeadlines
    \/ ExpiredToTimeout \/ BoundUnknowns \/ ReconcileOrphans \/ NextTick

(* close_task: an operator closes the task.                                 *)
CloseTask ==
    /\ "close" \in Requests /\ CanTransition(row.status, "dead")
    /\ row' = [Parked EXCEPT !.status = "dead"]
    /\ UNCHANGED <<bus, up, cred, gw, insp, trouble>> /\ UNCHANGED agents

-----------------------------------------------------------------------------
(* The environment: the upstream, the clock, and infrastructure faults.     *)

UpCreate(u) ==
    /\ up[u] = "wire"
    /\ up' = [up EXCEPT ![u] = "running"]
    /\ UNCHANGED <<row, bus, cred, gw, insp, trouble>> /\ UNCHANGED agents

UpEnd(u, s) ==
    /\ up[u] = "running"
    /\ up' = [up EXCEPT ![u] = s]
    /\ UNCHANGED <<row, bus, cred, gw, insp, trouble>> /\ UNCHANGED agents

(* A request nobody waits for any more is lost on the way.                  *)
UpLose(u) ==
    /\ up[u] = "wire" /\ \A w \in Agents : pc[w] = "sent" => tok[w] # u
    /\ up' = [up EXCEPT ![u] = "unused"]
    /\ UNCHANGED <<row, bus, cred, gw, insp, trouble>> /\ UNCHANGED agents

DeadlinePasses ==
    /\ ~row.overdue /\ row.status \in ActiveStatuses
    /\ row' = [row EXCEPT !.overdue = TRUE]
    /\ UNCHANGED outside /\ UNCHANGED agents

Environment ==
    \/ \E u \in Uids : \/ UpCreate(u) \/ UpLose(u)
                       \/ \E s \in Outcomes : UpEnd(u, s)
    \/ DeadlinePasses

Fault(f) == trouble /\ f \in Faulty

(* The store's TTL, or the loss of the store.                               *)
CredentialExpires ==
    /\ Fault("expire") /\ cred /\ cred' = FALSE
    /\ UNCHANGED <<row, bus, up, gw, insp, trouble>> /\ UNCHANGED agents

(* A process dies: a worker's message stays unacknowledged, a gateway       *)
(* request is gone.                                                         *)
Crash(w) ==
    /\ Fault("crash") /\ pc[w] # "idle"
    /\ bus' = bus \cup ({job[w]} \cap Messages)
    /\ Return(w)
    /\ UNCHANGED <<row, up, cred, gw, insp, trouble>>

(* The gateway dies after the insert, before or after it put the credential.*)
AcceptCrash ==
    /\ Fault("crash") /\ gw = "inserted"
    /\ gw' = "done" /\ cred' \in BOOLEAN
    /\ UNCHANGED <<row, bus, up, insp, trouble>> /\ UNCHANGED agents

(* claim_stale hands a slow worker's message to another worker.             *)
Redeliver(w) ==
    /\ Fault("redeliver") /\ job[w] \in Messages
    /\ bus' = bus \cup {job[w]}
    /\ UNCHANGED <<row, up, cred, gw, insp, trouble>> /\ UNCHANGED agents

(* An enqueue fails, or the bus loses what it held.                         *)
LoseMessage(m) ==
    /\ Fault("lose") /\ m \in bus
    /\ bus' = bus \ {m}
    /\ UNCHANGED <<row, up, cred, gw, insp, trouble>> /\ UNCHANGED agents

TroubleEnds ==
    /\ trouble /\ trouble' = FALSE
    /\ UNCHANGED <<row, bus, up, cred, gw, insp>> /\ UNCHANGED agents

Faults ==
    \/ \E w \in Agents : Crash(w) \/ Redeliver(w)
    \/ \E m \in Messages : LoseMessage(m)
    \/ AcceptCrash \/ CredentialExpires

-----------------------------------------------------------------------------
WorkerStep(w) ==
    \/ SubmitStep(w) \/ PollStep(w) \/ CompensateStep(w) \/ CancelStep(w)

AgentStep(w) ==
    CreateStep(w) \/ PollResultStep(w) \/ Finish(w) \/ Unwind(w)

(* The task is over and nobody has anything left to do about it.            *)
Settled ==
    /\ row.status \in BusinessTerminal /\ bus = {} /\ gw = "done"
    /\ \A w \in Agents : pc[w] = "idle"
    /\ UNCHANGED vars

Next ==
    \/ \E w \in Workers : WorkerStep(w) \/ \E m \in Messages : Consume(w, m)
    \/ \E g \in Gateways : GatewayStep(g)
    \/ \E w \in Agents : AgentStep(w)
    \/ AcceptQueued \/ SchedulerDispatch \/ InspectorStep \/ CloseTask
    \/ Environment \/ Faults \/ Settled

Spec == Init /\ [][Next]_vars

(* Fairness: processes that are up make progress once faults have ended.    *)
(* A worker reads every queue in turn, so a message that keeps waiting is   *)
(* taken; the scheduler ticks forever; time passes.  The inspector begins   *)
(* every tick with scan_accepted_stalls in a transaction of its own, but    *)
(* scan_deadlines and what follows it are not assumed to reach this row:    *)
(* another overdue row in submit_unknown or failed raises TransitionError,  *)
(* rolls the sweep back and ends the tick, every time.                      *)
Progress(w) ==
    \/ w \in Workers /\ WorkerStep(w)
    \/ w \in Gateways /\ (\/ InlineDenied(w) \/ InlineReload(w)
                         \/ QueryCall(w) \/ CallbackStep(w))
    \/ AgentStep(w)

Fairness ==
    /\ WF_vars(TroubleEnds)
    /\ \A w \in Agents : WF_vars(Progress(w))
    /\ \A m \in Messages : SF_vars(\E w \in Workers : Consume(w, m))
    /\ WF_vars(AcceptQueued \/ \E g \in Gateways : AcceptInline(g))
    /\ WF_vars(SchedulerDispatch)
    /\ WF_vars(StalledToUnknown \/ ExpiredToTimeout \/ NextTick)
    /\ SF_vars(ScanAcceptedStalls)
    /\ WF_vars(DeadlinePasses)

FairSpec == Init /\ [][Next \/ TroubleEnds]_vars /\ Fairness

-----------------------------------------------------------------------------
(* Every variable keeps its type; in particular a poll never turns the      *)
(* state of a task that does not exist into an answer.                      *)
TypeOK ==
    /\ row \in Row
    /\ bus \subseteq Messages
    /\ pc \in [Agents -> Places]
    /\ job \in [Agents -> Jobs]
    /\ seen \in [Agents -> Snapshot]
    /\ tok \in [Agents -> Uids \cup {NoId}]
    /\ todo \in [Agents -> SUBSET (Messages \cup {"drop", "finalize"})]
    /\ up \in [Uids -> UpStates]
    /\ cred \in BOOLEAN
    /\ gw \in {"inserted", "done"}
    /\ insp \in Sweeps
    /\ trouble \in BOOLEAN

(* A verdict stands: once a task is in a business terminal status no        *)
(* handler, sweep, query or operator moves it again, except that an         *)
(* operator may close a task awaiting confirmation.                         *)
VerdictStands ==
    [][row.status \in BusinessTerminal =>
          \/ row'.status = row.status
          \/ row.status = "dead_awaiting_confirm" /\ row'.status = "dead"]_vars

(* With confirm_strategy manual_only the upstream creates at most one task  *)
(* for one accepted request, whatever is redelivered, retried or crashes    *)
(* around the create call.                                                  *)
OneCreation ==
    ~ConfirmAuto => \A u, v \in Uids : Created(u) /\ Created(v) => u = v

(* With manual_only, a create request that may still take effect is always  *)
(* covered by the submit intent in the row: the scheduler and the inspector *)
(* resubmit rows without an intent on the strength of this.                 *)
IntentCoversCreate ==
    ~ConfirmAuto => ((\E u \in Uids : up[u] # "unused") => row.intent)

(* A task that is polled, has failed or has succeeded carries the id of a   *)
(* task the upstream really created, so polling never needs to guess.       *)
PolledTaskExists ==
    row.status \in {"upstream_submitted", "in_progress", "poll_unrecognized",
                    "failed", "succeeded"} =>
        row.uid # NoId /\ Created(row.uid)

(* With manual_only, success is reported only for an upstream task that     *)
(* succeeded, even though every poll answer is old when it is written.      *)
SuccessIsReal ==
    (~ConfirmAuto /\ row.status = "succeeded") => up[row.uid] = "succeeded"

(* A task ends cancelled only if its caller asked for it.                   *)
CancelledWasAsked == row.status = "cancelled" => row.cancel

(* A task in submit_unknown, which no worker holds on to and no stall sweep *)
(* covers, always has a next_poll_at, so the scheduler keeps sending it to  *)
(* compensation.  (Of a failed task this is not true: 5xx polls clear       *)
(* next_poll_at for a moment, and a failure reported by a callback does not *)
(* set it.)                                                                 *)
UnknownStaysDue == row.status = "submit_unknown" => row.scheduled

(* Under manual_only the upstream id of a task never changes once known:    *)
(* late create answers and late compensations do not overwrite it.          *)
IdIsStable ==
    [][(~ConfirmAuto /\ row.uid # NoId) => row'.uid = row.uid]_vars

(* A polled task that only the inspector still finds: no time for a poll,   *)
(* no message and nobody at work.  A worker that dies between mark_failure, *)
(* which clears next_poll_at, and the rescheduling leaves the task to the   *)
(* message it held; if that is lost too, the task is here.                  *)
Forgotten ==
    /\ row.status \in {"upstream_submitted", "in_progress", "poll_unrecognized"}
    /\ ~row.scheduled /\ bus = {} /\ \A w \in Workers : pc[w] = "idle"

(* Every accepted task reaches a business terminal status, through crashes, *)
(* lost messages, 5xx answers, silent upstreams and endless pushback, and   *)
(* without help of the deadline sweep, unless it is forgotten.  (Where the  *)
(* template makes no second attempt and callbacks do not decide: a task     *)
(* that failed with an attempt left, or by a callback, stays failed, see    *)
(* FailedIsResolved.)                                                       *)
EventuallySettled ==
    (MaxAttempts <= 1 /\ Source # "callback") =>
        <>(row.status \in BusinessTerminal \/ Forgotten)

(* The contract of module TaskContract, in terms of this module's state.    *)
CallerVerdict ==
    CASE row.status \in ActiveStatuses -> "pending"
      [] row.status = "dead_awaiting_confirm" -> "review"
      [] OTHER -> row.status

Contract == INSTANCE TaskContract WITH
    made <- {u \in Uids : Created(u)},
    won <- {u \in Uids : up[u] = "succeeded"},
    id <- row.uid, asked <- row.cancel, verdict <- CallerVerdict

(* With manual_only, all the handlers, sweeps and requests together do no   *)
(* more than the contract allows: one create, one id, one verdict.          *)
ContractKept == Contract!Spec

=============================================================================
