# Verification of the asynchronous task gateway

The repository is a gateway in front of model services that work
asynchronously: a caller creates a task through the gateway, the gateway
creates a task at an *upstream*, follows it by polls and callbacks, stores its
result and answers the caller's queries. The hard promise is about money: **one
accepted request creates at most one upstream task**, whatever crashes, is
delivered twice or times out. Around it stand other promises: a repeated request
finds the task of the first, what a caller is shown is what the upstream
decided and, once the task is over, does not change, a tenant gets no more than
its share, a template does not change without a second person. These modules model the code that keeps those promises, check it with TLC on small
instances, and prove the safety part of it with TLAPS for every instance.

Paths below are relative to `src/src/async_gateway/`.

## 1. Inventory

| Component | State it keeps | Operations | Interacts with | What makes it correct | Module |
|---|---|---|---|---|---|
| State machine (`domain/state_machine.py`, `domain/enums.py`) | none | whitelist of status moves, terminal sets | consulted by every write | terminal statuses have no way out but one | `StateMachine` |
| Data access (`db/dao.py`, `db/models.py`) | `async_task` rows, callback events, orphans | conditional updates (`advance`, `mark_submit_intent`, `mark_submitted`, `record_poll_result`, `set_result_ref`, ...) | called by all processes, one transaction per call | a write takes effect only from the status it expects | all |
| Handlers (`tasks/handlers.py`) | none between messages | `submit_upstream`, `poll_upstream`, `compensate_orphan`, `cancel_upstream`, `finalize_task`, `store_result` | messages in, database, upstream, messages out | no duplicate creation; answers that are old when written do no harm | `TaskLifecycle`, `Results` |
| Worker (`workers/worker.py`) | message in hand | read, run the handler, acknowledge; claim stale messages | bus | at-least-once delivery is harmless | `StreamBus`, `TaskLifecycle` |
| Scheduler (`workers/scheduler.py`) | none | `dispatch_due`: read due rows, lease, enqueue | database, bus | every due row is eventually looked at | `TaskLifecycle` |
| Inspector (`workers/inspector.py`) | none | stall, deadline, unknown and orphan sweeps, transfers, calibration | database, bus, limiter | no row hangs for ever | `TaskLifecycle`, `Results`, `Slots` |
| Acceptance (`gateway/accept.py`, `idempotency.py`, `infra/request_store.py`) | request in progress, stored bodies and archived answers | resolve the key, find, insert, enqueue or submit inline, answer a repetition | database, bus, request store, upstream | one key, one window, one task | `Acceptance`, `TaskLifecycle` |
| Query, cancel, callbacks (`gateway/routes.py`, `security/callback_auth.py`) | callback events seen | query with refresh, cancel, verify, deduplicate and apply a callback | database, bus, upstream | late and repeated reports change nothing | `TaskLifecycle`, `Results` |
| Output (`gateway/output.py`) | none | status and result of a query | row, object store | what is shown is the verdict | `Results` |
| Result transfer (`infra/object_store.py`, `store_result`) | objects, pending transfers | download, upload, retry, give up | handlers, inspector | a result is stored, given up, or still being tried | `Results` |
| Bus (`bus/`) | Redis streams, pending entries | enqueue with depth limit, read, ack, claim | workers | nothing is lost while Redis is up | `StreamBus` |
| Credential store (`infra/credentials.py`) | credential per task, with TTL | put, get, drop | gateway, handlers | there while it is needed | `TaskLifecycle` |
| Concurrency limiter (`infra/concurrency.py`) | counters per channel and tenant | acquire, release, calibrate, TTL | handlers, inspector | a leaked slot comes back, a tenant's share holds | `Slots` |
| Polling cadence (`infra/polling.py`) | histogram, cached percentiles, multiplier, pause per channel | record, next delay, raise, decay, reset | handlers, console | intervals in bounds, the penalty ends | `Pacing` |
| Templates (`templates/`) | versions in the process | load, validate, classify a change, correct in place, select a version | console, acceptance | a change that needs review had it | `Governance` (the console's) |
| Admin (`admin/app.py`) | tickets, weights | close, replay, approve, publish, patch, canary, reset of pacing | database, registry, cadence | the two-person rule; a replay is no duplicate | `Governance`, `Acceptance`, `Pacing`, `TaskLifecycle` |
| Audit (`db/audit.py`), rendering, routing, direct mode, metrics | see section 6 | | | | none |

The behaviours that are hard here:

* two workers, or a worker and an inline submit, act on the same row at once,
  each on what it loaded earlier;
* a process dies between sending a create request and recording the answer, or
  between recording a callback and applying it;
* a request whose client gave up waiting still takes effect later;
* a cancel arrives in the middle of a create call;
* two requests with one idempotency key race, one of them across a window's edge;
* callbacks are late, repeated and out of order, and meet polls and transfers;
* counters, multipliers and percentiles are read in one call and written in
  another;
* the inspector's sweeps, which act on the age of a row, meet rows that are
  merely slow; an illegal transition raised inside a sweep ends the tick.

`hazards` in `PROJECT.json` lists them at their lines, with the property that
would catch each.

## 2. Modules

| Module | Models |
|---|---|
| `StateMachine` | The status whitelist and the sets of statuses (`state_machine.py`, `enums.py`, the tables in `dao.py`). |
| `TaskLifecycle` | One task: its row, the messages about it, workers, gateway requests and callbacks acting on it, scheduler, inspector, operator, upstream, faults. |
| `TaskContract` | What the gateway promises a caller: abstract specification that `TaskLifecycle` implements. |
| `TaskClaims` | A statement of the repository's documents that the code does not keep. |
| `StreamBus` | One queue of the Redis bus, its producers and the loop of the workers that read it. |
| `ReliableQueue` | What those who enqueue may assume of a queue: abstract specification that `StreamBus` implements. |
| `Acceptance` | Several requests and tasks: idempotency, the insert race, inline submission, archived answers, replay by an operator. |
| `Idempotency` | What an idempotency key promises: abstract specification that `Acceptance` implements. |
| `Results` | One submitted task: callbacks, polls, the transfer of its result, what a query shows. |
| `Slots` | The counters of one channel and its tenants. |
| `Pacing` | The cadence of one channel: percentiles, intervals, penalty, pause. |
| `Governance` | The console's template versions, approval tickets and weights. |
| `MCTaskLifecycle`, `MCAcceptance`, `MCSlots`, `MCGovernance` | Instances and symmetry for TLC. |
| `TaskLifecycleProofs`, `StreamBusProofs`, `AcceptanceProofs`, `ResultsProofs`, `SlotsProofs`, `PacingProofs`, `GovernanceProofs` | Theorems and proofs about the module of that name. |
| `TaskContractProofs` | The proof that `TaskLifecycle` implements `TaskContract`. |

The modules meet at the row and at the bus. `TaskLifecycle` has the whole
status machine of one task; `Acceptance` has many tasks up to the point where
each has its upstream id (`upstream_submitted` stands for all that follows), and
`Results` begins where the id is known. What each takes for granted of the
other is what the other shows: `Results` that a polled row names a task that exists
(`PolledTaskExists`), `TaskLifecycle` that the bus is a `ReliableQueue` while Redis is up (`QueueKept`:
its `bus` holds a message from `Put` to `TakeOff`, and a message may be handled
by two workers at once) and that there is one row for its task (`PromiseKept`),
`Slots` only that calls end.

The operators marked *Faulty variant* are seeded faults: plausible mistakes in
the code modelled by the definition that follows. No action uses them. Replacing
the original by the variant makes TLC report the property listed with it in
`PROJECT.json`, which shows that the property depends on that piece of code.

### TaskLifecycle and the code

State: `row` is the `AsyncTask` row with the columns that guard something:
`intent` is `submit_started_at IS NOT NULL`, `uid` is `upstream_task_id`,
`scheduled` is `next_poll_at IS NOT NULL`, `overdue` is `deadline_at < now`,
`ext` and `poll404` are the entries of `attributes` that decide something.
`pc`, `job`, `seen`, `tok` and `todo` are the local state of a handler: where it
stands, which handler it is, the row *as it loaded it*, the upstream task its
call is about, and the messages and the credential removal it still owes after
its last write. `up` is the upstream: a create request is on the `wire`, then
its task runs and ends.

Every action is one transaction or one call to the outside, because
`TaskRuntime._apply` opens a session per write: everything the handlers do
between two awaits on the database is atomic, and nothing more is. The guards
are split between what the handler saw (`seen`, possibly stale) and what the
`WHERE` clause of its update checks (`row`, in `Advance`, `IfUnmoved` and
`SubmitIntent`). `Advance` also models the whitelist check that raises
`TransitionError` before the database is asked: the handler then ends in
`raised` and its message stays unacknowledged (`Unwind`).

Choices made in the model:

* *Time.* Any delay may pass between two steps. "Due", "stalled", "unknown for
  too long" and "slow enough for claim_stale" are therefore choices, always
  possible; only the deadline is state, because the code writes it.
* *Bus.* The set of handler names with a message for the task. A set forgets
  how many copies there are; `Redeliver` puts back what a worker still holds,
  so duplicates in flight are covered. Enqueues that fail are `LoseMessage`.
  Messages are hints that handlers check again, so the scheduler's read, lease
  and enqueue are one step.
* *Inspector.* The sweep's message leaves before its transaction commits, so a
  worker may consume it against the old row and drop it: `SweepMove` adds the
  message or not. Sweeps over unknown and orphaned rows run after
  `scan_deadlines` in a tick, which has timed an overdue row out or has ended
  the tick; hence their guard `~row.overdue`.
* *Attributes.* `note_attribute` reads, merges and writes; its keys are modelled
  as independent fields. `relocate_compensate` replaces the whole dictionary,
  which is modelled (`Relocated`).
* *Callbacks.* `ReceiveCallback` and what follows are the writes of
  `_apply_callback` to the row's status and `next_poll_at`, on the row as it was
  loaded: progress keeps the date, a verdict where polls decide makes the next
  poll due, a verdict where callbacks decide (`Source = "callback"`) is written.
  A failure is written as `failed` whatever attempts are left and leaves
  `next_poll_at` as it is. Which reports were recorded before, and what is shown,
  is in `Results`.
* *Upstream.* Assumed honest: 429 and 4xx on a create mean nothing was created;
  404 or 409 on a cancel come from tasks that are not running; a confirmation
  says "absent" only if nothing had been created when it was asked. Everything
  else is allowed: answers lost, requests taking effect after the client gave
  up, every error on polls.
* *Faults.* A worker or gateway request dies at any point, messages are lost
  or redelivered, the credential expires. `TroubleEnds` stops faults for the
  liveness run.

### StreamBus and the code

Entries are numbered in the order of `XADD`; the stream is `first .. last`,
`delivered` is the group's last-delivered id, `owner` the pending entries list.
Each call to Redis is one step: `enqueue` is `EnqueueCheck` (XLEN) and
`EnqueueAdd` (XADD, which may trim the oldest entries down to twice the limit;
the client asks for approximate trimming, so how many is a choice). A worker's
batch is `hand`, handled in order; `ending` is the message between its handler's
return and its XACK. `ClaimStale` takes any set of pending entries, since how
long an entry was idle is a choice, and may take those a slow worker still has
in hand. The dead-letter branch is left out because it cannot be reached:
`deliveries` keeps its default of 1 on every decoded message. A message whose
handler always raises (in `Poison`; for instance one about a template version the
worker's registry lacks) is therefore retried for ever, although
`workers/worker.py:9` promises a dead-letter queue. For `ReliableQueue`
an entry is kept while it is in the stream and either not handed out or pending.

### Acceptance and the code

`rows` is the table with the columns of the unique constraint (`key` with its
attempt, `bucket`), the body's digest and the task it replays; `bodies` and
`resps` are the request store. A gateway request walks through `find` (the
lookup), `insert` (body stored, row inserted; `InsertLost` is the
`IntegrityError` and the second lookup), `enqueue` or the inline path
(`claim`, `slot`, `handle`, `archive`, `reload`, `reply`), or `repeat`
(`_replay_or_conflict`), and may die in each. `work` is the worker submitting a
task; `made` what the upstream made of it. A body is a content and a spelling,
and `BodyDigest` forgets the spelling: that is what `canonical_body` is for. The
key is the caller's, or derived from the caller's credential and the digest.
The attempt is a field of the row; in the code it is part of the key's string
(`key#attemptN`, `gateway/idempotency.py:97`), and explicit keys are not scoped
by tenant. Explicit keys that collide as strings, with a replay's or with those
of another tenant, are not in the model.
The window bucket is fixed when the request arrives. TTLs of the stores are not
clocked: `Fetch` may find an entry gone whenever it reads. A task that dies
without an id may be replayed under the next attempt; `HumanConfirmed` is the
operator's header, and the operator is assumed to tell the truth. In `Idempotency`
a row is a key taken by a task (`Grant`); statuses, the stores, requests under way
and the clock do not show.

### Results and the code

`row` here has the status, `raw` (`raw_status`), `due` (`next_poll_at`),
the result reference and the transfer's record. `MarkSubmitted` writes into `raw`
whatever status the answer to the create call carries, a verdict included, without
looking at it; a query shows it as it is until the row is over. A callback request records its
report in one transaction (`Receive`: deduplicated by token and digest), loads
(`ApplyLoad`), applies progress or a verdict (`ApplyProgress`, `ApplyArbitrate`,
`ApplyVerdict`) and enqueues the transfer (`ApplyFinalize`); it may die after
each. A report under a token nobody knows yet is stashed (`ReceiveOrphan`) and
`ReconcileOrphan` marks it resolved. Polls do the same from the other side.
`xfer` are the `store_result` messages with their attempt numbers; a mover
downloads, uploads and commits in separate steps. `ShownStatus` and `ShownResult` are
what `output.py` computes for a query. Reports are true: the upstream does not
report a verdict that its task does not have.

### Slots, Pacing, Governance and the code

In `Slots` the Lua scripts are single steps. Between `CountActive` and
`Calibrate` the inspector holds a count that grows old. A TTL removes a counter
an hour after a slot was last taken; upstream calls are bounded far below
that, so `ChannelExpires` and `TenantExpires` ask that nobody holds one.

In `Pacing` every Redis key is a variable and every command a step: raising the
multiplier is read, write, stamp; decay is check, read, write; a reset deletes
four keys one after another; percentiles are computed from the histogram and
cached later. Multipliers are fixed-point numbers (`Unit` is 1.0), rounded down,
which makes decay end at `Unit` exactly as the code's `max` with `AIMD_MIN`
does. The histogram is the sequence of the durations recorded in it, counted by
bucket where the code reads it, so that `Percentile` can be compared with
`Quantile`, the percentile of the samples before they were bucketed. Every key
with a TTL may expire at any time, also between a worker's read and its write.

`NextInterval` paces the first poll of a task and the polls after "running" or a
5xx. Other delays do not go through it and are not modelled: creates refused
with 429 (the `Retry-After` as it comes), 401 or 403 (`tasks/handlers.py:426`,
`:441`), polls answered 429, 401, 403 or 404 (`:593`, `:604`, `:612`) and
unreadable answers.

`Governance` is the console's process. Its handlers act on process-local
dictionaries before their first await, so each is a step. The gateway and the
workers are other processes (`docker-compose.yml`) with registries of their own,
so what the console publishes reaches no task; which version a task is bound to,
and which one renders its requests, is not modelled. A draft has one field for each group of template
fields that the classification treats alike; `nested` stands for what lies
below the top level, whose leaves `_flatten` gives names that are in neither
review list. `Valid` is the validator as far as it reads these fields.
`Patch` has the alias of the URL, for which the ticket is consumed, and the alias in the
body, which is patched, as two parameters.

## 3. Runs

| Run | Instance | Checks |
|---|---|---|
| `cancel` | 2 workers, 1 gateway request, 2 possible upstream tasks, a caller who cancels, crashes | `TypeOK`, `OneCreation`, `CancelledWasAsked`, `ContractKept` |
| `inline` | inline submit against a worker, pushback with deadline extension, 409, 429, 401, unreadable answers and URL-guard refusals on polls, callbacks that decide, all faults, no upstream cancel | `IntentCoversCreate`, `OneCreation`, `SuccessIsReal`, `IdIsStable` |
| `auto` | template with automatic confirmation, 2 upstream tasks, callbacks that decide, 404 answers, a caller's query, an operator's close, crashes | `PolledTaskExists`, `UnknownStaysDue`, `VerdictStands` |
| `live` | 1 worker, a callback request (polls decide), crashes and lost messages until faults end, failing tasks, 5xx answers, one attempt | `EventuallySettled` |
| `bus` | 2 producers, 2 workers, `max_depth` 2, batches of 2, 4 messages of which the first always raises, crashes, handlers that raise, claims | `TypeOK`, `NothingLost`, `DepthBounded`, `HealthyAcked`, `QueueKept` |
| `accept` | 2 requests at once of up to 3, one key with two bodies, 2 tasks, windows of 2 ticks with an edge between, both submit modes, replay | `TypeOK`, `SameTask`, `AnswerIsOwn`, `SplitOnlyAtEdge`, `ReplayCreatesOnce`, `PromiseKept` |
| `result` | 2 callback requests, 2 transfer workers, 2 transfer attempts, templates with either status source, a purged object | `TypeOK`, `ShownIsVerdict`, `RefHasObject`, `TransferNotForgotten`, `ShownStands`, `VerdictArrives` |
| `slots` | 3 workers, 2 tenants with a share of 1, a channel of 2, 2 crashes, calibration at any time | `TypeOK`, `TenantBounded`, `UndercountIsCalibration`, `LeakedSlotsComeBack` |
| `pacing` | 2 workers, pushback twice, a reset, tasks of two durations in different buckets | `TypeOK`, `CadenceSound`, `PercentileClose`, `PenaltyEnds` |
| `govern` | 2 people, 2 tickets, an alias from a file and a new one, drafts that change judgement, requests, nested fields, or are invalid, a restart | `TypeOK`, `FourEyes` |
| `claim_failed` | a template with a second attempt | refutes `FailedIsResolved` |
| `claim_replay` | the instance of `accept`, queued, with automatic confirmation | refutes `ReplayCreatesOnce` |

What the properties say:

* `OneCreation`: under `manual_only` the upstream creates at most one task.
* `IntentCoversCreate`: while a create request may take effect, the row carries
  the submit intent; the scheduler and the stall sweep resubmit rows without.
* `VerdictStands`: a terminal status stays, except that an operator may close
  `dead_awaiting_confirm`.
* `PolledTaskExists`, `SuccessIsReal`, `IdIsStable`: a polled row names a task
  the upstream really created, success is only reported for a task that
  succeeded, and the id never changes.
* `CancelledWasAsked`: nobody's task ends cancelled unasked.
* `UnknownStaysDue`: a row in `submit_unknown`, which only the scheduler looks
  after, has a `next_poll_at`. (The same of `failed` is false: a callback's failure
  may meet a row whose date a crash has cleared.)
* `ContractKept`: all of it refines `TaskContract` (at most one creation, an id
  only of a created task, one verdict, cancelled only if asked, succeeded only
  if it did).
* `EventuallySettled`: every accepted task ends, without help of the deadline sweep,
  where the template makes one attempt and callbacks do not decide, unless it is
  `Forgotten`: polled, without a date, a message or anybody at work. That takes a
  worker that dies between `mark_failure` and the rescheduling
  (`tasks/handlers.py:623-628`) and the loss of the message it held.
* `NothingLost`, `DepthBounded`, `HealthyAcked`: a message in a queue was
  handled, or is in the stream and undelivered or pending; producers overshoot
  `max_depth` by less than their number, so trimming never reaches a message;
  every message whose handler does not always raise is acknowledged, although
  those that do come back for ever.
* `QueueKept`: the stream refines `ReliableQueue` (only what was handled is taken
  off, and it stays off, though two workers may hold it at once).
* `SameTask`, `AnswerIsOwn`, `SplitOnlyAtEdge`: everybody who used one key in
  one window is told of one task; of a task of their own body, and of success
  only if the upstream has it; two tasks for one key only if an edge of the
  window lies between the arrivals.
* `ReplayCreatesOnce`: a task and its replay are not both created upstream.
* `PromiseKept`: acceptance refines `Idempotency` (a key in a window is taken once
  and for good, by a first attempt or by the next attempt of a task with the same
  key and body; answers name its task and are not taken back; unless the template
  confirms by itself, a replayed task was not created and never is).
* `ShownIsVerdict`, `ShownStands`: a task that is over is shown as over; a verdict
  that is shown, also before the row is over, is the upstream's, or the failure of
  a task the gateway ended; what is shown of a task that is over does not change.
* `RefHasObject`, `TransferNotForgotten`: a result reference has its object, and
  an enqueued transfer ends in a result, is given up, or is still on its way.
* `VerdictArrives`: success or expiry reaches the row although callbacks are lost.
* `TenantBounded`, `UndercountIsCalibration`, `LeakedSlotsComeBack`: a tenant's
  counter covers its calls and keeps its limit; the channel's falls short only by a
  calibration; a counter full of leaked slots does not stay full.
* `CadenceSound`, `PercentileClose`, `PenaltyEnds`: what `next_interval` computes lies in its
  bounds, grows with the time a task has run and is not shortened by the penalty,
  whatever stale percentile and multiplier it is computed from; the
  percentile is within a bucket of the true one; the multiplier returns to one.
* `FourEyes`: a change of requests in the console's registry and every correction
  had a second person.

### Bounds

Two workers are enough for every race on a row: the writes compare against the
row, so what a third loaded is the same as what one of the two loaded. Two
upstream tasks are needed to see a duplicate creation. `AttemptsCap` bounds
`attempts`; it is above `MaxAttempts` where attempts run out, so exhaustion and
the attempt beyond it are reached, while the connection failures that never
count an attempt are cut off. `Poll404Threshold = 2` gives both sides of the
threshold, `MaxExt` 0 and 1 both sides of the extension budget. In `bus`,
`Total = 4` is one more than the stream can ever hold with two producers and a
limit of two, so the bound cuts nothing off; the poison message is the first, so
every other one shares a batch or a claim with it. `accept` starts one tick before
the edge of a window and ends one tick after it (`Start`, `Horizon`); its third
request is the repetition, or the replay, after two that raced. In `result` a
report is `running` or the verdict, so `Progress = 0` still has every order of
two reports and their repetitions; `MaxTransfer = 2` has a retry and a last
try. In `slots` three workers on two tasks give two calls of one task, a tenant
at its limit and a channel at its limit; `MaxCrashes = 2` leaks as many slots as
the channel has. In `pacing`, `Cap` is twice `Unit`, so one pushback reaches it
and the second is capped. `MaxVersions = 2` in `govern` gives every pair of
versions that a change compares. Workers, tasks, tickets and people are
interchangeable where a run uses symmetry; the runs with liveness use none.

`accept` and `result` do not check for deadlock: their systems end, when all
requests have been answered and every task is over.

### Fairness

`live` assumes weak fairness of every process that is up (a handler in progress
goes on), strong fairness of each message being taken (workers read all
queues in turn, and a message that is taken by a worker that crashes is claimed
again), weak fairness of the scheduler's and the inspector's tick, strong
fairness of `scan_accepted_stalls`, which comes first in every tick and has a
transaction of its own, and that time passes the deadline. Nothing is assumed of
`scan_deadlines` and the sweeps after it: one overdue row in `submit_unknown` or
`failed`, of any task, raises and ends every tick there
(`workers/inspector.py:82-91`). Nothing is assumed of the upstream either: it may
never answer, and need not send callbacks. Faults are assumed to end. The
instance gives the template one attempt; with a second one a failed row stays
failed, which `claim_failed` shows.

`bus` assumes that workers stop dying at some time, that a worker that is up goes
on with its batch, and that workers keep reading and claiming. Of each message
that is not poison it assumes that its handler, if run again and again, returns
some time; of poison nothing. A queue that has become full for good counts as a
fault in `live`: its liveness does not survive it.

`result` assumes that a submitted task goes on being polled (the scheduler
dispatches it whatever its status source), that an answer is written, and that
workers and the inspector go on; of callbacks it assumes nothing. `slots`
assumes that calls end and that Redis removes a counter whose TTL has passed;
calibration need not run. `pacing` assumes that workers go on polling a channel,
that time passes, and, by its bound, that pushback ends.

### Where the code disagrees with what it says

Two disagreements have a run (`findings` in `PROJECT.json`): failed rows are
never resubmitted, and a replay under a template that could ask the upstream
does not ask. What else was seen while modelling is in the models, and in the properties
as what holds in spite of it:

* *Sweeps.* `scan_deadlines` raises on an overdue `submit_unknown` or `failed`
  row, and its tick ends there for every row (`workers/inspector.py:83`).
  Credentials of tasks the inspector ends stay until their TTL. A report stashed as
  an orphan is marked resolved without being applied (`workers/inspector.py:146`).
* *Cancel.* A cancel handled while the create call is under way ends the row
  as cancelled and leaves the upstream's task running (`tasks/handlers.py:955`);
  the flag checked after the id was written is the one loaded before the call
  (`tasks/handlers.py:406`). The credential is dropped even where the move to
  `dead` did not take effect (`tasks/handlers.py:360`).
* *Forgotten.* A crash between `mark_failure`, which clears `next_poll_at`, and the
  rescheduling leaves the row to its message (`tasks/handlers.py:623`).
* *Confirmation.* An automatic "not created" releases the intent although the
  request may still be on its way (`tasks/handlers.py:870`); one without
  conclusion raises `TransitionError` in some statuses (`tasks/handlers.py:881`).
* *Counts.* "Consecutive" 404s are never reset (`tasks/handlers.py:609`); the
  deadline's extension is noted in a second transaction, so a crash between
  forgets it (`tasks/handlers.py:121`).
* *Bus.* Acknowledged entries count for the depth, so a queue that has seen
  `max_depth` messages refuses for ever (`bus/stream.py:41`). A message whose
  handler always raises is never dead-lettered (`workers/worker.py:115`).
* *Keys.* An explicit key may be spelt like a replay's, and is shared between
  tenants (`gateway/idempotency.py:86-109`).
* *Inline.* The worker's `_handle_submit_result` and the gateway both archive a
  response; a request whose row was timed out or cancelled meanwhile is still
  answered with the upstream's 200 (`gateway/accept.py:258`). A replay whose
  stored body has expired sends `{}` (`admin/app.py:613`).
* *Callbacks.* A verdict the whitelist refuses raises after the event was
  recorded, so its redelivery is a duplicate (`gateway/routes.py:467`): the
  task then depends on polls, which is why `VerdictArrives` is about them. A late
  "running" on a `failed` row that may be retried changes what is shown
  (`gateway/routes.py:434`). A failure that meets `poll_unrecognized` with no
  attempt left has no legal move and waits for the deadline. A failure is written
  without `next_poll_at` and whatever attempts are left (`gateway/routes.py:491`).
* *Output.* A verdict in the answer to the create call is shown at once, and a
  timeout or a cancellation may follow it (`gateway/output.py:180`), while
  `docs/async-gateway-architecture-v3.md:281` wants terminal output never to flip.
  A query's refresh is rendered with the version selected now
  (`gateway/routes.py:113`, `:208`), while line 290 there binds a task to the
  version of its acceptance.
* *Transfer.* A crash between the success and the enqueue loses the transfer
  (`tasks/handlers.py:1002`): hence `sent` in `TransferNotForgotten`. The
  inspector dispatches with the attempt as recorded, so retries do not end by
  themselves as long as the source fails before the last attempt is noted
  (`tasks/handlers.py:1050`, `workers/inspector.py:179`).
* *Limiter.* A calibration lowers the counter to an old count
  (`workers/inspector.py:194`); tenants' counters are never calibrated.
* *Cadence.* A bucket is named by its lower end although the comment at
  `infra/polling.py:63` says upper bound; updates of the multiplier may be lost.
* *Console.* Weight 0 for every version selects the newest
  (`gateway/container.py:86`); the canary's weight is written before its ticket is
  looked at (`admin/app.py:402`); a ticket may be used again until it expires,
  its payload digest is never compared, and a patch consumes the ticket of the
  URL's alias while it corrects the body's (`admin/app.py:327`); leaves of nested
  fields escape the forced review (`templates/registry.py:117`). Registry,
  tickets and weights are those of one process.

## 4. Proofs

| Theorem | States |
|---|---|
| `TaskLifecycleProofs!TypeCorrect` | `Spec => []TypeOK` |
| `TaskLifecycleProofs!PolledExists` | `Spec => []PolledTaskExists` |
| `TaskLifecycleProofs!VerdictsStand` | `Spec => VerdictStands` |
| `TaskLifecycleProofs!CreatesOnce` | `Spec => []OneCreation` |
| `TaskLifecycleProofs!IntentCovers` | `Spec => []IntentCoversCreate` |
| `TaskContractProofs!CancelAsked`, `UnknownDue`, `SuccessReal`, `IdStays` | `CancelledWasAsked`, `UnknownStaysDue`, `SuccessIsReal`, `IdIsStable` |
| `TaskContractProofs!Implements` | `~ConfirmAuto => (Spec => ContractKept)` |
| `StreamBusProofs!TypeCorrect`, `AtLeastOnce`, `BoundedDepth` | `TypeOK`, `NothingLost`, `DepthBounded` |
| `StreamBusProofs!IsReliable` | `Spec => QueueKept` |
| `AcceptanceProofs!TypeCorrect`, `OneTaskPerKey`, `AnswersAreOwn`, `SplitAtEdge` | `TypeOK`, `SameTask`, `AnswerIsOwn`, `SplitOnlyAtEdge` |
| `AcceptanceProofs!ReplaySafe` | `~ConfirmAuto => (Spec => []ReplayCreatesOnce)` |
| `AcceptanceProofs!KeepsPromise` | `Spec => PromiseKept` |
| `ResultsProofs!TypeCorrect`, `ShownTrue`, `VerdictStands`, `ResultThere`, `NotForgotten` | `TypeOK`, `ShownIsVerdict`, `ShownStands`, `RefHasObject`, `TransferNotForgotten` |
| `SlotsProofs!TypeCorrect`, `TenantsBounded`, `UndercountExplained` | `TypeOK`, `TenantBounded`, `UndercountIsCalibration` |
| `GovernanceProofs!TypeCorrect`, `SecondPerson` | `TypeOK`, `FourEyes` |
| `PacingProofs!TypeCorrect`, `CadenceKept`, `PercentilesClose` | `TypeOK`, `CadenceSound`, `PercentileClose` |

All hold for every value of the constants: any number of workers, requests,
tasks, tenants, callbacks, movers, people and versions, any limits and windows.
Assumptions, all named in the modules and evaluated by TLC: names for "none" are
not values, limits are natural numbers (some of them positive), switches are
Booleans, sets that are counted are finite; for the bus, that there are no more
producers than `max_depth` (100,000 by default); for the cadence, that base and
minimum do not exceed the maximum.

*The lifecycle.* `TypeOK` is not inductive: a poll turns `up[seen.uid]` into
the place where the handler goes on, which is a place only if that task exists.
`Inv` adds that every id held by the row or by a handler is the id of a created
task, that a handler waiting for an answer has a request, and that a polled row
has an id. Every action is walked once; the walk shows that the step preserves
`Inv`, that it is *lawful* (the status moves along the whitelist or not at all)
and, but for the few actions that touch the intent, that it is *quiet* (nobody
enters the section between taking the intent and having the answer, no request
leaves, the intent stays). `VerdictsStand` follows from lawfulness alone.

*The lock.* `OneCreation` needs more: `Lock` says that the intent covers every
request, that at most one agent is between taking the intent and the answer,
and that while somebody is about to send nothing has been sent. It holds
trivially across quiet steps; the remaining actions (taking the intent,
sending, connection failure, pushback, inline denial) are handled one by one.
The one action that would break it, `CompensateAbsent`, needs automatic
confirmation, which is why the theorem is about `manual_only`.

*The contract.* Handlers act on what they read a while ago, so the refinement
needs that it is still true. `Good` says so: where a snapshot, a message or a
place of a handler stems from a cancel request, the row has the request; under
`manual_only` an id a handler holds is the row's, a handler that goes on with
"succeeded" holds the id of a task that succeeded, and a callback that tells of
success is about one. `Mono` is why agents that do
not move keep this: requests, ids and successes are never taken back. Each
action of the gateway is then a `Step`: it keeps `Good`, leaves what the
upstream created and finished alone (`SameUp`), and changes at most one of
verdict, request and id (`OneMove`), which is what one action of `TaskContract`
may do; steps of the upstream (`Upstream`) change nothing else. The guards of
the contract's actions come from the other results: `made = {}` from
`OneCreation` in the next state, the pending verdict from lawfulness, `id \in
won` and `asked` from `Good` in the next state.

*The bus.* `NothingLost` depends on trimming, trimming on the depth, and the
depth is checked before it is changed. `Room` counts entries together with
producers that passed the check: the sum does not change when an entry is added,
and is below `MaxDepth + Cardinality(Producers)` whenever a producer passes.
Hence the stream stays shorter than `2 * MaxDepth` and `first` is always 1. For the
refinement, `HandedOut`: what workers hold, acknowledge or own lies behind the
group's position, so an entry that was taken off is neither undelivered nor
pending ever again; reading a batch and claiming only change how an entry is
kept, not that it is.

*Acceptance.* `Inv` says of every row that its bucket is that of its arrival
and its stored body has its digest (`RowSound`); of every request that it holds
the row that has its key, and, unless it is a repetition, its body (`ReqSound`,
`OwnSound`); of every archived or spoken success that the upstream has the task
and the row its id, in queued mode (`TaskSound`, `SaidSound`); and that the
unique constraint holds (`Unique`). Keys, windows and digests of a row never change, so what
was said stays true; `SplitOnlyAtEdge` is then arithmetic: different buckets
have a multiple of the window between them. For a replay, `ParentsBarren`: a
task that is or was replayed is dead, was not created, and has no request on
its way; dead tasks stay dead, and only a worker or request about a living one
creates. Where the template confirms by itself nobody has looked, the invariant
fails at once, and `claim_replay` shows what comes of it.

*The promise.* One walk over the actions (`NextMoves`) shows that a step inserts a
row, or leaves what the rows grant alone and tells one caller, has one task
created, or does neither (`OneMove`). The guards of `Idempotency` then come from
the invariants: a fresh key from the unique constraint, the task an answer names
from `SaidSound` in the next state, that what is created has no replay from
`ParentsBarren` in the next state. New is `ReplaysFollow`: a replay on its way has
the key, the body's digest and the next attempt number of its parent, whose
row may have moved since. The promise holds for every template; whether replays
are exclusive is its parameter, `~ConfirmAuto`.

*Results.* The row's raw status is none, "running" or the truth, also where it
comes from the answer to the create call, and the status is `succeeded` only if
the truth is (`RowSound`); what is shown is computed from these two. Reports and answers held by callbacks
and the poll are "running" or the truth (`CallbackSound`, `PollSound`), a
transfer is about a success, and its attempts are in range (`MoverSound`,
`TransferSound`). With the walk it is shown that neither status nor raw status
of a task that is over changes: `ShownStands`.

*Slots.* A tenant's counter covers the calls under way for it (`Covered`):
acquire adds to both, release takes from both (or from neither, at zero), a
crash only from the calls, and a counter expires with no call.

*Governance.* An approved ticket was approved by an approver who did not submit
it, and keeps its action and subject (`TicketsSound`); a version's draft changes
only in fields that may be corrected in place, and only with such a ticket.

*Cadence.* What a worker is about to write lies in the bounds as well as what is
written, so no order of reads and writes leaves them (`TypeOK` is inductive). The
rest is about the operators. `Min` and `Max` choose an element: that there is one
in every nonempty set of samples comes from the well-foundedness of `<`
(`LeastNatural`), which takes the place of an induction. Intervals grow with the
time a task has run because each part does: a quotient by the median, a power of
two with an exponent of at most eight, a product, a clamp. For the percentiles,
the bucket of the quantile is the percentile: the samples up to the quantile lie
in buckets up to its own, which is therefore reached; and were an earlier bucket
reached, its longest sample would be a smaller quantile (`Counted`,
`LongestSample`, `Close`). Counts are cardinalities of sets of positions.

Only model-checked:

* liveness (`EventuallySettled`, `HealthyAcked`, `VerdictArrives`,
  `LeakedSlotsComeBack`, `PenaltyEnds`): under fairness, out of the prover's reach.

## 5. Plan

Done, in this order: the lifecycle with its contract and its lock; the bus;
acceptance; results; slots; cadence; governance; an invariance proof for each;
the refinements of the contract, of the queue and of the idempotency promise.

Next:

1. A tick of the inspector over several rows: one row's exception ends the
   sweep for the others.
2. The budgets of deadlines, attempts and 404s with their two-step writes and the
   lost updates of `attributes`.

## 6. Not modelled

* *Audit log* (`db/audit.py`): appends to a hash chain that only its verifier
  reads. Two appends that read the same head fork the chain
  (`db/audit.py:115`); nothing in the system acts on it.
* *Acceptance rate* (the token bucket of `infra/concurrency.py:84`): its state is
  arithmetic on the clock of whoever calls, which a model with choices of
  delay would allow everything of.
* *Rendering and expressions* (`templates/render.py`, `expression.py`), *derive*,
  *redaction*, *sanitising*, the *URL guard*: functions of strings without state.
  That the guard may refuse a call is in `TaskLifecycle`.
* *Routing, direct mode, application set-up* (`gateway/routing.py`, `direct.py`,
  `app.py`): stateless plumbing. *Signatures* of callbacks are checked before
  anything modelled happens.
* *Dry runs, credential references, read-only pages* of the console; *template rows*
  in the database, which are written and not read back.
* *Metrics, heartbeat, logs*: nothing feeds back into behaviour.
* *Memory variants* of the bus, limiter and cadence, which serve tests.
* *HTTP details* of the upstream client: pinning, timeouts, headers; their
  classes of outcomes are in the models.
* *Template registries of the gateway and the workers*, loaded from files in each
  process, and the version they select for a task (`gateway/container.py:73`).
* *Delays that handlers choose without the cadence*; keys that collide as strings
  (section 2).
