----------------------------- MODULE Acceptance -----------------------------
(***************************************************************************)
(* Acceptance of create requests: idempotency keys and their windows, the  *)
(* race of two requests for one key, the archive of create responses that  *)
(* repeated requests are answered from, inline submission inside the       *)
(* request, and the replay of a dead task by an operator as a new task.    *)
(*                                                                         *)
(* Each call to the database, the request store, the bus or the upstream   *)
(* is a step, so requests, workers and the inspector interleave between    *)
(* them and a request may die anywhere.  The clock moves by Tick and       *)
(* matters for the idempotency window only; an entry of the request store  *)
(* or of the credential store may be over its TTL whenever it is read.  A  *)
(* submit message for an accepted task may arrive at any time: it is sent  *)
(* by the acceptance and again by the scheduler and the inspector.  What a *)
(* task does once its upstream id is known is the matter of module         *)
(* TaskLifecycle: upstream_submitted stands for all of it here.            *)
(***************************************************************************)
EXTENDS Naturals, FiniteSets

CONSTANTS
    Gateways,     \* requests to the gateway or the console in progress at once
    Ids,          \* task ids (uuid4): the bound of the model on rows
    Creds,        \* data-plane credentials of callers
    Explicit,     \* idempotency keys callers send
    NoKey,        \* the caller sent none
    Contents,     \* request bodies, up to what normalisation removes
    Spellings,    \* how a body may be spelled (blanks, case, key order)
    Empty,        \* the body {}
    Offers,       \* the create requests callers may send: key, credential, body
    NoOne,        \* no task
    Window,       \* idempotency_window_seconds
    Modes,        \* submit_mode: "queued", "inline"
    ConfirmAuto,  \* capabilities.confirm_auto_allowed of the template
    Start,        \* the time when the model begins
    Horizon,      \* bound of the model on the clock
    MaxRequests   \* bound of the model on requests

Body == Contents \X Spellings
Keys == Explicit \cup (Creds \X Contents)

ASSUME WindowAssumption ==
    /\ Window \in Nat \ {0} /\ Start \in Nat /\ Horizon \in Nat
    /\ MaxRequests \in Nat
ASSUME NamesAssumption ==
    NoKey \notin Keys /\ NoOne \notin Ids \cup Body \cup {Empty}
ASSUME OffersAssumption ==
    Offers \subseteq [explicit : Explicit \cup {NoKey}, cred : Creds, body : Body]
ASSUME ModesAssumption ==
    Modes \subseteq {"queued", "inline"} /\ ConfirmAuto \in BOOLEAN

VARIABLES
    clock,
    asked,    \* requests that have arrived so far
    mode,     \* settings.submit_mode of this deployment
    rows,     \* the AsyncTask table
    bodies,   \* request store: create bodies
    resps,    \* request store: create responses
    pc,       \* where each request stands
    req,      \* what it is about
    own,      \* the task it inserted or found
    work,     \* where the worker submitting a task stands
    made,     \* the body the upstream created a task from, per task
    said      \* the answers callers were given

time == <<clock, asked, mode>>
store == <<bodies, resps>>
vars == <<clock, asked, mode, rows, bodies, resps, pc, req, own, work, made,
          said>>

(* intended is accepted with a submit intent (submit_intent_at); dead is    *)
(* every terminal status without an upstream id.                            *)
Accepted == {"accepted", "intended"}
Statuses == Accepted \cup {"none", "submit_unknown", "upstream_submitted",
                           "dead"}
Natives == {"ok", "refused", "rejected", "unclear"}
Places == {"idle", "find", "insert", "enqueue", "claim", "slot", "handle",
           "archive", "reload", "reply", "repeat"}

(* canonical_body: of the declared fields the spelling is normalised away,  *)
(* and body_digest hashes what is left.                                     *)
BodyDigest(b) == b[1]

(* derive_key: the caller's credential and the digest.                      *)
DeriveKey(cred, b) == <<cred, BodyDigest(b)>>

(* resolve_key: an explicit key wins.                                       *)
ResolveKey(explicit, cred, b) ==
    IF explicit # NoKey THEN explicit ELSE DeriveKey(cred, b)

WindowBucket(now) == now \div Window

Row == [status : Statuses, key : Keys \cup {NoKey}, attempt : Nat,
        bucket : Nat, digest : Contents \cup {NoKey}, at : Nat,
        parent : Ids \cup {NoOne}]

NoRow == [status |-> "none", key |-> NoKey, attempt |-> 0, bucket |-> 0,
          digest |-> NoKey, at |-> 0, parent |-> NoOne]

(* What a request is about: its key (attempt counts replays: {key}#attemptN *)
(* of retry_key; 1 is the key itself), when it arrived, its body, the task  *)
(* it replays; and, for inline submission, what the upstream answered and   *)
(* the status of the row when it was loaded again.                          *)
Req == [key : Keys \cup {NoKey}, attempt : Nat, bucket : Nat,
        digest : Contents \cup {NoKey}, at : Nat, body : Body \cup {Empty},
        parent : Ids \cup {NoOne}, native : Natives, seen : Statuses]

NoReq == [key |-> NoKey, attempt |-> 0, bucket |-> 0, digest |-> NoKey,
          at |-> 0, body |-> Empty, parent |-> NoOne, native |-> "unclear",
          seen |-> "none"]

(* The row that is inserted for a request.                                  *)
NewRow(r) == [status |-> "accepted", key |-> r.key, attempt |-> r.attempt,
              bucket |-> r.bucket, digest |-> r.digest, at |-> r.at,
              parent |-> r.parent]

(* An answer: which task it names, what the caller asked, and whether it    *)
(* tells of the upstream's success.                                         *)
Answer == [id : Ids, key : Keys, bucket : Nat, digest : Contents,
           ok : BOOLEAN]

Known(t) == rows[t].status # "none"

Init ==
    /\ clock = Start /\ asked = 0 /\ mode \in Modes
    /\ rows = [t \in Ids |-> NoRow]
    /\ bodies = [t \in Ids |-> NoOne]
    /\ resps = [t \in Ids |-> "none"]
    /\ pc = [g \in Gateways |-> "idle"]
    /\ req = [g \in Gateways |-> NoReq]
    /\ own = [g \in Gateways |-> NoOne]
    /\ work = [t \in Ids |-> "none"]
    /\ made = [t \in Ids |-> NoOne]
    /\ said = {}

Tick == /\ clock < Horizon
        /\ clock' = clock + 1
        /\ UNCHANGED <<asked, mode, rows, store, pc, req, own, work, made, said>>

-----------------------------------------------------------------------------
(* accept_create                                                            *)

Goto(g, p) == pc' = [pc EXCEPT ![g] = p]

(* The request ends, with an answer that names a task or with none.         *)
Ends(g) == /\ pc' = [pc EXCEPT ![g] = "idle"]
           /\ req' = [req EXCEPT ![g] = NoReq]
           /\ own' = [own EXCEPT ![g] = NoOne]
Says(g, t, what) ==
    said' = said \cup {[id |-> t, key |-> req[g].key, bucket |-> req[g].bucket,
                        digest |-> req[g].digest, ok |-> what = "ok"]}

Asks(g) == /\ pc[g] = "idle" /\ asked < MaxRequests
           /\ asked' = asked + 1

(* What is known of a request, to create or to replay, that arrives now.    *)
NewReq(key, attempt, digest, body, parent) ==
    [key |-> key, attempt |-> attempt, bucket |-> WindowBucket(clock),
     digest |-> digest, at |-> clock, body |-> body, parent |-> parent,
     native |-> "unclear", seen |-> "none"]

(* A create request gets its key and its bucket ...                         *)
Admitted(o) == NewReq(ResolveKey(o.explicit, o.cred, o.body), 1,
                      BodyDigest(o.body), o.body, NoOne)

(* ... when it has passed the rate limit and the capacity check (else 429   *)
(* or 503, and nothing has happened).                                       *)
Arrive(g, o) ==
    /\ Asks(g)
    /\ req' = [req EXCEPT ![g] = Admitted(o)]
    /\ Goto(g, "find")
    /\ UNCHANGED <<clock, mode, rows, store, own, work, made, said>>

Holds(t, r) == /\ Known(t) /\ rows[t].key = r.key
               /\ rows[t].attempt = r.attempt /\ rows[t].bucket = r.bucket

(* find_by_idempotency: is there such a task already?                       *)
Find(g) ==
    /\ pc[g] = "find"
    /\ \/ \E t \in Ids : /\ Holds(t, req[g])
                         /\ own' = [own EXCEPT ![g] = t]
                         /\ Goto(g, "repeat")
       \/ /\ \A t \in Ids : ~Holds(t, req[g])
          /\ Goto(g, "insert")
          /\ UNCHANGED own
    /\ UNCHANGED <<time, rows, store, req, work, made, said>>

(* Faulty variant: the table has no unique constraint on (key, bucket).     *)
InsertAnyway(g, t) ==
    /\ pc[g] = "insert" /\ ~Known(t)
    /\ rows' = [rows EXCEPT ![t] = NewRow(req[g])]
    /\ bodies' = [bodies EXCEPT ![t] = req[g].body]
    /\ resps' = [resps EXCEPT ![t] = "pending"]
    /\ own' = [own EXCEPT ![g] = t]
    /\ Goto(g, IF mode = "inline" /\ req[g].parent = NoOne
               THEN "claim" ELSE "enqueue")
    /\ UNCHANGED <<time, req, work, made, said>>

(* The body and a pending response go into the request store under a fresh  *)
(* task id that nobody knows until the row is inserted.  A replay puts no   *)
(* response.  The credential is kept and the acceptance audited next; a     *)
(* request that dies before that looks like one whose credential is lost.   *)
Insert(g, t) ==
    /\ pc[g] = "insert" /\ ~Known(t)
    /\ \A s \in Ids : ~Holds(s, req[g])
    /\ rows' = [rows EXCEPT ![t] = NewRow(req[g])]
    /\ bodies' = [bodies EXCEPT ![t] = req[g].body]
    /\ resps' = [resps EXCEPT ![t] = IF req[g].parent = NoOne THEN "pending"
                                                              ELSE "none"]
    /\ own' = [own EXCEPT ![g] = t]
    /\ Goto(g, IF mode = "inline" /\ req[g].parent = NoOne
               THEN "claim" ELSE "enqueue")
    /\ UNCHANGED <<time, req, work, made, said>>

(* IntegrityError: another request took the key.  The loser of two creates  *)
(* reads the winner's row; the loser of two replays fails.                  *)
InsertLost(g, t) ==
    /\ pc[g] = "insert" /\ Holds(t, req[g])
    /\ \/ /\ req[g].parent = NoOne
          /\ own' = [own EXCEPT ![g] = t]
          /\ Goto(g, "repeat")
          /\ UNCHANGED req
       \/ /\ req[g].parent # NoOne
          /\ Ends(g)
    /\ UNCHANGED <<time, rows, store, work, made, said>>

(* Queued submission: enqueue and answer 202 (a replay's answer goes to the *)
(* operator).  A full queue raises: the request fails and the row stays.    *)
Enqueue(g) ==
    /\ pc[g] = "enqueue"
    /\ \/ /\ req[g].parent = NoOne
          /\ Says(g, own[g], "accepted")
       \/ UNCHANGED said
    /\ Ends(g)
    /\ UNCHANGED <<time, rows, store, work, made>>

(* get_bytes of the request store: the entry, or, if it is over its TTL,    *)
(* what the caller makes of its absence.                                    *)
Fetch(entries, t, absent) == {entries[t], absent}

(* Faulty variant: the same key is enough.                                  *)
RepeatAnyBody(g) ==
    /\ pc[g] = "repeat"
    /\ \E r \in Fetch(resps, own[g], "accepted") : Says(g, own[g], r)
    /\ Ends(g)
    /\ UNCHANGED <<time, rows, store, work, made>>

(* _replay_or_conflict: 409 when the body differs; else the archived        *)
(* response, or 202 when it is not found or still pending.                  *)
Repeat(g) ==
    /\ pc[g] = "repeat"
    /\ IF rows[own[g]].digest # req[g].digest
       THEN UNCHANGED said
       ELSE \E r \in Fetch(resps, own[g], "accepted") : Says(g, own[g], r)
    /\ Ends(g)
    /\ UNCHANGED <<time, rows, store, work, made>>

(* The process dies: what it has done stays.                                *)
Crash(g) ==
    /\ pc[g] # "idle"
    /\ Ends(g)
    /\ UNCHANGED <<time, rows, store, work, made, said>>

-----------------------------------------------------------------------------
(* _handle_submit_result, as far as it shows here: what becomes of the row  *)
(* when the upstream created the task, pushed back (429, 401, no            *)
(* connection), rejected the request, or left it open what happened.        *)
Outcome(native) == CASE native = "ok" -> "upstream_submitted"
                     [] native = "refused" -> "accepted"
                     [] native = "rejected" -> "dead"
                     [] native = "unclear" -> "submit_unknown"

MarksSubmitted(t, native) == native = "ok" /\ rows[t].status = "intended"

Handled(t, native) ==
    rows' = IF \/ MarksSubmitted(t, native)
               \/ (native # "ok" /\ rows[t].status \in Accepted)
            THEN [rows EXCEPT ![t].status = Outcome(native)]
            ELSE rows

(* What a create call may come back with, and what the upstream has then.   *)
Creates(t, b, native) ==
    \/ native \in {"ok", "unclear"} /\ made' = [made EXCEPT ![t] = b]
    \/ native # "ok" /\ UNCHANGED made

-----------------------------------------------------------------------------
(* _inline_submit                                                           *)

(* mark_submit_intent; a task somebody else took over is left to them.      *)
InlineClaim(g) ==
    /\ pc[g] = "claim"
    /\ LET t == own[g] IN
       \/ /\ rows[t].status = "accepted"
          /\ rows' = [rows EXCEPT ![t].status = "intended"]
          /\ Goto(g, "slot")
          /\ UNCHANGED <<req, own, said>>
       \/ /\ rows[t].status # "accepted"
          /\ Says(g, t, "accepted")
          /\ Ends(g)
          /\ UNCHANGED rows
    /\ UNCHANGED <<time, store, work, made>>

(* No slot: give the intent back, leave the task to the queue, answer 429.  *)
InlineDenied(g) ==
    /\ pc[g] = "slot"
    /\ Handled(own[g], "refused")
    /\ Ends(g)
    /\ UNCHANGED <<time, store, work, made, said>>

InlineCall(g, native) ==
    /\ pc[g] = "slot"
    /\ Creates(own[g], req[g].body, native)
    /\ req' = [req EXCEPT ![g].native = native]
    /\ Goto(g, "handle")
    /\ UNCHANGED <<time, rows, store, own, work, said>>

InlineHandle(g) ==
    /\ pc[g] = "handle"
    /\ Handled(own[g], req[g].native)
    /\ Goto(g, IF MarksSubmitted(own[g], req[g].native) THEN "archive"
                                                        ELSE "reload")
    /\ UNCHANGED <<time, store, req, own, work, made, said>>

InlineArchive(g) ==
    /\ pc[g] = "archive"
    /\ resps' = [resps EXCEPT ![own[g]] = "ok"]
    /\ Goto(g, "reload")
    /\ UNCHANGED <<time, rows, bodies, req, own, work, made, said>>

(* The row is read again to see what to answer ...                          *)
InlineReload(g) ==
    /\ pc[g] = "reload"
    /\ req' = [req EXCEPT ![g].seen = rows[own[g]].status]
    /\ Goto(g, "reply")
    /\ UNCHANGED <<time, rows, store, own, work, made, said>>

(* Faulty variant: the response is archived as it came.                     *)
ArchivedRaw(what) == what

(* What the archive tells of a response: success or not.                    *)
Archived(what) == IF what = "ok" THEN "ok" ELSE "error"

(* ... and the upstream's response, or 504, is archived and given.          *)
InlineReply(g) ==
    /\ pc[g] = "reply"
    /\ LET what == IF req[g].seen = "submit_unknown" THEN "unclear"
                                                     ELSE req[g].native
       IN /\ resps' = [resps EXCEPT ![own[g]] = Archived(what)]
          /\ Says(g, own[g], what)
    /\ Ends(g)
    /\ UNCHANGED <<time, rows, bodies, work, made>>

-----------------------------------------------------------------------------
(* What happens to accepted tasks behind the requests.                      *)

(* A worker takes the submit message: it makes the create call under a      *)
(* submit intent (a worker that dies later looks like a slow one) ...       *)
WorkerSubmit(t, native) ==
    /\ rows[t].status = "accepted" /\ work[t] = "none"
    /\ rows' = [rows EXCEPT ![t].status = "intended"]
    /\ work' = [work EXCEPT ![t] = native]
    /\ Creates(t, bodies[t], native)
    /\ UNCHANGED <<time, store, pc, req, own, said>>

(* ... unless the credential or the body is gone: the task is dead.         *)
WorkerGivesUp(t) ==
    /\ rows[t].status = "accepted"
    /\ rows' = [rows EXCEPT ![t].status = "dead"]
    /\ UNCHANGED <<time, store, pc, req, own, work, made, said>>

WorkerHandle(t) ==
    /\ work[t] \in Natives
    /\ Handled(t, work[t])
    /\ work' = [work EXCEPT ![t] = IF MarksSubmitted(t, work[t]) THEN "archive"
                                                                 ELSE "none"]
    /\ UNCHANGED <<time, store, pc, req, own, made, said>>

WorkerArchive(t) ==
    /\ work[t] = "archive"
    /\ resps' = [resps EXCEPT ![t] = "ok"]
    /\ work' = [work EXCEPT ![t] = "none"]
    /\ UNCHANGED <<time, rows, bodies, pc, req, own, made, said>>

(* The inspector: an accepted task whose intent is old may have been        *)
(* created; one past its deadline times out.                                *)
Stalled(t) ==
    /\ rows[t].status = "intended"
    /\ rows' = [rows EXCEPT ![t].status = "submit_unknown"]
    /\ UNCHANGED <<time, store, pc, req, own, work, made, said>>

Expired(t) ==
    /\ rows[t].status \in Accepted
    /\ rows' = [rows EXCEPT ![t].status = "dead"]
    /\ UNCHANGED <<time, store, pc, req, own, work, made, said>>

(* compensate_orphan asks the upstream, if the template allows it, and      *)
(* otherwise leaves the task to a person.                                   *)
Confirm(t) ==
    /\ rows[t].status = "submit_unknown"
    /\ rows' = [rows EXCEPT ![t].status =
          IF ~ConfirmAuto THEN "dead"
          ELSE IF made[t] # NoOne THEN "upstream_submitted" ELSE "accepted"]
    /\ UNCHANGED <<time, store, pc, req, own, work, made, said>>

-----------------------------------------------------------------------------
(* replay_task                                                              *)

InFlight(t) == \E g \in Gateways : own[g] = t /\ pc[g] = "slot"

(* X-AG-Human-Confirmed: the operator has looked at the upstream, once the  *)
(* create call was over, and there was no such task.                        *)
HumanConfirmed(t) == made[t] = NoOne /\ ~InFlight(t)

(* Faulty variant: nobody has to look.                                      *)
MayReplayUnconfirmed(p) == rows[p].status = "dead"

(* Terminal, without an upstream id; and a person must have confirmed that  *)
(* the upstream has no such task if the template cannot ask.  If it can,    *)
(* nobody asks.                                                             *)
MayReplay(p) == /\ rows[p].status = "dead"
                /\ ~ConfirmAuto => HumanConfirmed(p)

(* Faulty variant: the replay's key is the key of the task it replays.      *)
SameAttempt(p) == rows[p].attempt

(* retry_key(key, attempt_of(key) + 1).  The attempt is a field of its own  *)
(* here; the code writes it into the key, as key#attemptN, so a caller's    *)
(* explicit key may be spelt like that of a replay (and a caller of another *)
(* tenant may use the same explicit key): such keys are not in Explicit.    *)
NextAttempt(p) == rows[p].attempt + 1

(* The task is replayed as a new one under the next attempt's key, with the *)
(* same body if the request store still has it and an empty one if not.     *)
Replay(g, p, b) ==
    /\ Asks(g) /\ MayReplay(p)
    /\ b \in Fetch(bodies, p, Empty)
    /\ req' = [req EXCEPT ![g] = NewReq(rows[p].key, NextAttempt(p),
                                         rows[p].digest, b, p)]
    /\ Goto(g, "insert")
    /\ UNCHANGED <<clock, mode, rows, store, own, work, made, said>>

-----------------------------------------------------------------------------
InlineStep(g) ==
    \/ InlineClaim(g) \/ InlineDenied(g) \/ InlineHandle(g)
    \/ InlineArchive(g) \/ InlineReload(g) \/ InlineReply(g)
    \/ \E n \in Natives : InlineCall(g, n)

RequestStep(g) ==
    \/ \E o \in Offers : Arrive(g, o)
    \/ Find(g) \/ Enqueue(g) \/ Repeat(g) \/ Crash(g)
    \/ \E t \in Ids : Insert(g, t) \/ InsertLost(g, t)
    \/ \E t \in Ids, b \in Body \cup {Empty} : Replay(g, t, b)
    \/ InlineStep(g)

TaskStep(t) ==
    \/ \E n \in Natives : WorkerSubmit(t, n)
    \/ WorkerGivesUp(t)
    \/ WorkerHandle(t) \/ WorkerArchive(t)
    \/ Stalled(t) \/ Expired(t) \/ Confirm(t)

Next == \/ Tick
        \/ \E g \in Gateways : RequestStep(g)
        \/ \E t \in Ids : TaskStep(t)

Spec == Init /\ [][Next]_vars

-----------------------------------------------------------------------------
(* Every variable keeps its type: an archived response is pending, a success *)
(* or an error, and a row's key is one a caller sent or one derived.        *)
TypeOK ==
    /\ clock \in Nat /\ asked \in Nat /\ mode \in Modes
    /\ rows \in [Ids -> Row]
    /\ bodies \in [Ids -> Body \cup {Empty, NoOne}]
    /\ resps \in [Ids -> {"none", "pending", "ok", "error"}]
    /\ pc \in [Gateways -> Places] /\ req \in [Gateways -> Req]
    /\ own \in [Gateways -> Ids \cup {NoOne}]
    /\ work \in [Ids -> {"none", "archive"} \cup Natives]
    /\ made \in [Ids -> Body \cup {Empty, NoOne}]
    /\ said \subseteq Answer

(* Everybody who used one key in one window was told of the same task,      *)
(* however the requests raced and whichever of them died: accept_create     *)
(* answers from the row that won the insert.                                *)
SameTask ==
    \A a, b \in said : a.key = b.key /\ a.bucket = b.bucket => a.id = b.id

(* A caller is only told of a task that was accepted for its key and its    *)
(* body (409 otherwise), and when it is told of the upstream's success the  *)
(* upstream has the task, made from that body up to its spelling; in queued *)
(* mode the row has the upstream's id by then.                              *)
AnswerIsOwn ==
    \A a \in said :
        /\ Known(a.id) /\ rows[a.id].parent = NoOne
        /\ rows[a.id].key = a.key /\ rows[a.id].digest = a.digest
        /\ a.ok => /\ made[a.id] # NoOne /\ BodyDigest(made[a.id]) = a.digest
                   /\ mode = "queued" =>
                         rows[a.id].status = "upstream_submitted"

(* One key has two tasks of one attempt only if the edge of a window lies   *)
(* between the arrivals of their requests, however late either was inserted *)
(* (the bucket is fixed on arrival).                                        *)
SplitOnlyAtEdge ==
    \A s, t \in Ids :
        ( /\ s # t /\ Known(s) /\ Known(t) /\ rows[s].key = rows[t].key
          /\ rows[s].attempt = rows[t].attempt /\ rows[s].at <= rows[t].at )
        => \E n \in 0 .. rows[t].at :
              rows[s].at < n * Window /\ n * Window <= rows[t].at

(* A replayed task and its replay are not both created upstream: the replay *)
(* of a task without an upstream id waits until it is certain that the      *)
(* upstream has not created it.                                             *)
ReplayCreatesOnce ==
    \A t \in Ids :
        made[t] # NoOne /\ rows[t].parent # NoOne
            => made[rows[t].parent] = NoOne

(* The rows and the upstream as Idempotency speaks of them.                 *)
Grant(t) == [id |-> t, key |-> rows[t].key, attempt |-> rows[t].attempt,
             bucket |-> rows[t].bucket, digest |-> rows[t].digest,
             parent |-> rows[t].parent]
Granted == {Grant(t) : t \in {s \in Ids : Known(s)}}
Created == {t \in Ids : made[t] # NoOne}

Promise == INSTANCE Idempotency WITH
              Tasks <- Ids, Exclusive <- ~ConfirmAuto,
              taken <- Granted, created <- Created, told <- said

(* The promise is kept: every step of a request, a worker, the inspector or *)
(* an operator takes a key nobody has for one task, has the upstream create *)
(* one that is not replayed, tells one caller of the task that has its key, *)
(* or is invisible (accept_create, _inline_submit, replay_task).            *)
PromiseKept == Promise!Spec

=============================================================================
