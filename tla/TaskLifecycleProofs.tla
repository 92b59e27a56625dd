------------------------ MODULE TaskLifecycleProofs ------------------------
(***************************************************************************)
(* Proofs about TaskLifecycle, for every set of workers, gateway requests  *)
(* and upstream tasks, every template and every limit.                     *)
(*                                                                         *)
(* Every action is walked once.  The walk (lemmas SubmitFine to            *)
(* OthersFine) shows three things of a step: it preserves Inv, it is       *)
(* Lawful (the status moves along the whitelist or not at all), and,       *)
(* unless it is one of the few that touch the submit intent, it is Quiet:  *)
(* nobody enters the section of code between taking the submit intent and  *)
(* having the answer.  The creation lock is then proved from Quiet and     *)
(* from those few actions alone.                                           *)
(***************************************************************************)
EXTENDS TaskLifecycle, TLAPS

Acts == Messages \cup {"drop", "finalize"}

Polled == {"upstream_submitted", "in_progress", "poll_unrecognized",
           "failed", "succeeded"}

(* An id a handler works with is the id of a task that exists.              *)
AgentIds(w) ==
    /\ seen[w].uid # NoId => Created(seen[w].uid)
    /\ At(w, "query", "loaded") => seen[w].uid # NoId
    /\ pc[w] = "found" => tok[w] # NoId /\ Created(tok[w])
    /\ pc[w] = "sent" => tok[w] # NoId

AgentsOK ==
    /\ pc \in [Agents -> Places]
    /\ job \in [Agents -> Jobs]
    /\ seen \in [Agents -> Snapshot]
    /\ tok \in [Agents -> Uids \cup {NoId}]
    /\ todo \in [Agents -> SUBSET Acts]
    /\ \A w \in Agents : AgentIds(w)

(* So is the id in the row, and a polled row has one.                       *)
RowOK ==
    /\ row \in Row
    /\ row.uid # NoId => Created(row.uid)
    /\ row.status \in Polled => row.uid # NoId

RestOK ==
    /\ bus \subseteq Messages /\ cred \in BOOLEAN
    /\ gw \in {"inserted", "done"}
    /\ insp \in Sweeps /\ trouble \in BOOLEAN

UpOK == up \in [Uids -> UpStates]

(* The inductive invariant behind TypeOK and PolledTaskExists.  TypeOK is   *)
(* not inductive alone: a poll of a task that does not exist would turn     *)
(* "unused" into an answer.                                                 *)
Inv == RowOK /\ AgentsOK /\ RestOK /\ UpOK

(* What the upstream created stays created.                                 *)
Kept == UpOK' /\ \A u \in Uids : Created(u) => Created(u)'

Lawful == row'.status = row.status \/ CanTransition(row.status, row'.status)

Critical == {"intended", "sent", "absent"}

Calm == \A v \in Agents :
           pc'[v] \in Critical => pc'[v] = pc[v] /\ tok'[v] = tok[v]

Quiet == /\ row'.intent = row.intent
         /\ \A u \in Uids : up[u] = "unused" => up'[u] = "unused"
         /\ Calm

Fine == Inv' /\ Lawful /\ Quiet

RowFine == RowOK' /\ Lawful /\ row'.intent = row.intent

-----------------------------------------------------------------------------
(* How an agent moves on.                                                   *)

(* What an idle agent remembers is well formed and names no task.           *)
LEMMA BlankOK == Blank \in Snapshot /\ Blank.uid = NoId
BY DEF Blank, Snapshot, TaskStatus, Verdicts

(* The acts the handlers leave for after their last write.                  *)
LEMMA ActsOK == /\ {} \in SUBSET Acts /\ {"drop"} \in SUBSET Acts
                /\ {"finalize"} \in SUBSET Acts
                /\ \A m \in Messages : {m} \in SUBSET Acts
BY DEF Acts

(* An agent that goes anywhere but into a create or confirm call keeps      *)
(* AgentsOK.                                                                *)
LEMMA GotoOK ==
    ASSUME AgentsOK, Kept, NEW w \in Agents, NEW p \in Places,
           p \notin {"found", "sent", "loaded"}, Goto(w, p)
    PROVE  AgentsOK' /\ (p \notin Critical => Calm)
<1>1. \A v \in Agents : AgentIds(v)'
  BY DEF AgentsOK, Goto, AgentIds, At, Kept, Snapshot
<1>2. p \notin Critical => Calm
  BY DEF AgentsOK, Goto, Calm
<1> QED BY <1>1, <1>2 DEF AgentsOK, Goto

(* So does one that returns.                                                *)
LEMMA ReturnOK ==
    ASSUME AgentsOK, Kept, NEW w \in Agents, Return(w)
    PROVE  AgentsOK' /\ Calm
<1>1. \A v \in Agents : AgentIds(v)'
  BY BlankOK DEF AgentsOK, Return, AgentIds, At, Kept, Snapshot
<1>2. Calm
  BY DEF AgentsOK, Return, Calm, Critical
<1> QED BY <1>1, <1>2, BlankOK DEF AgentsOK, Return, Places, Jobs, Acts

(* So does one that has something left to send.                             *)
LEMMA ThenOK ==
    ASSUME AgentsOK, Kept, NEW w \in Agents, NEW acts \in SUBSET Acts,
           Then(w, acts)
    PROVE  AgentsOK' /\ Calm
<1>1. CASE acts = {} /\ job[w] # "inline_reloaded"
  BY <1>1, ReturnOK DEF Then
<1>2. CASE ~(acts = {} /\ job[w] # "inline_reloaded")
  <2>1. \A v \in Agents : AgentIds(v)'
    BY <1>2, BlankOK DEF AgentsOK, Then, AgentIds, At, Kept, Snapshot
  <2>2. Calm
    BY <1>2 DEF AgentsOK, Then, Calm, Critical
  <2> QED BY <1>2, <2>1, <2>2, BlankOK DEF AgentsOK, Then, Places
<1> QED BY <1>1, <1>2

(* So does everybody while nobody moves.                                    *)
LEMMA IdleOK ==
    ASSUME AgentsOK, Kept, UNCHANGED agents
    PROVE  AgentsOK' /\ Calm
<1>1. \A v \in Agents : AgentIds(v)'
  BY DEF AgentsOK, agents, AgentIds, At, Kept, Snapshot
<1> QED BY <1>1 DEF AgentsOK, agents, Calm

(* The whitelist leads into a polled status, other than by submission, only *)
(* from a polled status.                                                    *)
LEMMA IntoPolled ==
    ASSUME NEW s \in TaskStatus, NEW d \in Polled \ {"upstream_submitted"},
           CanTransition(s, d)
    PROVE  s \in Polled
BY DEF TaskStatus, Polled, CanTransition, AllowedTargets

(* A row moved along the whitelist is a row again.                          *)
LEMMA MovedOK ==
    ASSUME RowOK, Kept, NEW dst \in TaskStatus, NEW new \in Row,
           new.uid # NoId => Created(new.uid),
           row.uid # NoId => new.uid # NoId,
           dst = "upstream_submitted" => new.uid # NoId,
           CanTransition(row.status, dst), row' = [new EXCEPT !.status = dst]
    PROVE  RowOK' /\ Lawful /\ row'.intent = new.intent
<1>1. [new EXCEPT !.status = dst] \in Row
  BY DEF Row
<1>2. row'.uid = new.uid /\ row'.status = dst /\ row'.intent = new.intent
  BY DEF Row
<1>3. dst \in Polled => new.uid # NoId
  BY IntoPolled DEF RowOK, Row
<1> QED BY <1>1, <1>2, <1>3 DEF RowOK, Kept, Lawful, Row

(* A row left alone is fine.                                                *)
LEMMA SameRow ==
    ASSUME RowOK, Kept, UNCHANGED row
    PROVE  RowFine
BY DEF RowOK, Kept, RowFine, Lawful, Row

(* TaskDAO.advance and its callers: the general case.                       *)
LEMMA AdvanceOK ==
    ASSUME AgentsOK, RowOK, Kept, NEW w \in Agents, NEW expected,
           NEW dst \in TaskStatus, NEW new \in Row,
           new.uid # NoId => Created(new.uid),
           row.uid # NoId => new.uid # NoId,
           dst = "upstream_submitted" => new.uid # NoId,
           NEW won \in SUBSET Acts, NEW lost \in SUBSET Acts,
           Advance(w, expected, dst, new, won, lost)
    PROVE  /\ AgentsOK' /\ Calm /\ RowOK' /\ Lawful
           /\ new.intent = row.intent => RowFine
<1>1. CASE \E src \in expected : ~CanTransition(src, dst)
  BY <1>1, GotoOK, SameRow DEF Advance, Places, Critical, RowFine
<1>2. CASE ~(\E src \in expected : ~CanTransition(src, dst)) /\ row.status \in expected
  <2>1. row' = [new EXCEPT !.status = dst] /\ Then(w, won) /\ CanTransition(row.status, dst)
    BY <1>2 DEF Advance
  <2>2. RowOK' /\ Lawful /\ row'.intent = new.intent
    BY <2>1, MovedOK
  <2> QED BY <2>1, <2>2, ThenOK DEF RowFine
<1>3. CASE ~(\E src \in expected : ~CanTransition(src, dst)) /\ row.status \notin expected
  BY <1>3, ThenOK, SameRow DEF Advance, RowFine
<1> QED BY <1>1, <1>2, <1>3

-----------------------------------------------------------------------------
(* The rows the writes are built from.                                      *)

(* Clearing next_poll_at touches neither status, id nor intent.             *)
LEMMA ParkedOK ==
    ASSUME row \in Row
    PROVE  /\ Parked \in Row /\ Parked.uid = row.uid
           /\ Parked.status = row.status /\ Parked.intent = row.intent
BY DEF Row, Parked

(* Nor does setting it.                                                     *)
LEMMA DueOK ==
    ASSUME row \in Row
    PROVE  /\ Due \in Row /\ Due.uid = row.uid
           /\ Due.status = row.status /\ Due.intent = row.intent
BY DEF Row, Due

(* release_submit_intent's row: the attempt is counted back.                *)
LEMMA RefundedOK ==
    ASSUME row \in Row
    PROVE  /\ Refunded \in Row /\ Refunded.uid = row.uid
           /\ Refunded.status = row.status /\ ~Refunded.intent
<1>1. (IF row.attempts > 0 THEN row.attempts - 1 ELSE 0) \in Nat
  BY DEF Row
<1> QED BY <1>1 DEF Row, Refunded

(* relocate_compensate's row, with the id of a task that exists.            *)
LEMMA RelocatedOK ==
    ASSUME row \in Row, NEW u \in Uids \cup {NoId}
    PROVE  /\ Relocated(u) \in Row /\ Relocated(u).uid = u
           /\ Relocated(u).intent = row.intent
BY DEF Row, Relocated

(* mark_submit_intent's row.                                                *)
LEMMA IntendedOK ==
    ASSUME row \in Row, row' = [row EXCEPT !.intent = TRUE, !.attempts = @ + 1]
    PROVE  /\ row' \in Row /\ row'.uid = row.uid
           /\ row'.status = row.status /\ row'.intent
<1>1. row.attempts + 1 \in Nat
  BY DEF Row
<1> QED BY <1>1 DEF Row

(* A write that keeps status, id and intent.                                *)
LEMMA KeptRow ==
    ASSUME RowOK, Kept, row' \in Row, row'.status = row.status,
           row'.uid = row.uid, row'.intent = row.intent
    PROVE  RowFine
BY DEF RowOK, Kept, RowFine, Lawful, Row

(* schedule_next_poll keeps the row in order.                               *)
LEMMA RescheduledRow ==
    ASSUME RowOK, Kept, row' \in {row, Parked, Due}
    PROVE  RowFine
BY KeptRow, ParkedOK, DueOK DEF RowOK

(* What a handler loads.                                                    *)
LEMMA LoadOK ==
    ASSUME RowOK, NEW j \in Messages \cup {"inline_reloaded", "query"}
    PROVE  /\ Load(j) \in Snapshot
           /\ Load(j).uid \in {NoId, row.uid}
           /\ j = "query" => Load(j).uid = row.uid
BY DEF RowOK, Row, Load, Blank, Snapshot, Messages, TaskStatus, Verdicts

(* The inspector, the operator and the environment leave the agents alone;  *)
(* the agents leave the rest alone.                                         *)
LEMMA OutsideKept ==
    ASSUME UpOK, UNCHANGED up
    PROVE  Kept /\ \A u \in Uids : up[u] = "unused" => up'[u] = "unused"
BY DEF UpOK, Kept, Created

(* What a step of one agent has to show.                                    *)
LEMMA AgentFine ==
    ASSUME Inv, AgentsOK', Calm, RowFine, UNCHANGED outside
    PROVE  Fine
BY OutsideKept DEF Fine, Inv, RowFine, Quiet, outside, RestOK, UpOK

(* TaskDAO.advance to a terminal status.                                    *)
LEMMA AdvanceParked ==
    ASSUME Inv, NEW w \in Agents, NEW expected,
           NEW dst \in TaskStatus \ {"upstream_submitted"},
           NEW won \in SUBSET Acts, NEW lost \in SUBSET Acts,
           Advance(w, expected, dst, Parked, won, lost), UNCHANGED outside
    PROVE  Fine
<1>1. Kept
  BY OutsideKept DEF Inv, outside
<1>2. AgentsOK' /\ Calm /\ RowFine
  BY <1>1, ParkedOK, AdvanceOK DEF Inv, RowOK
<1> QED BY <1>2, AgentFine

(* TaskDAO.advance to a status that is due again.                           *)
LEMMA AdvanceDue ==
    ASSUME Inv, NEW w \in Agents, NEW expected,
           NEW dst \in TaskStatus \ {"upstream_submitted"},
           NEW won \in SUBSET Acts, NEW lost \in SUBSET Acts,
           Advance(w, expected, dst, Due, won, lost), UNCHANGED outside
    PROVE  Fine
<1>1. Kept
  BY OutsideKept DEF Inv, outside
<1>2. AgentsOK' /\ Calm /\ RowFine
  BY <1>1, DueOK, AdvanceOK DEF Inv, RowOK
<1> QED BY <1>2, AgentFine

(* A handler that at most reschedules the row and then moves on.            *)
LEMMA Reschedule ==
    ASSUME Inv, NEW w \in Agents, row' \in {row, Parked, Due},
           \/ Return(w)
           \/ \E acts \in SUBSET Acts : Then(w, acts)
           \/ \E p \in Places \ ({"found", "loaded"} \cup Critical) : Goto(w, p),
           UNCHANGED outside
    PROVE  Fine
<1>1. Kept
  BY OutsideKept DEF Inv, outside
<1>2. RowFine
  BY <1>1, RescheduledRow DEF Inv
<1>3. AgentsOK' /\ Calm
  BY <1>1, ReturnOK, ThenOK, GotoOK DEF Inv, Critical
<1> QED BY <1>2, <1>3, AgentFine

-----------------------------------------------------------------------------
(* The walk over the actions.                                               *)

(* submit_upstream, apart from taking the intent.                           *)
LEMMA SubmitFine ==
    ASSUME Inv, NEW w \in Workers, SubmitStep(w), ~SubmitIntent(w)
    PROVE  Fine
<1> w \in Agents
  BY DEF Agents
<1>1. CASE SubmitOverdue(w)
  BY <1>1, AdvanceParked, ActsOK DEF SubmitOverdue, TaskStatus
<1>2. CASE SubmitCancelled(w)
  BY <1>2, AdvanceParked, ActsOK DEF SubmitCancelled, TaskStatus
<1>3. CASE SubmitNoCredential(w)
  BY <1>3, AdvanceParked, ActsOK DEF SubmitNoCredential, TaskStatus
<1>4. CASE SubmitDenied(w)
  BY <1>4, Reschedule DEF SubmitDenied, ScheduleNextPoll
<1>5. CASE SubmitBodyLost(w)
  BY <1>5, AdvanceParked, ActsOK DEF SubmitBodyLost, TaskStatus
<1> QED BY <1>1, <1>2, <1>3, <1>4, <1>5 DEF SubmitStep

(* Taking the submit intent: by a worker or by an inline submit.            *)
LEMMA SubmitIntentFine ==
    ASSUME Inv, NEW w \in Workers, SubmitIntent(w)
    PROVE  Inv' /\ Lawful
<1> w \in Agents
  BY DEF Agents
<1>1. Kept
  BY OutsideKept DEF Inv, SubmitIntent, outside
<1>2. CASE row.status = "accepted" /\ ~row.intent
  <2>1. row' \in Row /\ row'.status = row.status /\ row'.uid = row.uid
    BY <1>2, IntendedOK DEF SubmitIntent, Inv, RowOK
  <2>2. AgentsOK'
    BY <1>1, <1>2, GotoOK DEF SubmitIntent, Inv, Places
  <2> QED BY <1>1, <2>1, <2>2 DEF SubmitIntent, Inv, RowOK, Kept, Lawful, outside, RestOK, Row
<1>3. CASE ~(row.status = "accepted" /\ ~row.intent)
  BY <1>3, Reschedule DEF SubmitIntent, Fine
<1> QED BY <1>2, <1>3

(* An inline submit takes the intent at once or leaves the task to the queue.*)
LEMMA AcceptInlineFine ==
    ASSUME Inv, NEW g \in Gateways, AcceptInline(g)
    PROVE  Inv' /\ Lawful
<1> g \in Agents
  BY DEF Agents
<1>1. Kept
  BY OutsideKept DEF Inv, AcceptInline
<1>2. \A v \in Agents : AgentIds(v)'
  BY <1>1 DEF AcceptInline, Inv, AgentsOK, AgentIds, At, Kept, Snapshot
<1>3. AgentsOK'
  BY <1>2 DEF AcceptInline, Inv, AgentsOK, Places, Jobs, Acts, Messages
<1>4. row' \in Row /\ row'.status = row.status /\ row'.uid = row.uid
  BY IntendedOK DEF AcceptInline, Inv, RowOK
<1> QED BY <1>1, <1>3, <1>4 DEF AcceptInline, Inv, RowOK, Kept, Lawful, RestOK, Row

(* A create request leaves.                                                 *)
LEMMA SendCreateFine ==
    ASSUME Inv, NEW w \in Agents, NEW u \in Uids, SendCreate(w, u)
    PROVE  Inv' /\ Lawful
<1>1. Kept
  BY DEF SendCreate, Inv, UpOK, UpStates, Kept, Created
<1>2. u # NoId
  BY NoIdAssumption
<1>3. \A v \in Agents : AgentIds(v)'
  BY <1>1, <1>2 DEF SendCreate, Inv, AgentsOK, AgentIds, At, Kept, Snapshot
<1>4. AgentsOK'
  BY <1>3 DEF SendCreate, Inv, AgentsOK, Places
<1>5. RowFine
  BY <1>1, SameRow DEF SendCreate, Inv
<1> QED BY <1>1, <1>4, <1>5 DEF SendCreate, Inv, Kept, RowFine, RestOK

(* An answer that nothing was created takes the request off the wire.       *)
LEMMA AnsweredKept ==
    ASSUME Inv, NEW w \in Agents, pc[w] = "sent", up[tok[w]] = "wire",
           Answered(w)
    PROVE  Kept /\ \A u \in Uids : up[u] = "unused" => up'[u] = "unused"
BY DEF Inv, Answered, AgentsOK, AgentIds, UpOK, UpStates, Kept, Created

(* _handle_submit_result without the writes that release the intent.        *)
LEMMA CreateFine ==
    ASSUME Inv, NEW w \in Agents,
           \/ SsrfRejected(w) \/ ReplyCreated(w) \/ ReplyUnclear(w)
           \/ NoteExtension(w) \/ ReplyRejected(w)
    PROVE  Fine
<1>1. CASE SsrfRejected(w)
  BY <1>1, AdvanceParked, ActsOK DEF SsrfRejected, TaskStatus
<1>2. CASE ReplyCreated(w)
  <2>0. Kept
    BY <1>2, OutsideKept DEF Inv, ReplyCreated, outside
  <2>1. CASE row.status = "accepted" /\ row.intent
    <3>1. tok[w] \in Uids \cup {NoId} /\ tok[w] # NoId /\ Created(tok[w])
      BY <1>2 DEF ReplyCreated, Handles, Inv, AgentsOK, AgentIds
    <3>2. [row EXCEPT !.uid = tok[w], !.scheduled = TRUE] \in Row
      BY <3>1 DEF Inv, RowOK, Row
    <3>3. /\ row' = [[row EXCEPT !.uid = tok[w], !.scheduled = TRUE]
                       EXCEPT !.status = "upstream_submitted"]
          /\ CanTransition(row.status, "upstream_submitted")
      BY <1>2, <2>1 DEF ReplyCreated, Inv, RowOK, Row, CanTransition, AllowedTargets
    <3>4. RowFine
      BY <2>0, <3>1, <3>2, <3>3, MovedOK DEF Inv, RowOK, Row, TaskStatus, RowFine
    <3>5. AgentsOK' /\ Calm
      BY <1>2, <2>0, <2>1, ThenOK DEF ReplyCreated, Inv, Acts, Messages
    <3> QED BY <1>2, <3>4, <3>5, AgentFine DEF ReplyCreated
  <2>2. CASE ~(row.status = "accepted" /\ row.intent)
    BY <1>2, <2>2, Reschedule, ActsOK DEF ReplyCreated
  <2> QED BY <2>1, <2>2
<1>3. CASE ReplyUnclear(w)
  BY <1>3, AdvanceDue, ActsOK DEF ReplyUnclear, TaskStatus, Messages
<1>4. CASE NoteExtension(w)
  <2>1. Kept
    BY <1>4, OutsideKept DEF Inv, NoteExtension, outside
  <2>2. seen[w].ext + 1 \in Nat
    BY DEF Inv, AgentsOK, Snapshot
  <2>3. /\ row' \in Row /\ row'.status = row.status
        /\ row'.uid = row.uid /\ row'.intent = row.intent
    BY <1>4, <2>2 DEF NoteExtension, Inv, RowOK, Row
  <2>4. AgentsOK' /\ Calm
    BY <1>4, <2>1, ThenOK, ActsOK DEF NoteExtension, Inv
  <2> QED BY <1>4, <2>1, <2>3, <2>4, KeptRow, AgentFine DEF NoteExtension, Inv
<1>5. CASE ReplyRejected(w)
  <2>1. Kept /\ \A u \in Uids : up[u] = "unused" => up'[u] = "unused"
    BY <1>5, AnsweredKept DEF ReplyRejected, Handles
  <2>2. AgentsOK' /\ Calm /\ RowFine
    BY <1>5, <2>1, AdvanceOK, ParkedOK, ActsOK DEF ReplyRejected, Inv, RowOK, TaskStatus
  <2> QED BY <1>5, <2>1, <2>2 DEF ReplyRejected, Fine, Inv, RowFine, Quiet, Kept, RestOK
<1> QED BY <1>1, <1>2, <1>3, <1>4, <1>5

(* The writes that release the intent.                                      *)
LEMMA ConnectFailedFine ==
    ASSUME Inv, NEW w \in Agents, ConnectFailed(w)
    PROVE  Inv' /\ Lawful
<1>1. Kept
  BY OutsideKept DEF Inv, ConnectFailed, outside
<1>2. CASE seen[w].attempts >= MaxAttempts
  BY <1>2, AdvanceParked, ActsOK DEF ConnectFailed, TaskStatus, Fine
<1>3. CASE ~(seen[w].attempts >= MaxAttempts)
  <2>1. row' \in Row /\ row'.status = row.status /\ row'.uid = row.uid
    BY <1>3 DEF ConnectFailed, Inv, RowOK, Row
  <2>2. AgentsOK'
    BY <1>1, <1>3, ThenOK, ActsOK DEF ConnectFailed, Inv
  <2> QED BY <1>1, <2>1, <2>2 DEF ConnectFailed, Inv, RowOK, Kept, Lawful, outside, RestOK, Row
<1> QED BY <1>2, <1>3

(* 429, 401 and 403 hand the attempt and the intent back.                   *)
LEMMA ReplyPushbackFine ==
    ASSUME Inv, NEW w \in Agents, ReplyPushback(w)
    PROVE  Inv' /\ Lawful /\ Calm
<1>1. Kept
  BY AnsweredKept DEF ReplyPushback, Handles
<1>2. row' \in Row /\ row'.status = row.status /\ row'.uid = row.uid
  BY RefundedOK DEF ReplyPushback, Inv, RowOK, Row
<1>3. AgentsOK' /\ Calm
  BY <1>1, ThenOK, GotoOK, ActsOK DEF ReplyPushback, Inv, Places, Critical
<1> QED BY <1>1, <1>2, <1>3 DEF ReplyPushback, Inv, RowOK, Kept, Lawful, RestOK, Row

(* An inline submit without a slot hands the intent back.                   *)
LEMMA InlineDeniedFine ==
    ASSUME Inv, NEW g \in Agents, InlineDenied(g)
    PROVE  Inv' /\ Lawful /\ Calm
<1>1. Kept
  BY OutsideKept DEF Inv, InlineDenied, outside
<1>2. row' \in Row /\ row'.status = row.status /\ row'.uid = row.uid
  BY RefundedOK DEF InlineDenied, Inv, RowOK, Row
<1>3. AgentsOK' /\ Calm
  BY <1>1, ThenOK, ActsOK DEF InlineDenied, Inv, Messages
<1> QED BY <1>1, <1>2, <1>3 DEF InlineDenied, Inv, RowOK, Kept, Lawful, outside, RestOK, Row

(* poll_upstream up to the call: the answer is about a task that exists.    *)
LEMMA AnswerPlace ==
    ASSUME Inv, NEW w \in Agents, seen[w].uid # NoId,
           NEW a \in VerdictsOf(up[seen[w].uid]) \cup Noise
    PROVE  a \in Places \ ({"found", "loaded"} \cup Critical)
BY NoiseAssumption DEF Inv, AgentsOK, AgentIds, Created, Snapshot, UpOK,
   UpStates, VerdictsOf, Places, Verdicts, Noises, Critical

(* poll_upstream up to the answer.                                          *)
LEMMA PollFine ==
    ASSUME Inv, NEW w \in Workers, PollStep(w)
    PROVE  Fine
<1> w \in Agents
  BY DEF Agents
<1>1. CASE PollDivert(w)
  BY <1>1, Reschedule, ActsOK DEF PollDivert, Messages
<1>2. CASE PollOverdue(w)
  BY <1>2, AdvanceParked, ActsOK DEF PollOverdue, TaskStatus
<1>3. CASE PollDeferred(w)
  BY <1>3, Reschedule DEF PollDeferred, ScheduleNextPoll
<1>4. CASE PollCall(w)
  <2>1. CASE seen[w].uid = NoId
    BY <1>4, <2>1, AdvanceDue, ActsOK DEF PollCall, TaskStatus
  <2>2. CASE seen[w].uid # NoId
    BY <1>4, <2>2, AnswerPlace, Reschedule DEF PollCall
  <2> QED BY <2>1, <2>2
<1> QED BY <1>1, <1>2, <1>3, <1>4 DEF PollStep

(* _handle_poll_result.                                                     *)
LEMMA PollResultFine ==
    ASSUME Inv, NEW w \in Agents, PollResultStep(w)
    PROVE  Fine
<1>1. CASE PollRunning(w)
  BY <1>1, Reschedule DEF PollRunning, IfUnmoved, Places, Critical
<1>2. CASE PollPromote(w)
  <2>1. Kept
    BY <1>2, OutsideKept DEF Inv, PollPromote, outside
  <2>2. AgentsOK' /\ Calm /\ RowFine
    BY <1>2, <2>1, AdvanceOK, ActsOK DEF PollPromote, Inv, RowOK, TaskStatus
  <2> QED BY <1>2, <2>2, AgentFine DEF PollPromote
<1>3. CASE PollSucceeded(w)
  BY <1>3, AdvanceParked, ActsOK DEF PollSucceeded, TaskStatus
<1>4. CASE PollExpired(w)
  BY <1>4, AdvanceParked, ActsOK DEF PollExpired, TaskStatus
<1>5. CASE PollFailed(w)
  BY <1>5, AdvanceParked, AdvanceDue, ActsOK DEF PollFailed, TaskStatus
<1>6. CASE PollGarbled(w)
  BY <1>6, AdvanceDue, Reschedule, ActsOK DEF PollGarbled, IfUnmoved, TaskStatus
<1>7. CASE PollDoubted(w)
  <2>1. CASE pc[w] = "missing" /\ seen[w].poll404 + 1 < Poll404Threshold
    <3>1. Kept
      BY <1>7, OutsideKept DEF Inv, PollDoubted, outside
    <3>2. seen[w].poll404 + 1 \in Nat
      BY DEF Inv, AgentsOK, Snapshot
    <3>3. /\ row' \in Row /\ row'.status = row.status
          /\ row'.uid = row.uid /\ row'.intent = row.intent
      BY <1>7, <2>1, <3>2 DEF PollDoubted, Inv, RowOK, Row
    <3>4. AgentsOK' /\ Calm
      BY <1>7, <2>1, <3>1, GotoOK DEF PollDoubted, Inv, Places, Critical
    <3> QED BY <1>7, <3>1, <3>3, <3>4, KeptRow, AgentFine DEF PollDoubted, Inv
  <2>2. CASE ~(pc[w] = "missing" /\ seen[w].poll404 + 1 < Poll404Threshold)
    BY <1>7, <2>2, AdvanceDue, ActsOK DEF PollDoubted, TaskStatus, Messages
  <2> QED BY <2>1, <2>2
<1>8. CASE PollBroken(w)
  BY <1>8, Reschedule DEF PollBroken, IfUnmoved, Places, Critical
<1>9. CASE PollReschedule(w)
  BY <1>9, Reschedule DEF PollReschedule, ScheduleNextPoll
<1>10. CASE PollThrottled(w)
  BY <1>10, Reschedule DEF PollThrottled, IfUnmoved
<1>11. CASE PollSsrf(w)
  BY <1>11, AdvanceParked, ActsOK DEF PollSsrf, TaskStatus
<1> QED BY <1>1, <1>2, <1>3, <1>4, <1>5, <1>6, <1>7, <1>8, <1>9, <1>10, <1>11
        DEF PollResultStep

(* compensate_orphan, apart from the confirm call and its "absent".         *)
LEMMA CompensateFine ==
    ASSUME Inv, NEW w \in Workers, CompensateStep(w),
           ~ConfirmCall(w), ~CompensateAbsent(w)
    PROVE  Fine
<1> w \in Agents
  BY DEF Agents
<1>1. CASE CompensateCancelled(w)
  BY <1>1, AdvanceParked, ActsOK DEF CompensateCancelled, TaskStatus
<1>2. CASE CompensateResume(w) \/ CompensateFound(w)
  <2>1. Kept
    BY <1>2, OutsideKept DEF Inv, CompensateResume, CompensateFound, outside
  <2>2. PICK u \in Uids \cup {NoId}, lost \in SUBSET Acts :
           /\ u # NoId /\ Created(u)
           /\ Advance(w, Unknown, "upstream_submitted", Relocated(u),
                      {"poll_upstream"}, lost)
    BY <1>2, ActsOK DEF CompensateResume, CompensateFound, Inv, AgentsOK,
       AgentIds, Snapshot, Messages
  <2>3. /\ Relocated(u) \in Row /\ Relocated(u).uid = u
        /\ Relocated(u).intent = row.intent
    BY RelocatedOK DEF Inv, RowOK
  <2>4. AgentsOK' /\ Calm /\ RowFine
    <3> {"poll_upstream"} \in SUBSET Acts
      BY DEF Acts, Messages
    <3> DEFINE new == Relocated(u)
    <3> HIDE DEF new
    <3>1. new \in Row /\ new.uid # NoId /\ Created(new.uid) /\ new.intent = row.intent
      BY <2>2, <2>3 DEF new
    <3>2. Advance(w, Unknown, "upstream_submitted", new, {"poll_upstream"}, lost)
      BY <2>2 DEF new
    <3> QED BY <2>1, <3>1, <3>2, AdvanceOK DEF Inv, TaskStatus
  <2> QED BY <1>2, <2>4, AgentFine DEF CompensateResume, CompensateFound
<1>3. CASE CompensateGiveUp(w)
  BY <1>3, AdvanceParked, ActsOK DEF CompensateGiveUp, TaskStatus
<1>4. CASE CompensateInconclusive(w)
  <2>1. Kept
    BY <1>4, OutsideKept DEF Inv, CompensateInconclusive, outside
  <2>2. /\ [Due EXCEPT !.ext = 0, !.poll404 = 0] \in Row
        /\ [Due EXCEPT !.ext = 0, !.poll404 = 0].uid = row.uid
        /\ [Due EXCEPT !.ext = 0, !.poll404 = 0].intent = row.intent
    BY DEF Due, Inv, RowOK, Row
  <2>3. AgentsOK' /\ Calm /\ RowFine
    BY <1>4, <2>1, <2>2, AdvanceOK, ActsOK DEF CompensateInconclusive, Inv, RowOK, TaskStatus
  <2> QED BY <1>4, <2>3, AgentFine DEF CompensateInconclusive
<1> QED BY <1>1, <1>2, <1>3, <1>4 DEF CompensateStep

(* A confirmation finds only tasks that exist.                              *)
LEMMA ConfirmCallFine ==
    ASSUME Inv, NEW w \in Workers, ConfirmCall(w)
    PROVE  Inv' /\ Lawful
<1> w \in Agents
  BY DEF Agents
<1>1. Kept /\ RowFine
  BY OutsideKept, SameRow DEF Inv, ConfirmCall, outside
<1>2. AgentsOK'
  <2>1. CASE Goto(w, "absent") \/ Goto(w, "inconclusive")
    BY <1>1, <2>1, GotoOK DEF Inv, Places
  <2>2. ASSUME NEW u \in Uids, Created(u), pc' = [pc EXCEPT ![w] = "found"],
               tok' = [tok EXCEPT ![w] = u], UNCHANGED <<job, seen, todo>>
        PROVE  AgentsOK'
    <3>1. \A v \in Agents : AgentIds(v)'
      BY <1>1, <2>2, NoIdAssumption DEF Inv, AgentsOK, AgentIds, At, Kept, Snapshot
    <3> QED BY <2>2, <3>1 DEF Inv, AgentsOK, Places
  <2> QED BY <2>1, <2>2 DEF ConfirmCall
<1> QED BY <1>1, <1>2 DEF ConfirmCall, Inv, RowFine, outside, RestOK, UpOK

(* A confirmed absence releases the intent.                                 *)
LEMMA CompensateAbsentFine ==
    ASSUME Inv, NEW w \in Workers, CompensateAbsent(w)
    PROVE  Inv' /\ Lawful
<1> w \in Agents
  BY DEF Agents
<1>1. Kept
  BY OutsideKept DEF Inv, CompensateAbsent, outside
<1>2. /\ [Due EXCEPT !.intent = FALSE] \in Row
      /\ [Due EXCEPT !.intent = FALSE].uid = row.uid
  BY DEF Due, Inv, RowOK, Row
<1>3. AgentsOK' /\ RowOK' /\ Lawful
  BY <1>1, <1>2, AdvanceOK, ActsOK DEF CompensateAbsent, Inv, RowOK, TaskStatus, Messages
<1> QED BY <1>3 DEF CompensateAbsent, Inv, outside, RestOK, UpOK

(* cancel_upstream.                                                         *)
LEMMA CancelFine ==
    ASSUME Inv, NEW w \in Workers, CancelStep(w)
    PROVE  Fine
<1> w \in Agents
  BY DEF Agents
<1>1. CASE CancelUnsupported(w)
  BY <1>1, AdvanceParked, Reschedule, ActsOK DEF CancelUnsupported, ScheduleNextPoll, TaskStatus
<1>2. CASE CancelUnsent(w)
  BY <1>2, AdvanceParked, ActsOK DEF CancelUnsent, TaskStatus
<1>3. CASE CancelCall(w)
  <2>1. seen[w].uid \in Uids /\ Created(seen[w].uid)
    BY <1>3 DEF CancelCall, Inv, AgentsOK, AgentIds, Snapshot
  <2>2. /\ up' \in [Uids -> UpStates]
        /\ up'[seen[w].uid] \in {up[seen[w].uid], "cancelled"}
        /\ \A u \in Uids : u # seen[w].uid => up'[u] = up[u]
    BY <1>3, <2>1 DEF CancelCall, Inv, UpOK, UpStates
  <2>3. Kept /\ \A u \in Uids : up[u] = "unused" => up'[u] = "unused"
    BY <2>1, <2>2 DEF Kept, UpOK, Created
  <2>4. Goto(w, "refused") \/ Goto(w, "stopped")
    BY <1>3 DEF CancelCall
  <2>5. AgentsOK' /\ Calm
    BY <2>3, <2>4, GotoOK DEF Inv, Places, Critical
  <2>6. RowFine
    BY <1>3, <2>3, SameRow DEF CancelCall, Inv
  <2> QED BY <1>3, <2>3, <2>5, <2>6 DEF CancelCall, Fine, Inv, RowFine, Quiet, Kept, RestOK
<1>4. CASE CancelDone(w)
  BY <1>4, AdvanceParked, ActsOK DEF CancelDone, TaskStatus
<1>5. CASE CancelRefused(w)
  BY <1>5, Reschedule DEF CancelRefused, ScheduleNextPoll
<1> QED BY <1>1, <1>2, <1>3, <1>4, <1>5 DEF CancelStep

(* A worker takes a message; an agent finishes, unwinds or dies.            *)
LEMMA MessageFine ==
    ASSUME Inv, NEW w \in Agents,
           \/ \E m \in Messages : Consume(w, m)
           \/ Finish(w) \/ Unwind(w) \/ Crash(w)
    PROVE  Fine
<1>1. Kept /\ \A u \in Uids : up[u] = "unused" => up'[u] = "unused"
  BY OutsideKept DEF Inv, Consume, Finish, Unwind, Crash
<1>2. RowFine
  BY <1>1, SameRow DEF Inv, Consume, Finish, Unwind, Crash
<1>3. CASE Finish(w) \/ Unwind(w) \/ Crash(w)
  <2>1. AgentsOK' /\ Calm
    BY <1>1, <1>3, ReturnOK DEF Inv, Finish, Unwind, Crash
  <2>2. RestOK'
    BY <1>3 DEF Inv, RestOK, Finish, Unwind, Crash, Messages
  <2> QED BY <1>1, <1>2, <2>1, <2>2 DEF Fine, Inv, RowFine, Quiet, Kept
<1>4. ASSUME NEW m \in Messages, Consume(w, m)
      PROVE  Fine
  <2>1. RestOK'
    BY <1>4 DEF Inv, RestOK, Consume
  <2>2. CASE row.status \in Concerns(m)
    <3>1. Load(m) \in Snapshot /\ Load(m).uid \in {NoId, row.uid} /\ m # "query"
      BY LoadOK DEF Inv, Messages
    <3>2. \A v \in Agents : AgentIds(v)'
      BY <1>1, <1>4, <2>2, <3>1 DEF Consume, Inv, RowOK, AgentsOK, AgentIds, At, Kept, Snapshot, Row
    <3>3. AgentsOK'
      BY <1>4, <2>2, <3>1, <3>2 DEF Consume, Inv, AgentsOK, Places, Jobs
    <3>4. Calm
      BY <1>4, <2>2 DEF Consume, Inv, AgentsOK, Calm, Critical
    <3> QED BY <1>1, <1>2, <2>1, <3>3, <3>4 DEF Fine, Inv, RowFine, Quiet, Kept
  <2>3. CASE row.status \notin Concerns(m)
    <3>1. AgentsOK' /\ Calm
      BY <1>1, <1>4, <2>3, IdleOK DEF Consume, Inv
    <3> QED BY <1>1, <1>2, <2>1, <3>1 DEF Fine, Inv, RowFine, Quiet, Kept
  <2> QED BY <2>2, <2>3
<1> QED BY <1>3, <1>4

(* Gateway requests, apart from the inline submit's hold on the intent.     *)
LEMMA GatewayFine ==
    ASSUME Inv, NEW g \in Gateways,
           \/ InlineReload(g) \/ RequestCancel(g)
           \/ QueryRefresh(g) \/ QueryCall(g)
    PROVE  Fine
<1> g \in Agents
  BY DEF Agents
<1>0. UNCHANGED outside
  BY DEF InlineReload, RequestCancel, QueryRefresh, QueryCall
<1>1. Kept
  BY <1>0, OutsideKept DEF Inv, outside
<1>2. CASE InlineReload(g)
  <2>1. Load("inline_reloaded") \in Snapshot /\ Load("inline_reloaded").uid \in {NoId, row.uid}
    BY LoadOK DEF Inv
  <2>2. \A v \in Agents : AgentIds(v)'
    BY <1>1, <1>2, <2>1 DEF InlineReload, Inv, RowOK, AgentsOK, AgentIds, At, Kept, Snapshot, Row
  <2>3. AgentsOK' /\ Calm
    BY <1>2, <2>1, <2>2 DEF InlineReload, Inv, AgentsOK, Jobs, Calm
  <2> QED BY <1>0, <1>1, <1>2, <2>3, SameRow, AgentFine DEF InlineReload, Inv
<1>3. CASE RequestCancel(g)
  <2>1. /\ row' \in Row /\ row'.status = row.status
        /\ row'.uid = row.uid /\ row'.intent = row.intent
    BY <1>3 DEF RequestCancel, Inv, RowOK, Row
  <2>2. \A v \in Agents : AgentIds(v)'
    BY <1>1, <1>3 DEF RequestCancel, Inv, AgentsOK, AgentIds, At, Kept, Snapshot
  <2>3. AgentsOK' /\ Calm
    BY <1>3, <2>2 DEF RequestCancel, Inv, AgentsOK, Places, Jobs, Acts, Messages, Calm, Critical
  <2> QED BY <1>0, <1>1, <2>1, <2>3, KeptRow, AgentFine DEF Inv
<1>4. CASE QueryRefresh(g)
  <2>1. Load("query") \in Snapshot /\ Load("query").uid = row.uid
    BY LoadOK DEF Inv
  <2>2. \A v \in Agents : AgentIds(v)'
    BY <1>1, <1>4, <2>1 DEF QueryRefresh, Inv, RowOK, AgentsOK, AgentIds, At, Kept, Snapshot, Row
  <2>3. AgentsOK' /\ Calm
    BY <1>4, <2>1, <2>2 DEF QueryRefresh, Inv, AgentsOK, Places, Jobs, Calm, Critical
  <2> QED BY <1>0, <1>1, <1>4, <2>3, SameRow, AgentFine DEF QueryRefresh, Inv
<1>5. CASE QueryCall(g)
  <2>1. seen[g].uid # NoId
    BY <1>5 DEF QueryCall, Inv, AgentsOK, AgentIds
  <2> QED BY <1>5, <2>1, AnswerPlace, Reschedule DEF QueryCall
<1> QED BY <1>2, <1>3, <1>4, <1>5

(* receive_callback: what was reported is kept, and names no task.          *)
LEMMA ReceiveFine ==
    ASSUME Inv, NEW g \in Gateways, NEW u \in Uids, ReceiveCallback(g, u)
    PROVE  Fine
<1> g \in Agents
  BY DEF Agents
<1>0. UNCHANGED outside /\ UNCHANGED row
  BY DEF ReceiveCallback
<1>1. Kept
  BY <1>0, OutsideKept DEF Inv, outside
<1>2. PICK v \in {"running"} \cup VerdictsOf(up[u]) :
        seen' = [seen EXCEPT ![g] = [Blank EXCEPT !.status = row.status,
                                        !.due = row.scheduled, !.told = v]]
  BY DEF ReceiveCallback
<1>3. v \in Verdicts
  BY <1>2 DEF ReceiveCallback, Inv, UpOK, UpStates, Created, VerdictsOf, Verdicts
<1> DEFINE loaded == [Blank EXCEPT !.status = row.status,
                                   !.due = row.scheduled, !.told = v]
<1>4. loaded \in Snapshot /\ loaded.uid = NoId
  BY <1>3 DEF Blank, Snapshot, Inv, RowOK, Row
<1>5. \A a \in Agents : AgentIds(a)'
  BY <1>1, <1>2, <1>4 DEF ReceiveCallback, Inv, AgentsOK, AgentIds, At, Kept, Snapshot
<1>6. seen' \in [Agents -> Snapshot]
  BY <1>2, <1>4 DEF Inv, AgentsOK
<1>7. AgentsOK' /\ Calm
  BY <1>5, <1>6 DEF ReceiveCallback, Inv, AgentsOK, Places, Jobs, Calm, Critical
<1> QED BY <1>0, <1>1, <1>7, SameRow, AgentFine DEF Inv

(* _apply_callback.                                                         *)
LEMMA CallbackFine ==
    ASSUME Inv, NEW g \in Gateways, CallbackStep(g)
    PROVE  Fine
<1> g \in Agents
  BY DEF Agents
<1>0. UNCHANGED outside
  BY DEF CallbackStep, CallbackProgress, CallbackArbitrated, CallbackVerdict
<1>1. Kept
  BY <1>0, OutsideKept DEF Inv, outside
<1>2. CASE CallbackProgress(g)
  <2>1. seen[g].due \in BOOLEAN
    BY DEF Inv, AgentsOK, Snapshot
  <2>2. row' \in {row, Due}
    BY <1>2, <2>1 DEF CallbackProgress, Due, Inv, RowOK, Row
  <2> QED BY <1>0, <1>2, <2>2, Reschedule DEF CallbackProgress
<1>3. CASE CallbackArbitrated(g)
  BY <1>3, Reschedule DEF CallbackArbitrated, ScheduleNextPoll
<1>4. CASE CallbackVerdict(g)
  <2>1. CASE Advance(g, {seen[g].status}, "failed", row, {"finalize"}, {})
    <3>1. AgentsOK' /\ Calm /\ RowFine
      BY <1>1, <2>1, AdvanceOK, ActsOK DEF Inv, RowOK, TaskStatus
    <3> QED BY <1>0, <3>1, AgentFine
  <2>2. CASE \E d \in {"succeeded", "timeout"} :
               Advance(g, {seen[g].status}, d, Parked, {"finalize"}, {})
    BY <1>0, <2>2, AdvanceParked, ActsOK DEF TaskStatus
  <2> QED BY <1>4, <2>1, <2>2 DEF CallbackVerdict
<1> QED BY <1>2, <1>3, <1>4 DEF CallbackStep

(* A sweep of the inspector that moves the row.                             *)
LEMMA SweepOK ==
    ASSUME RowOK, RestOK, Kept, NEW src, NEW dst \in TaskStatus \ {"upstream_submitted"},
           NEW new \in {Parked, Due}, NEW msgs \in SUBSET Messages,
           SweepMove(src, dst, new, msgs)
    PROVE  RowFine /\ bus' \subseteq Messages /\ insp' \in Sweeps
<1>1. new \in Row /\ new.uid = row.uid /\ new.intent = row.intent
  BY ParkedOK, DueOK DEF RowOK
<1>2. CASE CanTransition(src, dst) /\ row.status = src
  <2>1. row' = [new EXCEPT !.status = dst] /\ CanTransition(row.status, dst)
    BY <1>2 DEF SweepMove
  <2>2. RowFine
    BY <1>1, <2>1, MovedOK DEF RowOK, RowFine
  <2> QED BY <1>2, <2>2 DEF SweepMove, RestOK, Sweeps
<1>3. CASE ~(CanTransition(src, dst) /\ row.status = src)
  BY <1>3, SameRow DEF SweepMove, RestOK, Sweeps
<1> QED BY <1>2, <1>3

(* The inspector.                                                           *)
LEMMA InspectorFine ==
    ASSUME Inv, InspectorStep
    PROVE  Fine
<1>1. UNCHANGED inspectorOnly /\ UNCHANGED agents
  BY DEF InspectorStep, ScanAcceptedStalls, StalledToUnknown, ScanDeadlines,
     ExpiredToTimeout, BoundUnknowns, ReconcileOrphans, NextTick
<1>2. Kept /\ \A u \in Uids : up[u] = "unused" => up'[u] = "unused"
  BY <1>1, OutsideKept DEF Inv, inspectorOnly
<1>3. AgentsOK' /\ Calm
  BY <1>1, <1>2, IdleOK DEF Inv
<1>4. RowFine /\ bus' \subseteq Messages /\ insp' \in Sweeps
  <2> SUFFICES ASSUME RowOK, RestOK, Kept
               PROVE  RowFine /\ bus' \subseteq Messages /\ insp' \in Sweeps
    BY <1>2 DEF Inv
  <2>1. CASE ScanAcceptedStalls
    BY <2>1, SameRow DEF ScanAcceptedStalls, RestOK, Sweeps, Messages
  <2>2. CASE StalledToUnknown
    BY <2>2, SweepOK DEF StalledToUnknown, TaskStatus, Messages
  <2>3. CASE ScanDeadlines
    <3>1. CASE row.status = "accepted"
      BY <2>3, <3>1, SameRow DEF ScanDeadlines, RestOK, Sweeps
    <3>2. CASE row.status # "accepted"
      <4>1. SweepMove(row.status, "timeout", Parked, {})
        BY <2>3, <3>2 DEF ScanDeadlines
      <4>2. "timeout" \in TaskStatus \ {"upstream_submitted"}
        BY DEF TaskStatus
      <4> QED BY <4>1, <4>2, SweepOK
    <3> QED BY <3>1, <3>2
  <2>4. CASE ExpiredToTimeout
    BY <2>4, SweepOK DEF ExpiredToTimeout, TaskStatus
  <2>5. CASE BoundUnknowns
    BY <2>5, SweepOK DEF BoundUnknowns, TaskStatus
  <2>6. CASE ReconcileOrphans
    BY <2>6, SweepOK DEF ReconcileOrphans, TaskStatus, Messages
  <2>7. CASE NextTick
    BY <2>7, SameRow DEF NextTick, RestOK, Sweeps
  <2> QED BY <2>1, <2>2, <2>3, <2>4, <2>5, <2>6, <2>7 DEF InspectorStep
<1> QED BY <1>1, <1>2, <1>3, <1>4 DEF Fine, Inv, RowFine, Quiet, RestOK, UpOK, inspectorOnly, Kept

(* What happens to the upstream's tasks without the gateway.                *)
LEMMA UpstreamFine ==
    ASSUME Inv, NEW u \in Uids,
           UpCreate(u) \/ UpLose(u) \/ \E s \in Outcomes : UpEnd(u, s)
    PROVE  Fine
<1>1. Kept /\ \A v \in Uids : up[v] = "unused" => up'[v] = "unused"
  BY NoiseAssumption DEF Inv, UpOK, UpStates, UpCreate, UpLose, UpEnd, Kept, Created
<1>2. AgentsOK' /\ Calm
  BY <1>1, IdleOK DEF Inv, UpCreate, UpLose, UpEnd
<1>3. RowFine
  BY <1>1, SameRow DEF Inv, UpCreate, UpLose, UpEnd
<1> QED BY <1>1, <1>2, <1>3 DEF Fine, Inv, RowFine, Quiet, RestOK, UpCreate, UpLose, UpEnd, Kept

(* The steps that leave the agents and the upstream alone.                  *)
LEMMA OthersFine ==
    ASSUME Inv,
           \/ AcceptQueued \/ SchedulerDispatch \/ CloseTask \/ DeadlinePasses
           \/ CredentialExpires \/ AcceptCrash \/ TroubleEnds
           \/ (\E w \in Agents : Redeliver(w))
           \/ (\E m \in Messages : LoseMessage(m))
           \/ UNCHANGED vars
    PROVE  Fine
<1>1. UNCHANGED up /\ UNCHANGED agents
  BY DEF AcceptQueued, SchedulerDispatch, CloseTask, DeadlinePasses,
     CredentialExpires, AcceptCrash, TroubleEnds, Redeliver, LoseMessage,
     outside, vars, agents
<1>2. Kept /\ \A u \in Uids : up[u] = "unused" => up'[u] = "unused"
  BY <1>1, OutsideKept DEF Inv
<1>3. AgentsOK' /\ Calm
  BY <1>1, <1>2, IdleOK DEF Inv
<1>4. RowFine
  <2>1. CASE CloseTask
    <3>1. Parked \in Row /\ Parked.uid = row.uid /\ Parked.intent = row.intent
      BY ParkedOK DEF Inv, RowOK
    <3> QED BY <1>2, <2>1, <3>1, MovedOK DEF CloseTask, Inv, RowOK, RowFine, TaskStatus
  <2>2. CASE DeadlinePasses
    <3>1. /\ row' \in Row /\ row'.status = row.status
          /\ row'.uid = row.uid /\ row'.intent = row.intent
      BY <2>2 DEF DeadlinePasses, Inv, RowOK, Row
    <3> QED BY <1>2, <3>1, KeptRow DEF Inv
  <2>3. CASE UNCHANGED row
    BY <1>2, <2>3, SameRow DEF Inv
  <2> QED BY <2>1, <2>2, <2>3 DEF AcceptQueued, SchedulerDispatch,
     CredentialExpires, AcceptCrash, TroubleEnds, Redeliver, LoseMessage, vars
<1>5. RestOK'
  <2>1. CASE SchedulerDispatch
    <3>1. DispatchByStatus(row.status) \in Messages
      BY <2>1 DEF SchedulerDispatch, DueForDispatch, DispatchByStatus,
             ActiveStatuses, Messages
    <3> QED BY <2>1, <3>1 DEF SchedulerDispatch, Inv, RestOK
  <2>2. CASE ~SchedulerDispatch
    BY <2>2 DEF AcceptQueued, CloseTask, DeadlinePasses, CredentialExpires,
       AcceptCrash, TroubleEnds, Redeliver, LoseMessage, outside, vars,
       Messages, Inv, RestOK
  <2> QED BY <2>1, <2>2
<1> QED BY <1>2, <1>3, <1>4, <1>5 DEF Fine, Inv, RowFine, Quiet, Kept

-----------------------------------------------------------------------------
(* Types, ids and the whitelist.                                            *)

(* The row accept_create inserts, with everybody idle.                      *)
LEMMA InitInv == Init => Inv
<1> SUFFICES ASSUME Init PROVE Inv
  OBVIOUS
<1>1. RowOK
  BY DEF Init, RowOK, NewRow, Row, TaskStatus, Polled
<1>2. AgentsOK
  BY BlankOK DEF Init, AgentsOK, AgentIds, At, Places, Jobs, Acts
<1> QED BY <1>1, <1>2 DEF Init, Inv, RestOK, UpOK, UpStates, Sweeps

(* Every step of the system, faults included, preserves the invariant and   *)
(* moves the status along the whitelist.                                    *)
LEMMA NextInv ==
    ASSUME Inv, Next \/ TroubleEnds \/ UNCHANGED vars
    PROVE  Inv' /\ Lawful
<1>1. ASSUME NEW w \in Workers, WorkerStep(w)
      PROVE  Inv' /\ Lawful
  <2>1. CASE SubmitStep(w)
    BY <2>1, SubmitFine, SubmitIntentFine DEF Fine
  <2>2. CASE PollStep(w)
    BY <2>2, PollFine DEF Fine
  <2>3. CASE CompensateStep(w)
    BY <2>3, CompensateFine, ConfirmCallFine, CompensateAbsentFine DEF Fine
  <2>4. CASE CancelStep(w)
    BY <2>4, CancelFine DEF Fine
  <2> QED BY <1>1, <2>1, <2>2, <2>3, <2>4 DEF WorkerStep
<1>2. ASSUME NEW g \in Gateways, GatewayStep(g)
      PROVE  Inv' /\ Lawful
  BY <1>2, GatewayFine, ReceiveFine, CallbackFine, AcceptInlineFine, InlineDeniedFine
     DEF GatewayStep, Fine, Agents
<1>3. ASSUME NEW w \in Agents, AgentStep(w)
      PROVE  Inv' /\ Lawful
  <2>1. CASE CreateStep(w)
    BY <2>1, SendCreateFine, CreateFine, ConnectFailedFine, ReplyPushbackFine
       DEF CreateStep, Fine
  <2>2. CASE PollResultStep(w)
    BY <2>2, PollResultFine DEF Fine
  <2>3. CASE Finish(w) \/ Unwind(w)
    BY <2>3, MessageFine DEF Fine
  <2> QED BY <1>3, <2>1, <2>2, <2>3 DEF AgentStep
<1>4. ASSUME NEW w \in Workers, NEW m \in Messages, Consume(w, m)
      PROVE  Inv' /\ Lawful
  BY <1>4, MessageFine DEF Agents, Fine
<1>5. CASE InspectorStep
  BY <1>5, InspectorFine DEF Fine
<1>6. CASE Environment
  BY <1>6, UpstreamFine, OthersFine DEF Environment, Fine
<1>7. CASE Faults
  BY <1>7, MessageFine, OthersFine DEF Faults, Fine
<1>8. CASE AcceptQueued \/ SchedulerDispatch \/ CloseTask \/ Settled
           \/ TroubleEnds \/ UNCHANGED vars
  BY <1>8, OthersFine DEF Settled, Fine
<1> QED BY <1>1, <1>2, <1>3, <1>4, <1>5, <1>6, <1>7, <1>8 DEF Next

(* Inv holds throughout.                                                    *)
LEMMA Invariance == Spec => []Inv
<1>1. Inv /\ [Next]_vars => Inv'
  BY NextInv
<1> QED BY InitInv, <1>1, PTL DEF Spec

(* Every variable keeps its type, for every number of workers, requests and *)
(* upstream tasks: in particular no handler ever polls, cancels or confirms *)
(* an upstream task that does not exist.                                    *)
THEOREM TypeCorrect == Spec => []TypeOK
<1>1. Inv => TypeOK
  BY DEF Inv, RowOK, AgentsOK, RestOK, UpOK, TypeOK, Acts
<1> QED BY Invariance, <1>1, PTL

(* A row in a polled, failed or succeeded status always carries the id of a *)
(* task the upstream created, whatever answer, sweep or confirmation put it *)
(* there (mark_submitted, relocate_compensate, advance).                    *)
THEOREM PolledExists == Spec => []PolledTaskExists
<1>1. Inv => PolledTaskExists
  BY DEF Inv, RowOK, Polled, PolledTaskExists
<1> QED BY Invariance, <1>1, PTL

(* The whitelist leads nowhere from a verdict, but for an operator's close. *)
LEMMA LawfulStands ==
    ASSUME Inv, Lawful, row.status \in BusinessTerminal
    PROVE  \/ row'.status = row.status
           \/ row.status = "dead_awaiting_confirm" /\ row'.status = "dead"
BY DEF Lawful, CanTransition, AllowedTargets, BusinessTerminal, InternalTerminal

(* No write of any process takes a verdict back, although every handler     *)
(* decides on a row it loaded earlier: the status condition of each write   *)
(* and the whitelist (TaskDAO.advance, _cas) are enough.                    *)
THEOREM VerdictsStand == Spec => VerdictStands
<1>1. Inv /\ [Next]_vars =>
        [row.status \in BusinessTerminal =>
           \/ row'.status = row.status
           \/ row.status = "dead_awaiting_confirm" /\ row'.status = "dead"]_vars
  BY NextInv, LawfulStands
<1> QED BY Invariance, <1>1, PTL DEF Spec, VerdictStands

-----------------------------------------------------------------------------
(* The creation lock of a template that never re-creates on its own.        *)

Creating(w) == pc[w] \in {"intended", "sent"}

(* The submit intent is a lock around the create call: whoever is between   *)
(* taking it and having the answer is alone there, and a request on the     *)
(* wire, or a task made of it, keeps the lock taken for good - by the agent *)
(* waiting for that very request, if any.                                   *)
Lock ==
    /\ \A w \in Agents : pc[w] # "absent"
    /\ \A w \in Agents : Creating(w) => row.intent
    /\ \A v, w \in Agents : Creating(v) /\ Creating(w) => v = w
    /\ \A u \in Uids : up[u] # "unused" =>
          /\ row.intent
          /\ \A w \in Agents : Creating(w) => pc[w] = "sent" /\ tok[w] = u
    /\ \A u, v \in Uids : up[u] # "unused" /\ up[v] # "unused" => u = v

(* A quiet step keeps the lock.                                             *)
LEMMA QuietLock ==
    ASSUME Inv, Lock, Quiet
    PROVE  Lock'
BY DEF Lock, Quiet, Calm, Critical, Creating, Inv, UpOK

(* Taking the lock.                                                         *)
LEMMA TakeLock ==
    ASSUME Inv, Lock, NEW w \in Agents, ~row.intent, row'.intent,
           UNCHANGED <<up, tok>>, pc' = [pc EXCEPT ![w] = "intended"]
    PROVE  Lock'
BY DEF Lock, Creating, Inv, AgentsOK, UpOK

(* Giving it back when nothing was sent.                                    *)
LEMMA DropUnsent ==
    ASSUME Inv, Lock, Calm, NEW w \in Agents, pc[w] = "intended",
           pc'[w] \notin Critical, UNCHANGED up
    PROVE  Lock'
BY DEF Lock, Calm, Critical, Creating, Inv, AgentsOK, UpOK

(* Giving it back when the upstream said it created nothing.                *)
LEMMA DropAnswered ==
    ASSUME Inv, Lock, Calm, NEW w \in Agents, pc[w] = "sent",
           up[tok[w]] = "wire", Answered(w), pc'[w] \notin Critical
    PROVE  Lock'
<1>1. tok[w] \in Uids
  BY DEF Inv, AgentsOK, AgentIds
<1>2. \A u \in Uids : up'[u] = "unused"
  BY <1>1 DEF Lock, Answered, Inv, UpOK
<1> QED BY <1>2 DEF Lock, Calm, Critical, Creating

(* Where Then and Goto leave an agent.                                      *)
LEMMA ThenLeaves ==
    ASSUME AgentsOK, NEW w \in Agents, NEW acts, Then(w, acts)
    PROVE  pc'[w] \notin Critical
BY DEF AgentsOK, Then, Return, Critical

(* Under manual_only every step keeps the creation lock.                    *)
LEMMA NextLock ==
    ASSUME Inv, Lock, ~ConfirmAuto, Next \/ UNCHANGED vars
    PROVE  Lock'
<1>1. ASSUME Fine PROVE Lock'
  BY <1>1, QuietLock DEF Fine
<1>2. ASSUME NEW w \in Workers, WorkerStep(w)
      PROVE  Lock'
  <2> w \in Agents
    BY DEF Agents
  <2>1. CASE SubmitIntent(w)
    <3>1. CASE row.status = "accepted" /\ ~row.intent
      <4>1. row'.intent
        BY <2>1, <3>1, IntendedOK DEF SubmitIntent, Inv, RowOK
      <4> QED BY <2>1, <3>1, <4>1, TakeLock DEF SubmitIntent, Goto, outside
    <3>2. CASE ~(row.status = "accepted" /\ ~row.intent)
      BY <1>1, <2>1, <3>2, Reschedule DEF SubmitIntent
    <3> QED BY <3>1, <3>2
  <2>2. CASE SubmitStep(w) /\ ~SubmitIntent(w)
    BY <1>1, <2>2, SubmitFine
  <2>3. CASE PollStep(w)
    BY <1>1, <2>3, PollFine
  <2>4. CASE CompensateStep(w)
    BY <1>1, <2>4, CompensateFine DEF ConfirmCall, CompensateAbsent, Lock
  <2>5. CASE CancelStep(w)
    BY <1>1, <2>5, CancelFine
  <2> QED BY <1>2, <2>1, <2>2, <2>3, <2>4, <2>5 DEF WorkerStep
<1>3. ASSUME NEW g \in Gateways, GatewayStep(g)
      PROVE  Lock'
  <2> g \in Agents
    BY DEF Agents
  <2>1. CASE AcceptInline(g)
    <3>1. CASE row.status = "accepted" /\ ~row.intent
      <4>1. row'.intent
        BY <2>1, <3>1, IntendedOK DEF AcceptInline, Inv, RowOK
      <4> QED BY <2>1, <3>1, <4>1, TakeLock DEF AcceptInline
    <3>2. CASE ~(row.status = "accepted" /\ ~row.intent)
      <4>1. Quiet
        BY <2>1, <3>2 DEF AcceptInline, Quiet, Calm, Critical, Inv, AgentsOK
      <4> QED BY <4>1, QuietLock
    <3> QED BY <3>1, <3>2
  <2>2. CASE InlineDenied(g)
    BY <2>2, InlineDeniedFine, DropUnsent, ThenLeaves DEF InlineDenied, At, outside, Inv
  <2>3. CASE InlineReload(g) \/ RequestCancel(g) \/ QueryRefresh(g) \/ QueryCall(g)
    BY <1>1, <2>3, GatewayFine
  <2>4. CASE (\E u \in Uids : ReceiveCallback(g, u)) \/ CallbackStep(g)
    BY <1>1, <2>4, ReceiveFine, CallbackFine
  <2> QED BY <1>3, <2>1, <2>2, <2>3, <2>4 DEF GatewayStep
<1>4. ASSUME NEW w \in Agents, AgentStep(w)
      PROVE  Lock'
  <2>1. CASE \E u \in Uids : SendCreate(w, u)
    <3>1. PICK u \in Uids : SendCreate(w, u)
      BY <2>1
    <3>2. Creating(w) /\ row.intent /\ \A v \in Uids : up[v] = "unused"
      BY <3>1 DEF SendCreate, Lock, Creating
    <3> QED BY <3>1, <3>2 DEF SendCreate, Lock, Creating, Inv, AgentsOK, UpOK
  <2>2. CASE ConnectFailed(w)
    <3>1. CASE seen[w].attempts >= MaxAttempts
      BY <1>1, <2>2, <3>1, AdvanceParked, ActsOK DEF ConnectFailed, TaskStatus
    <3>2. CASE ~(seen[w].attempts >= MaxAttempts)
      <4>1. Then(w, {}) /\ UNCHANGED up
        BY <2>2, <3>2 DEF ConnectFailed, outside
      <4>2. Calm
        BY <4>1, ThenOK, ActsOK, OutsideKept DEF Inv
      <4> QED BY <2>2, <4>1, <4>2, ThenLeaves, DropUnsent DEF ConnectFailed, Handles, Inv
    <3> QED BY <3>1, <3>2
  <2>3. CASE ReplyPushback(w)
    <3>1. pc'[w] \notin Critical
      BY <2>3, ThenLeaves DEF ReplyPushback, Goto, Critical, Inv, AgentsOK
    <3> QED BY <2>3, <3>1, ReplyPushbackFine, DropAnswered DEF ReplyPushback, Handles
  <2>4. CASE SsrfRejected(w) \/ ReplyCreated(w) \/ ReplyUnclear(w)
             \/ NoteExtension(w) \/ ReplyRejected(w)
    BY <1>1, <2>4, CreateFine
  <2>5. CASE PollResultStep(w)
    BY <1>1, <2>5, PollResultFine
  <2>6. CASE Finish(w) \/ Unwind(w)
    BY <1>1, <2>6, MessageFine
  <2> QED BY <1>4, <2>1, <2>2, <2>3, <2>4, <2>5, <2>6 DEF AgentStep, CreateStep
<1>5. ASSUME NEW w \in Workers, NEW m \in Messages, Consume(w, m)
      PROVE  Lock'
  BY <1>1, <1>5, MessageFine DEF Agents
<1>6. CASE InspectorStep
  BY <1>1, <1>6, InspectorFine
<1>7. CASE Environment
  BY <1>1, <1>7, UpstreamFine, OthersFine DEF Environment
<1>8. CASE Faults
  BY <1>1, <1>8, MessageFine, OthersFine DEF Faults
<1>9. CASE AcceptQueued \/ SchedulerDispatch \/ CloseTask \/ Settled
           \/ UNCHANGED vars
  BY <1>1, <1>9, OthersFine DEF Settled
<1> QED BY <1>2, <1>3, <1>4, <1>5, <1>6, <1>7, <1>8, <1>9 DEF Next

(* Under manual_only the creation lock holds throughout.                    *)
LEMMA LockHolds == Spec => [](~ConfirmAuto => Lock)
<1>1. Init => Lock
  BY DEF Init, Lock, Creating
<1>2. Inv /\ (~ConfirmAuto => Lock) /\ [Next]_vars => (~ConfirmAuto => Lock)'
  BY NextLock
<1> QED BY Invariance, <1>1, <1>2, PTL DEF Spec

(* With manual_only the upstream creates at most one task for an accepted   *)
(* request, however many workers race, messages are redelivered and         *)
(* processes die: mark_submit_intent and the rules for releasing the intent *)
(* make the submit intent a lock that an unanswered request never gives up. *)
THEOREM CreatesOnce == Spec => []OneCreation
<1>1. Inv /\ (~ConfirmAuto => Lock) => OneCreation
  BY DEF Lock, OneCreation, Created
<1> QED BY Invariance, LockHolds, <1>1, PTL

(* With manual_only the row shows the submit intent for as long as a create *)
(* request may take effect, so that due_for_dispatch and                    *)
(* scan_accepted_stalls may resubmit rows without one.                      *)
THEOREM IntentCovers == Spec => []IntentCoversCreate
<1>1. Inv /\ (~ConfirmAuto => Lock) => IntentCoversCreate
  BY DEF Lock, IntentCoversCreate
<1> QED BY Invariance, LockHolds, <1>1, PTL

=============================================================================
