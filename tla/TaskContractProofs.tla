------------------------- MODULE TaskContractProofs -------------------------
(***************************************************************************)
(* TaskLifecycle implements TaskContract, and what the contract rests on:  *)
(* a task is cancelled only if asked, an upstream id stays, success is the *)
(* upstream's, and unknown tasks stay due.                                 *)
(*                                                                         *)
(* Every action is walked once more, now for what a handler remembers:     *)
(* where it has read a cancel request, an id or a verdict, the row and the *)
(* upstream still have it (Good).  A step of the gateway changes one thing *)
(* the contract speaks of, or none (OneMove), and nothing upstream but     *)
(* requests that are still on their way (SameUp).                          *)
(***************************************************************************)
EXTENDS TaskLifecycleProofs

Lingering == {"submit_unknown"}

(* The handler acts, or is about to act, on a cancel request.               *)
Wants(w) == \/ seen[w].cancel \/ "cancel_upstream" \in todo[w]
            \/ job[w] = "cancel_upstream" \/ pc[w] = "stopped"

AgentGood(w) ==
    /\ Wants(w) => row.cancel
    /\ pc[w] = "broken" => seen[w].status \notin Lingering
    /\ ~ConfirmAuto =>
          /\ seen[w].uid \in {NoId, row.uid}
          /\ pc[w] \notin {"found", "absent"}
          /\ pc[w] = "succeeded" =>
                seen[w].uid # NoId /\ up[seen[w].uid] = "succeeded"
          /\ pc[w] = "called" /\ seen[w].told = "succeeded" =>
                \E u \in Uids : up[u] = "succeeded"

AgentsGood == \A w \in Agents : AgentGood(w)

RowGood ==
    /\ row.status = "cancelled" => row.cancel
    /\ row.status \in Lingering => row.scheduled
    /\ ~ConfirmAuto =>
          /\ row.status = "accepted" => row.uid = NoId
          /\ row.status = "succeeded" =>
                row.uid # NoId /\ up[row.uid] = "succeeded"

BusGood == "cancel_upstream" \in bus => row.cancel

(* The inductive invariant of this module, beside Inv.                      *)
Good == RowGood /\ BusGood /\ AgentsGood

(* The upstream has created, and finished, the same tasks as before.        *)
SameUp == \A u \in Uids : /\ Created(u)' <=> Created(u)
                          /\ up'[u] = "succeeded" <=> up[u] = "succeeded"

(* One thing of the contract changes at a time: the verdict, the request to *)
(* cancel, or the id.                                                       *)
OneMove ==
    \/ row'.uid = row.uid /\ row'.cancel = row.cancel
    \/ /\ row'.uid = row.uid /\ row'.status = row.status /\ row'.cancel
       /\ row.status \in ActiveStatuses
    \/ /\ row.uid = NoId /\ row'.cancel = row.cancel
       /\ row.status \in ActiveStatuses /\ row'.status \in ActiveStatuses

RowMoves == (row.cancel => row'.cancel) /\ (~ConfirmAuto => OneMove)

Step == Good' /\ SameUp /\ RowMoves

(* What agents rely on: nothing they remember is taken back.                *)
Mono == /\ row.cancel => row'.cancel
        /\ (~ConfirmAuto /\ row.uid # NoId) => row'.uid = row.uid
        /\ \A u \in Uids : up[u] = "succeeded" => up'[u] = "succeeded"

LEMMA MovesMono ==
    ASSUME SameUp, RowMoves
    PROVE  Mono
BY DEF SameUp, RowMoves, OneMove, Mono

LEMMA SameUpstream ==
    ASSUME UNCHANGED up
    PROVE  SameUp
BY DEF SameUp, Created

-----------------------------------------------------------------------------
(* How an agent moves on.                                                   *)

(* The places where an agent knows something.                               *)
Knowing == {"stopped", "broken", "found", "absent", "succeeded", "loaded",
            "called"}

(* An agent that does not move keeps what it knows.                         *)
LEMMA OtherGood ==
    ASSUME Inv, AgentsGood, Mono, NEW v \in Agents, pc'[v] = pc[v],
           job'[v] = job[v], seen'[v] = seen[v], todo'[v] = todo[v]
    PROVE  AgentGood(v)'
<1>1. AgentGood(v) /\ seen[v] \in Snapshot /\ row \in Row
  BY DEF AgentsGood, Inv, AgentsOK, RowOK
<1>2. Wants(v)' => row'.cancel
  BY <1>1 DEF AgentGood, Wants, Mono
<1>3. (pc[v] = "broken" => seen[v].status \notin Lingering)'
  BY <1>1 DEF AgentGood
<1>4. ASSUME ~ConfirmAuto
      PROVE  /\ seen'[v].uid \in {NoId, row'.uid}
             /\ pc'[v] \notin {"found", "absent"}
             /\ pc'[v] = "succeeded" =>
                   seen'[v].uid # NoId /\ up'[seen'[v].uid] = "succeeded"
             /\ pc'[v] = "called" /\ seen'[v].told = "succeeded" =>
                   \E u \in Uids : up'[u] = "succeeded"
  BY <1>1, <1>4 DEF AgentGood, Mono, Snapshot, Row
<1> QED BY <1>2, <1>3, <1>4 DEF AgentGood

(* One that goes on to a place where nothing new is known keeps the rest.   *)
LEMMA GotoGood ==
    ASSUME Inv, AgentsGood, Mono, NEW w \in Agents,
           NEW p \in Places \ Knowing, Goto(w, p)
    PROVE  AgentsGood'
<1>1. ASSUME NEW v \in Agents, v # w PROVE AgentGood(v)'
  BY <1>1, OtherGood DEF Goto, Inv, AgentsOK
<1>2. /\ pc'[w] = p /\ job'[w] = job[w] /\ seen'[w] = seen[w]
      /\ todo'[w] = todo[w] /\ seen[w] \in Snapshot /\ row \in Row
      /\ AgentGood(w)
  BY DEF Goto, Inv, AgentsOK, RowOK, AgentsGood
<1>3. Wants(w)' => row'.cancel
  BY <1>2 DEF AgentGood, Wants, Mono, Knowing
<1>4. ~ConfirmAuto => seen'[w].uid \in {NoId, row'.uid}
  BY <1>2 DEF AgentGood, Mono, Snapshot, Row
<1>5. AgentGood(w)'
  BY <1>2, <1>3, <1>4 DEF AgentGood, At, Knowing
<1> QED BY <1>1, <1>5 DEF AgentsGood

(* One that has forgotten everything but what it is to send.                *)
LEMMA ClearGood ==
    ASSUME Inv, AgentsGood, Mono, NEW w \in Agents,
           NEW p \in {"idle", "finish"}, pc' = [pc EXCEPT ![w] = p],
           NEW j, j # "cancel_upstream" \/ row'.cancel,
           job' = [job EXCEPT ![w] = j], seen' = [seen EXCEPT ![w] = Blank],
           NEW acts, todo' = [todo EXCEPT ![w] = acts],
           "cancel_upstream" \in acts => row'.cancel
    PROVE  AgentsGood'
<1>1. ASSUME NEW v \in Agents, v # w PROVE AgentGood(v)'
  BY <1>1, OtherGood DEF Inv, AgentsOK
<1>2. /\ pc'[w] = p /\ job'[w] = j /\ seen'[w] = Blank /\ todo'[w] = acts
  BY DEF Inv, AgentsOK
<1>3. Blank.cancel = FALSE /\ Blank.uid = NoId
  BY DEF Blank
<1>4. AgentGood(w)'
  BY <1>2, <1>3 DEF AgentGood, Wants, At
<1> QED BY <1>1, <1>4 DEF AgentsGood

LEMMA ReturnGood ==
    ASSUME Inv, AgentsGood, Mono, NEW w \in Agents, Return(w)
    PROVE  AgentsGood'
BY ClearGood DEF Return

LEMMA ThenGood ==
    ASSUME Inv, AgentsGood, Mono, NEW w \in Agents, NEW acts,
           "cancel_upstream" \in acts => row'.cancel, Then(w, acts)
    PROVE  AgentsGood'
<1>1. CASE acts = {} /\ job[w] # "inline_reloaded"
  BY <1>1, ReturnGood DEF Then
<1>2. CASE ~(acts = {} /\ job[w] # "inline_reloaded")
  <2>1. /\ pc' = [pc EXCEPT ![w] = "finish"]
        /\ todo' = [todo EXCEPT ![w] = acts]
        /\ seen' = [seen EXCEPT ![w] = Blank] /\ job' = job
    BY <1>2 DEF Then
  <2>2. job' = [job EXCEPT ![w] = job[w]]
    BY <2>1 DEF Inv, AgentsOK
  <2>3. job[w] # "cancel_upstream" \/ row'.cancel
    BY DEF AgentsGood, AgentGood, Wants, Mono
  <2> QED BY <2>1, <2>2, <2>3, ClearGood
<1> QED BY <1>1, <1>2

LEMMA IdleGood ==
    ASSUME Inv, AgentsGood, Mono, UNCHANGED agents
    PROVE  AgentsGood'
BY OtherGood DEF AgentsGood, agents

-----------------------------------------------------------------------------
(* How the row moves.                                                       *)

(* A write that leaves status, id and request alone, and next_poll_at of an *)
(* unknown task.                                                            *)
LEMMA KeepRow ==
    ASSUME RowGood, SameUp, row \in Row, row'.status = row.status,
           row'.uid = row.uid, row'.cancel = row.cancel,
           row.status \in Lingering => row'.scheduled
    PROVE  RowGood' /\ RowMoves
<1>1. row.uid # NoId => (up'[row.uid] = "succeeded" <=> up[row.uid] = "succeeded")
  BY DEF SameUp, Row
<1> QED BY <1>1 DEF RowGood, RowMoves, OneMove

LEMMA DueFields ==
    ASSUME row \in Row
    PROVE  /\ Due \in Row /\ Due.status = row.status /\ Due.uid = row.uid
           /\ Due.cancel = row.cancel /\ Due.scheduled
BY DEF Due, Row

LEMMA ParkedFields ==
    ASSUME row \in Row
    PROVE  /\ Parked \in Row /\ Parked.status = row.status
           /\ Parked.uid = row.uid /\ Parked.cancel = row.cancel
BY DEF Parked, Row

(* A write that moves the status.                                           *)
LEMMA MoveRow ==
    ASSUME RowGood, SameUp, row \in Row, NEW new \in Row,
           NEW dst \in TaskStatus \ {"accepted", "succeeded"},
           new.uid = row.uid, new.cancel = row.cancel,
           dst = "cancelled" => row.cancel, dst \in Lingering => new.scheduled,
           row' = [new EXCEPT !.status = dst]
    PROVE  RowGood' /\ RowMoves
<1>1. /\ row'.status = dst /\ row'.uid = row.uid /\ row'.cancel = row.cancel
      /\ row'.scheduled = new.scheduled
  BY DEF Row
<1> QED BY <1>1 DEF RowGood, RowMoves, OneMove

(* What a step of one agent has to show.                                    *)
LEMMA AgentStepGood ==
    ASSUME Good, SameUp, RowGood', RowMoves, AgentsGood',
           "cancel_upstream" \in bus' => "cancel_upstream" \in bus \/ row'.cancel
    PROVE  Step
BY DEF Good, Step, BusGood, RowMoves

(* TaskDAO.advance.                                                         *)
LEMMA AdvanceGood ==
    ASSUME Inv, Good, SameUp, UNCHANGED bus, NEW w \in Agents, NEW expected,
           NEW new \in Row, NEW dst \in TaskStatus \ {"accepted", "succeeded"},
           new.uid = row.uid, new.cancel = row.cancel,
           dst = "cancelled" => row.cancel, dst \in Lingering => new.scheduled,
           NEW won, NEW lost, "cancel_upstream" \notin won,
           "cancel_upstream" \notin lost,
           Advance(w, expected, dst, new, won, lost)
    PROVE  Step
<1>0. row \in Row /\ AgentsGood /\ RowGood
  BY DEF Inv, RowOK, Good
<1>1. CASE UNCHANGED row
  <2>1. RowGood' /\ RowMoves
    BY <1>0, <1>1, KeepRow DEF RowGood
  <2>2. Mono
    BY <2>1, MovesMono
  <2>3. Goto(w, "raised") \/ Then(w, won) \/ Then(w, lost)
    BY <1>1 DEF Advance
  <2>4. "raised" \in Places \ Knowing
    BY DEF Places, Knowing
  <2>5. AgentsGood'
    BY <1>0, <2>2, <2>3, <2>4, GotoGood, ThenGood
  <2> QED BY <2>1, <2>5, AgentStepGood
<1>2. CASE row' = [new EXCEPT !.status = dst] /\ Then(w, won)
  <2>1. RowGood' /\ RowMoves
    BY <1>0, <1>2, MoveRow
  <2>2. AgentsGood'
    BY <1>0, <1>2, <2>1, MovesMono, ThenGood
  <2> QED BY <2>1, <2>2, AgentStepGood
<1> QED BY <1>1, <1>2 DEF Advance

LEMMA AdvanceParkedGood ==
    ASSUME Inv, Good, NEW w \in Agents, NEW expected,
           NEW dst \in TaskStatus \ ({"accepted", "succeeded"} \cup Lingering),
           dst = "cancelled" => row.cancel,
           NEW won \in {{}, {"drop"}}, NEW lost \in {{}, {"drop"}},
           Advance(w, expected, dst, Parked, won, lost), SameUp, UNCHANGED bus
    PROVE  Step
<1>1. Parked \in Row /\ Parked.uid = row.uid /\ Parked.cancel = row.cancel
  BY ParkedFields DEF Inv, RowOK
<1> QED BY <1>1, AdvanceGood

LEMMA AdvanceDueGood ==
    ASSUME Inv, Good, NEW w \in Agents, NEW expected,
           NEW dst \in TaskStatus \ {"accepted", "succeeded", "cancelled"},
           NEW won, NEW lost, "cancel_upstream" \notin won,
           "cancel_upstream" \notin lost,
           Advance(w, expected, dst, Due, won, lost), UNCHANGED outside
    PROVE  Step
<1>1. /\ Due \in Row /\ Due.uid = row.uid /\ Due.cancel = row.cancel
      /\ Due.scheduled
  BY DueFields DEF Inv, RowOK
<1>2. SameUp /\ UNCHANGED bus
  BY SameUpstream DEF outside
<1> QED BY <1>1, <1>2, AdvanceGood

(* A handler that writes nothing the contract is about and moves on.        *)
LEMMA KeepGood ==
    ASSUME Inv, Good, NEW w \in Agents, SameUp, UNCHANGED bus,
           row'.status = row.status, row'.uid = row.uid,
           row'.cancel = row.cancel,
           row.status \in Lingering => row'.scheduled,
           \/ Return(w)
           \/ \E acts : "cancel_upstream" \notin acts /\ Then(w, acts)
           \/ \E p \in Places \ Knowing : Goto(w, p)
    PROVE  Step
<1>0. row \in Row /\ AgentsGood /\ RowGood
  BY DEF Inv, RowOK, Good
<1>1. RowGood' /\ RowMoves
  BY <1>0, KeepRow
<1>2. AgentsGood'
  BY <1>0, <1>1, MovesMono, ReturnGood, ThenGood, GotoGood
<1> QED BY <1>1, <1>2, AgentStepGood

LEMMA RescheduleGood ==
    ASSUME Inv, Good, NEW w \in Agents, row' \in {row, Due},
           \/ Return(w)
           \/ \E acts : "cancel_upstream" \notin acts /\ Then(w, acts)
           \/ \E p \in Places \ Knowing : Goto(w, p),
           UNCHANGED outside
    PROVE  Step
<1>1. /\ row'.status = row.status /\ row'.uid = row.uid
      /\ row'.cancel = row.cancel
      /\ row.status \in Lingering => row'.scheduled
  BY DueFields DEF Inv, RowOK, Good, RowGood
<1>2. SameUp /\ UNCHANGED bus
  BY SameUpstream DEF outside
<1> QED BY <1>1, <1>2, KeepGood

-----------------------------------------------------------------------------
(* The walk over the actions.                                               *)

(* What an agent of Good and Inv has.                                       *)
LEMMA AgentFacts ==
    ASSUME Inv, Good, NEW w \in Agents
    PROVE  AgentGood(w) /\ seen[w] \in Snapshot /\ row \in Row /\ RowGood
BY DEF Inv, AgentsOK, RowOK, Good, AgentsGood

LEMMA NothingOutside ==
    ASSUME UNCHANGED outside
    PROVE  SameUp /\ UNCHANGED bus
BY SameUpstream DEF outside

(* submit_upstream.                                                         *)
LEMMA SubmitGood ==
    ASSUME Inv, Good, NEW w \in Workers, SubmitStep(w)
    PROVE  Step
<1> w \in Agents
  BY DEF Agents
<1> USE AgentFacts, NothingOutside
<1>1. CASE SubmitOverdue(w)
  BY <1>1, AdvanceParkedGood DEF SubmitOverdue, TaskStatus, Lingering
<1>2. CASE SubmitCancelled(w)
  <2>1. row.cancel
    BY <1>2 DEF SubmitCancelled, AgentGood, Wants
  <2> QED BY <1>2, <2>1, AdvanceParkedGood DEF SubmitCancelled, TaskStatus, Lingering
<1>3. CASE SubmitNoCredential(w)
  BY <1>3, AdvanceParkedGood DEF SubmitNoCredential, TaskStatus, Lingering
<1>4. CASE SubmitDenied(w)
  BY <1>4, RescheduleGood DEF SubmitDenied, ScheduleNextPoll
<1>5. CASE SubmitBodyLost(w)
  BY <1>5, AdvanceParkedGood DEF SubmitBodyLost, TaskStatus, Lingering
<1>6. CASE SubmitIntent(w)
  <2>1. CASE row.status = "accepted" /\ ~row.intent
    <3>1. /\ row' = [row EXCEPT !.intent = TRUE, !.attempts = @ + 1]
          /\ Goto(w, "intended") /\ UNCHANGED outside
      BY <1>6, <2>1 DEF SubmitIntent
    <3>2. /\ row'.status = row.status /\ row'.uid = row.uid
          /\ row'.cancel = row.cancel
          /\ row.status \in Lingering => row'.scheduled
      BY <2>1, <3>1 DEF Row, Lingering
    <3>3. "intended" \in Places \ Knowing
      BY DEF Places, Knowing
    <3> QED BY <3>1, <3>2, <3>3, KeepGood
  <2>2. CASE ~(row.status = "accepted" /\ ~row.intent)
    BY <1>6, <2>2, RescheduleGood DEF SubmitIntent
  <2> QED BY <2>1, <2>2
<1> QED BY <1>1, <1>2, <1>3, <1>4, <1>5, <1>6 DEF SubmitStep

(* The create request: sending it, and what comes of it.                    *)
LEMMA SendGood ==
    ASSUME Inv, Good, NEW w \in Agents, NEW u \in Uids, SendCreate(w, u)
    PROVE  Step
<1>1. SameUp /\ UNCHANGED bus /\ UNCHANGED row
  BY DEF SendCreate, SameUp, Created, Inv, UpOK
<1>2. RowGood' /\ RowMoves
  BY <1>1, KeepRow, AgentFacts DEF RowGood
<1>3. ASSUME NEW v \in Agents PROVE AgentGood(v)'
  <2>1. Mono /\ AgentsGood
    BY <1>1, <1>2, MovesMono DEF Good
  <2>2. CASE v # w
    BY <2>1, <2>2, OtherGood DEF SendCreate, Inv, AgentsOK
  <2>3. CASE v = w
    <3>1. /\ pc'[w] = "sent" /\ job'[w] = job[w] /\ seen'[w] = seen[w]
          /\ todo'[w] = todo[w]
      BY DEF SendCreate, Inv, AgentsOK
    <3>2. Wants(w)' => row'.cancel
      BY <1>1, <3>1, AgentFacts DEF AgentGood, Wants
    <3> QED BY <1>1, <2>3, <3>1, <3>2, AgentFacts DEF AgentGood, At
  <2> QED BY <2>2, <2>3
<1> QED BY <1>1, <1>2, <1>3, AgentStepGood DEF AgentsGood

LEMMA AnsweredSame ==
    ASSUME Inv, NEW w \in Agents, pc[w] = "sent", up[tok[w]] = "wire",
           Answered(w)
    PROVE  SameUp
<1>1. tok[w] \in Uids
  BY DEF Inv, AgentsOK, AgentIds
<1> QED BY <1>1 DEF Answered, SameUp, Created, Inv, UpOK

LEMMA ReplyCreatedGood ==
    ASSUME Inv, Good, NEW w \in Agents, ReplyCreated(w)
    PROVE  Step
<1>0. SameUp /\ UNCHANGED bus
  BY NothingOutside DEF ReplyCreated
<1>1. CASE row.status = "accepted" /\ row.intent
  <2>1. /\ row' = [row EXCEPT !.status = "upstream_submitted",
                              !.uid = tok[w], !.scheduled = TRUE]
        /\ Then(w, {"poll_upstream"} \cup
                    IF seen[w].cancel THEN {"cancel_upstream"} ELSE {})
    BY <1>1 DEF ReplyCreated
  <2>2. row'.status = "upstream_submitted" /\ row'.cancel = row.cancel
    BY <2>1, AgentFacts DEF Row
  <2>3. RowGood' /\ RowMoves
    BY <1>1, <2>2, AgentFacts DEF RowGood, RowMoves, OneMove, Lingering,
       ActiveStatuses
  <2>4. seen[w].cancel => row'.cancel
    BY <2>2, AgentFacts DEF AgentGood, Wants
  <2>5. AgentsGood'
    BY <1>0, <2>1, <2>3, <2>4, MovesMono, ThenGood DEF Good
  <2> QED BY <1>0, <2>3, <2>5, AgentStepGood
<1>2. CASE ~(row.status = "accepted" /\ row.intent)
  <2>1. UNCHANGED row /\ Then(w, {}) /\ UNCHANGED outside
    BY <1>2 DEF ReplyCreated
  <2> QED BY <2>1, RescheduleGood
<1> QED BY <1>1, <1>2

LEMMA PushbackGood ==
    ASSUME Inv, Good, NEW w \in Agents, ReplyPushback(w)
    PROVE  Step
<1>1. SameUp /\ UNCHANGED bus
  BY AnsweredSame DEF ReplyPushback, Handles
<1>2. row' \in {row, Refunded, [Refunded EXCEPT !.overdue = FALSE]}
  BY DEF ReplyPushback
<1>3. /\ row'.status = row.status /\ row'.uid = row.uid
      /\ row'.cancel = row.cancel
      /\ row.status \in Lingering => row'.scheduled
  BY <1>2, AgentFacts DEF Row, Refunded, RowGood
<1>4. Then(w, {}) \/ Goto(w, "noteext")
  BY DEF ReplyPushback
<1>5. "noteext" \in Places \ Knowing
  BY DEF Places, Knowing
<1> QED BY <1>1, <1>3, <1>4, <1>5, KeepGood

LEMMA CreateGood ==
    ASSUME Inv, Good, NEW w \in Agents, CreateStep(w)
    PROVE  Step
<1> USE AgentFacts, NothingOutside
<1>1. CASE SsrfRejected(w)
  BY <1>1, AdvanceParkedGood DEF SsrfRejected, TaskStatus, Lingering
<1>2. CASE ConnectFailed(w)
  <2>1. CASE seen[w].attempts >= MaxAttempts
    BY <1>2, <2>1, AdvanceParkedGood DEF ConnectFailed, TaskStatus, Lingering
  <2>2. CASE ~(seen[w].attempts >= MaxAttempts)
    <3>1. /\ row' \in {row, [row EXCEPT !.intent = FALSE, !.scheduled = TRUE]}
          /\ Then(w, {}) /\ UNCHANGED outside
      BY <1>2, <2>2 DEF ConnectFailed
    <3>2. /\ row'.status = row.status /\ row'.uid = row.uid
          /\ row'.cancel = row.cancel
          /\ row.status \in Lingering => row'.scheduled
      BY <3>1 DEF Row, RowGood
    <3> QED BY <3>1, <3>2, KeepGood
  <2> QED BY <2>1, <2>2
<1>3. CASE ReplyUnclear(w)
  BY <1>3, AdvanceDueGood DEF ReplyUnclear, TaskStatus
<1>4. CASE NoteExtension(w)
  <2>1. /\ row' \in {row, [row EXCEPT !.ext = seen[w].ext + 1]}
        /\ Then(w, {}) /\ UNCHANGED outside
    BY <1>4 DEF NoteExtension
  <2>2. /\ row'.status = row.status /\ row'.uid = row.uid
        /\ row'.cancel = row.cancel
        /\ row.status \in Lingering => row'.scheduled
    BY <2>1 DEF Row, RowGood
  <2> QED BY <2>1, <2>2, KeepGood
<1>5. CASE ReplyRejected(w)
  <2>1. SameUp /\ UNCHANGED bus
    BY <1>5, AnsweredSame DEF ReplyRejected, Handles
  <2> QED BY <1>5, <2>1, AdvanceParkedGood DEF ReplyRejected, TaskStatus, Lingering
<1> QED BY <1>1, <1>2, <1>3, <1>4, <1>5, SendGood, ReplyCreatedGood, PushbackGood
        DEF CreateStep

(* An answer about a task: what it says is true of the task seen.           *)
LEMMA AnswerGood ==
    ASSUME Inv, Good, NEW w \in Agents,
           NEW a \in VerdictsOf(up[seen[w].uid]) \cup Noise,
           seen[w].uid # NoId, a = "broken" => seen[w].status \notin Lingering,
           Goto(w, a), UNCHANGED row, UNCHANGED outside
    PROVE  Step
<1>1. SameUp /\ UNCHANGED <<bus, up>>
  BY SameUpstream DEF outside
<1>2. RowGood' /\ RowMoves
  BY <1>1, KeepRow, AgentFacts DEF RowGood
<1>3. /\ pc'[w] = a /\ job'[w] = job[w] /\ seen'[w] = seen[w]
      /\ todo'[w] = todo[w]
  BY DEF Goto, Inv, AgentsOK
<1>4. up[seen[w].uid] \in UpStates \ {"unused", "wire"}
  BY AgentFacts DEF Inv, AgentsOK, AgentIds, Created, UpOK, Snapshot
<1>5. /\ a \notin {"stopped", "found", "absent", "loaded", "called"}
      /\ a = "succeeded" => up[seen[w].uid] = "succeeded"
  BY <1>4, NoiseAssumption DEF VerdictsOf, UpStates, Noises
<1>6. AgentGood(w)'
  <2>1. Wants(w)' => row'.cancel
    BY <1>3, <1>5, AgentFacts DEF AgentGood, Wants
  <2> QED BY <1>1, <1>3, <1>5, <2>1, AgentFacts DEF AgentGood, At
<1>7. ASSUME NEW v \in Agents, v # w PROVE AgentGood(v)'
  BY <1>1, <1>2, <1>7, MovesMono, OtherGood DEF Goto, Inv, AgentsOK, Good
<1> QED BY <1>1, <1>2, <1>6, <1>7, AgentStepGood DEF AgentsGood

(* poll_upstream.                                                           *)
LEMMA PollGood ==
    ASSUME Inv, Good, NEW w \in Workers, PollStep(w)
    PROVE  Step
<1> w \in Agents
  BY DEF Agents
<1> USE AgentFacts, NothingOutside
<1>1. CASE PollDivert(w)
  BY <1>1, RescheduleGood DEF PollDivert
<1>2. CASE PollOverdue(w)
  BY <1>2, AdvanceParkedGood DEF PollOverdue, TaskStatus, Lingering
<1>3. CASE PollDeferred(w)
  BY <1>3, RescheduleGood DEF PollDeferred, ScheduleNextPoll
<1>4. CASE PollCall(w)
  <2>1. CASE seen[w].uid = NoId
    BY <1>4, <2>1, AdvanceDueGood DEF PollCall, TaskStatus
  <2>2. CASE seen[w].uid # NoId
    <3>1. PICK a \in VerdictsOf(up[seen[w].uid]) \cup Noise : Goto(w, a)
      BY <1>4, <2>2 DEF PollCall
    <3>2. seen[w].status \notin Lingering /\ UNCHANGED row /\ UNCHANGED outside
      BY <1>4, <2>2 DEF PollCall, Polling, AgentGood, Lingering
    <3> QED BY <2>2, <3>1, <3>2, AnswerGood
  <2> QED BY <2>1, <2>2
<1> QED BY <1>1, <1>2, <1>3, <1>4 DEF PollStep

(* The upstream's success is written on the row.                            *)
LEMMA SuccessGood ==
    ASSUME Inv, Good, NEW w \in Agents, NEW acts, "cancel_upstream" \notin acts,
           Advance(w, {seen[w].status}, "succeeded", Parked, acts, {}),
           UNCHANGED outside,
           /\ ~ConfirmAuto /\ row.status = seen[w].status
           /\ CanTransition(row.status, "succeeded")
           => row.uid # NoId /\ up[row.uid] = "succeeded"
    PROVE  Step
<1>1. SameUp /\ UNCHANGED <<bus, up>>
  BY SameUpstream DEF outside
<1>2. CASE UNCHANGED row
  <2>1. Goto(w, "raised") \/ Then(w, acts) \/ Then(w, {})
    BY DEF Advance
  <2>2. "raised" \in Places \ Knowing
    BY DEF Places, Knowing
  <2> QED BY <1>2, <2>1, <2>2, RescheduleGood
<1>3. CASE row' = [Parked EXCEPT !.status = "succeeded"] /\ Then(w, acts)
           /\ row.status = seen[w].status /\ CanTransition(row.status, "succeeded")
  <2>1. /\ row'.status = "succeeded" /\ row'.uid = row.uid
        /\ row'.cancel = row.cancel
    BY <1>3, ParkedFields, AgentFacts DEF Row
  <2>2. ~ConfirmAuto => row.uid # NoId /\ up[row.uid] = "succeeded"
    BY <1>3
  <2>3. RowGood' /\ RowMoves
    BY <1>1, <2>1, <2>2 DEF RowGood, RowMoves, OneMove, Lingering
  <2>4. AgentsGood'
    BY <1>1, <1>3, <2>3, MovesMono, ThenGood DEF Good
  <2> QED BY <1>1, <2>3, <2>4, AgentStepGood
<1> QED BY <1>2, <1>3 DEF Advance

(* By a poll: the answer was about the task whose id the row still has.     *)
LEMMA SucceededGood ==
    ASSUME Inv, Good, NEW w \in Agents, PollSucceeded(w)
    PROVE  Step
<1>1. row.status = seen[w].status /\ CanTransition(row.status, "succeeded") =>
        (~ConfirmAuto => row.uid # NoId /\ up[row.uid] = "succeeded")
  BY AgentFacts DEF AgentGood, PollSucceeded
<1> QED BY <1>1, SuccessGood DEF PollSucceeded

(* _handle_poll_result.                                                     *)
LEMMA PollResultGood ==
    ASSUME Inv, Good, NEW w \in Agents, PollResultStep(w)
    PROVE  Step
<1> USE AgentFacts, NothingOutside
<1>0. "promote" \in Places \ Knowing /\ "resched" \in Places \ Knowing
  BY DEF Places, Knowing
<1>1. CASE PollRunning(w)
  BY <1>0, <1>1, RescheduleGood DEF PollRunning, IfUnmoved
<1>2. CASE PollPromote(w)
  BY <1>2, AdvanceGood DEF PollPromote, TaskStatus, Lingering
<1>3. CASE PollExpired(w)
  BY <1>3, AdvanceParkedGood DEF PollExpired, TaskStatus, Lingering
<1>4. CASE PollFailed(w)
  <2>1. CASE seen[w].attempts < MaxAttempts
    BY <1>4, <2>1, AdvanceDueGood DEF PollFailed, TaskStatus
  <2>2. CASE ~(seen[w].attempts < MaxAttempts)
    BY <1>4, <2>2, AdvanceParkedGood DEF PollFailed, TaskStatus, Lingering
  <2> QED BY <2>1, <2>2
<1>5. CASE PollGarbled(w)
  <2>1. CASE seen[w].status = "poll_unrecognized"
    BY <1>5, <2>1, RescheduleGood DEF PollGarbled, IfUnmoved
  <2>2. CASE seen[w].status # "poll_unrecognized"
    BY <1>5, <2>2, AdvanceDueGood DEF PollGarbled, TaskStatus
  <2> QED BY <2>1, <2>2
<1>6. CASE PollDoubted(w)
  <2>1. CASE pc[w] = "missing" /\ seen[w].poll404 + 1 < Poll404Threshold
    <3>1. /\ row' \in {row, [row EXCEPT !.poll404 = seen[w].poll404 + 1]}
          /\ Goto(w, "resched") /\ UNCHANGED outside
      BY <1>6, <2>1 DEF PollDoubted
    <3>2. /\ row'.status = row.status /\ row'.uid = row.uid
          /\ row'.cancel = row.cancel
          /\ row.status \in Lingering => row'.scheduled
      BY <3>1 DEF Row, RowGood
    <3> QED BY <1>0, <3>1, <3>2, KeepGood
  <2>2. CASE ~(pc[w] = "missing" /\ seen[w].poll404 + 1 < Poll404Threshold)
    BY <1>6, <2>2, AdvanceDueGood DEF PollDoubted, TaskStatus
  <2> QED BY <2>1, <2>2
<1>7. CASE PollBroken(w)
  <2>1. /\ row' = IF row.status = seen[w].status THEN Parked ELSE row
        /\ Goto(w, "resched") /\ UNCHANGED outside
        /\ seen[w].status \notin Lingering
    BY <1>7 DEF PollBroken, IfUnmoved, AgentGood
  <2>2. /\ row'.status = row.status /\ row'.uid = row.uid
        /\ row'.cancel = row.cancel
        /\ row.status \in Lingering => row'.scheduled
    BY <2>1, ParkedFields DEF RowGood
  <2> QED BY <1>0, <2>1, <2>2, KeepGood
<1>8. CASE PollReschedule(w)
  BY <1>8, RescheduleGood DEF PollReschedule, ScheduleNextPoll
<1>9. CASE PollThrottled(w)
  BY <1>9, RescheduleGood DEF PollThrottled, IfUnmoved
<1>10. CASE PollSsrf(w)
  BY <1>10, AdvanceParkedGood DEF PollSsrf, TaskStatus, Lingering
<1> QED BY <1>1, <1>2, <1>3, <1>4, <1>5, <1>6, <1>7, <1>8, <1>9, <1>10,
           SucceededGood DEF PollResultStep

(* compensate_orphan: an id that is written back is the row's own, unless   *)
(* the template confirms by itself.                                         *)
LEMMA RelocateGood ==
    ASSUME Inv, Good, NEW w \in Agents, NEW u \in Uids,
           ~ConfirmAuto => u = row.uid, NEW lost,
           "cancel_upstream" \notin lost,
           Advance(w, Unknown, "upstream_submitted", Relocated(u),
                   {"poll_upstream"}, lost), UNCHANGED outside
    PROVE  Step
<1>0. SameUp /\ UNCHANGED bus
  BY NothingOutside
<1>1. CASE UNCHANGED row
  <2>1. \/ Goto(w, "raised") \/ Then(w, {"poll_upstream"}) \/ Then(w, lost)
    BY DEF Advance
  <2>2. /\ "raised" \in Places \ Knowing
        /\ "cancel_upstream" \notin {"poll_upstream"}
    BY DEF Places, Knowing
  <2> QED BY <1>1, <2>1, <2>2, RescheduleGood
<1>2. CASE /\ row' = [Relocated(u) EXCEPT !.status = "upstream_submitted"]
           /\ Then(w, {"poll_upstream"})
  <2>1. /\ row'.status = "upstream_submitted" /\ row'.uid = u
        /\ row'.cancel = row.cancel
    BY <1>2, AgentFacts DEF Relocated, Row
  <2>2. RowGood' /\ RowMoves
    BY <2>1 DEF RowGood, RowMoves, OneMove, Lingering
  <2>3. AgentsGood'
    BY <1>0, <1>2, <2>2, MovesMono, ThenGood DEF Good
  <2> QED BY <1>0, <2>2, <2>3, AgentStepGood
<1> QED BY <1>1, <1>2 DEF Advance

(* _confirm, under a template that allows it.                               *)
LEMMA ConfirmGood ==
    ASSUME Inv, Good, NEW w \in Agents, ConfirmCall(w)
    PROVE  Step
<1>1. SameUp /\ UNCHANGED bus /\ UNCHANGED row /\ ConfirmAuto
  BY NothingOutside DEF ConfirmCall
<1>2. RowGood' /\ RowMoves
  BY <1>1, KeepRow, AgentFacts DEF RowGood
<1>3. /\ pc'[w] \in {"found", "absent", "inconclusive"} /\ job'[w] = job[w]
      /\ seen'[w] = seen[w] /\ todo'[w] = todo[w]
  BY DEF ConfirmCall, Goto, Inv, AgentsOK
<1>4. AgentGood(w)'
  <2>1. Wants(w)' => row'.cancel
    BY <1>1, <1>3, AgentFacts DEF AgentGood, Wants
  <2> QED BY <1>1, <1>3, <2>1 DEF AgentGood, At
<1>5. ASSUME NEW v \in Agents, v # w PROVE AgentGood(v)'
  <2>1. /\ pc'[v] = pc[v] /\ job'[v] = job[v] /\ seen'[v] = seen[v]
        /\ todo'[v] = todo[v]
    BY <1>5 DEF ConfirmCall, Goto, Inv, AgentsOK
  <2> QED BY <1>1, <1>2, <2>1, MovesMono, OtherGood DEF Good
<1> QED BY <1>1, <1>2, <1>4, <1>5, AgentStepGood DEF AgentsGood

LEMMA AbsentGood ==
    ASSUME Inv, Good, NEW w \in Agents, CompensateAbsent(w)
    PROVE  Step
<1>1. SameUp /\ UNCHANGED bus /\ ConfirmAuto
  BY NothingOutside, AgentFacts DEF CompensateAbsent, AgentGood
<1>2. CASE UNCHANGED row
  <2>1. Goto(w, "raised") \/ Then(w, {"submit_upstream"}) \/ Then(w, {})
    BY DEF CompensateAbsent, Advance
  <2>2. /\ "raised" \in Places \ Knowing
        /\ "cancel_upstream" \notin {"submit_upstream"} /\ UNCHANGED outside
    BY DEF Places, Knowing, CompensateAbsent
  <2> QED BY <1>2, <2>1, <2>2, RescheduleGood
<1>3. CASE /\ row' = [[Due EXCEPT !.intent = FALSE] EXCEPT !.status = "accepted"]
           /\ Then(w, {"submit_upstream"})
  <2>1. row'.status = "accepted" /\ row'.cancel = row.cancel
    BY <1>3, AgentFacts DEF Due, Row
  <2>2. RowGood' /\ RowMoves
    BY <1>1, <2>1 DEF RowGood, RowMoves, Lingering
  <2>3. AgentsGood'
    BY <1>1, <1>3, <2>2, MovesMono, ThenGood DEF Good
  <2> QED BY <1>1, <2>2, <2>3, AgentStepGood
<1> QED BY <1>2, <1>3 DEF CompensateAbsent, Advance

LEMMA CompensateGood ==
    ASSUME Inv, Good, NEW w \in Workers, CompensateStep(w)
    PROVE  Step
<1> w \in Agents
  BY DEF Agents
<1> USE AgentFacts, NothingOutside
<1>1. CASE CompensateCancelled(w)
  BY <1>1, AdvanceParkedGood DEF CompensateCancelled, TaskStatus, Lingering
<1>2. CASE CompensateResume(w)
  <2>1. seen[w].uid \in Uids /\ (~ConfirmAuto => seen[w].uid = row.uid)
    BY <1>2 DEF CompensateResume, AgentGood, Snapshot
  <2> QED BY <1>2, <2>1, RelocateGood DEF CompensateResume
<1>3. CASE CompensateGiveUp(w)
  BY <1>3, AdvanceParkedGood DEF CompensateGiveUp, TaskStatus, Lingering
<1>4. CASE CompensateFound(w)
  <2>1. tok[w] \in Uids /\ ConfirmAuto
    BY <1>4 DEF CompensateFound, AgentGood, Inv, AgentsOK, AgentIds
  <2>2. Advance(w, Unknown, "upstream_submitted", Relocated(tok[w]),
                {"poll_upstream"}, {"poll_upstream"}) /\ UNCHANGED outside
    BY <1>4 DEF CompensateFound
  <2> QED BY <2>1, <2>2, RelocateGood
<1>5. CASE CompensateInconclusive(w)
  <2> DEFINE new == [Due EXCEPT !.ext = 0, !.poll404 = 0]
  <2>1. /\ new \in Row /\ new.uid = row.uid /\ new.cancel = row.cancel
        /\ new.scheduled
    BY DEF Due, Row
  <2>2. Advance(w, Unknown, "submit_unknown", new, {}, {}) /\ UNCHANGED outside
    BY <1>5 DEF CompensateInconclusive
  <2>3. "submit_unknown" \in TaskStatus \ {"accepted", "succeeded"}
    BY DEF TaskStatus
  <2> HIDE DEF new
  <2> QED BY <2>1, <2>2, <2>3, AdvanceGood
<1> QED BY <1>1, <1>2, <1>3, <1>4, <1>5, ConfirmGood, AbsentGood
        DEF CompensateStep

(* The cancel call: a running task may stop, the others stay as they are.   *)
LEMMA CancelCallGood ==
    ASSUME Inv, Good, NEW w \in Agents, CancelCall(w)
    PROVE  Step
<1>1. PICK s \in {up[seen[w].uid]} \cup
                 (IF up[seen[w].uid] = "running" THEN {"cancelled"} ELSE {}) :
         /\ up' = [up EXCEPT ![seen[w].uid] = s]
         /\ \E a \in {"refused", "stopped"} : Goto(w, a)
  BY DEF CancelCall
<1>2. /\ UNCHANGED <<row, bus>> /\ job[w] = "cancel_upstream" /\ row.cancel
      /\ seen[w].uid \in Uids
  BY AgentFacts DEF CancelCall, Cancelling, At, AgentGood, Wants, Snapshot
<1>3. SameUp
  BY <1>1, <1>2 DEF SameUp, Created, Inv, UpOK
<1>4. RowGood' /\ RowMoves
  BY <1>2, <1>3, KeepRow, AgentFacts DEF RowGood
<1>5. /\ pc'[w] \in {"refused", "stopped"} /\ seen'[w] = seen[w]
      /\ todo'[w] = todo[w] /\ job'[w] = job[w]
  BY <1>1 DEF Goto, Inv, AgentsOK
<1>6. AgentGood(w)'
  BY <1>2, <1>5, AgentFacts DEF AgentGood, At
<1>7. ASSUME NEW v \in Agents, v # w PROVE AgentGood(v)'
  <2>1. /\ pc'[v] = pc[v] /\ job'[v] = job[v] /\ seen'[v] = seen[v]
        /\ todo'[v] = todo[v]
    BY <1>1, <1>7 DEF Goto, Inv, AgentsOK
  <2> QED BY <1>3, <1>4, <2>1, MovesMono, OtherGood DEF Good
<1> QED BY <1>2, <1>3, <1>4, <1>6, <1>7, AgentStepGood DEF AgentsGood

(* cancel_upstream: who runs it was asked to.                               *)
LEMMA CancelGood ==
    ASSUME Inv, Good, NEW w \in Workers, CancelStep(w)
    PROVE  Step
<1> w \in Agents
  BY DEF Agents
<1> USE AgentFacts, NothingOutside
<1>1. CASE CancelUnsupported(w)
  <2>1. row.cancel
    BY <1>1 DEF CancelUnsupported, Cancelling, At, AgentGood, Wants
  <2>2. CASE seen[w].status = "accepted"
    BY <1>1, <2>1, <2>2, AdvanceParkedGood DEF CancelUnsupported, TaskStatus, Lingering
  <2>3. CASE seen[w].status # "accepted"
    BY <1>1, <2>3, RescheduleGood DEF CancelUnsupported, ScheduleNextPoll
  <2> QED BY <2>2, <2>3
<1>2. CASE CancelUnsent(w)
  <2>1. row.cancel
    BY <1>2 DEF CancelUnsent, Cancelling, At, AgentGood, Wants
  <2> QED BY <1>2, <2>1, AdvanceParkedGood DEF CancelUnsent, TaskStatus, Lingering
<1>3. CASE CancelDone(w)
  <2>1. row.cancel
    BY <1>3 DEF CancelDone, AgentGood, Wants
  <2> QED BY <1>3, <2>1, AdvanceParkedGood DEF CancelDone, TaskStatus, Lingering
<1>4. CASE CancelRefused(w)
  BY <1>4, RescheduleGood DEF CancelRefused, ScheduleNextPoll
<1> QED BY <1>1, <1>2, <1>3, <1>4, CancelCallGood DEF CancelStep

(* Messages: a cancel message was asked for, and so was what it makes of    *)
(* the worker that takes it.                                                *)
LEMMA EndGood ==
    ASSUME Inv, Good, NEW w \in Agents, Finish(w) \/ Unwind(w) \/ Crash(w)
    PROVE  Step
<1>1. SameUp /\ UNCHANGED row /\ Return(w)
  BY SameUpstream DEF Finish, Unwind, Crash
<1>2. RowGood' /\ RowMoves
  BY <1>1, KeepRow, AgentFacts DEF RowGood
<1>3. "cancel_upstream" \in bus' => "cancel_upstream" \in bus \/ row.cancel
  <2>1. "cancel_upstream" \in todo[w] \/ job[w] = "cancel_upstream" => row.cancel
    BY AgentFacts DEF AgentGood, Wants
  <2>2. CASE Finish(w)
    BY <2>1, <2>2 DEF Finish
  <2>3. CASE Unwind(w) \/ Crash(w)
    BY <2>1, <2>3 DEF Unwind, Crash
  <2> QED BY <2>2, <2>3
<1>4. AgentsGood'
  BY <1>1, <1>2, MovesMono, ReturnGood DEF Good
<1> QED BY <1>1, <1>2, <1>3, <1>4, AgentStepGood

LEMMA LoadGood ==
    ASSUME Inv, NEW j \in Messages \cup {"inline_reloaded", "query"}
    PROVE  /\ Load(j).uid \in {NoId, row.uid}
           /\ Load(j).cancel => row.cancel
<1>1. row \in Row /\ RowOK
  BY DEF Inv, RowOK
<1> QED BY <1>1, LoadOK DEF Load, Blank, Messages, Row

(* An agent that begins, or reloads, knows what the row says.               *)
LEMMA LoadedGood ==
    ASSUME Inv, Good, NEW w \in Agents,
           NEW j \in Messages \cup {"inline_reloaded", "query"},
           j = "cancel_upstream" => row.cancel,
           "cancel_upstream" \in todo[w] => row.cancel,
           UNCHANGED <<row, up, todo>>,
           "cancel_upstream" \in bus' => "cancel_upstream" \in bus,
           NEW p \in {"loaded", "intended", "sent"}, pc' = [pc EXCEPT ![w] = p],
           job' = [job EXCEPT ![w] = j], seen' = [seen EXCEPT ![w] = Load(j)]
    PROVE  Step
<1>1. SameUp
  BY SameUpstream
<1>2. RowGood' /\ RowMoves
  BY <1>1, KeepRow, AgentFacts DEF RowGood
<1>3. /\ pc'[w] = p /\ job'[w] = j /\ seen'[w] = Load(j)
      /\ todo'[w] = todo[w]
  BY DEF Inv, AgentsOK
<1>4. AgentGood(w)'
  <2>1. Wants(w)' => row'.cancel
    BY <1>3, LoadGood DEF Wants
  <2> QED BY <1>3, <2>1, LoadGood DEF AgentGood, At
<1>5. ASSUME NEW v \in Agents, v # w PROVE AgentGood(v)'
  <2>1. /\ pc'[v] = pc[v] /\ job'[v] = job[v] /\ seen'[v] = seen[v]
        /\ todo'[v] = todo[v]
    BY <1>5 DEF Inv, AgentsOK
  <2> QED BY <1>1, <1>2, <2>1, MovesMono, OtherGood DEF Good
<1> QED BY <1>1, <1>2, <1>4, <1>5, AgentStepGood DEF AgentsGood

LEMMA ConsumeGood ==
    ASSUME Inv, Good, NEW w \in Agents, NEW m \in Messages, Consume(w, m)
    PROVE  Step
<1>1. UNCHANGED <<row, up>> /\ m \in bus /\ bus' = bus \ {m}
  BY DEF Consume
<1>2. CASE row.status \in Concerns(m)
  <2>1. /\ pc' = [pc EXCEPT ![w] = "loaded"] /\ job' = [job EXCEPT ![w] = m]
        /\ seen' = [seen EXCEPT ![w] = Load(m)] /\ UNCHANGED todo
    BY <1>2 DEF Consume
  <2>2. m = "cancel_upstream" => row.cancel
    BY <1>1 DEF Good, BusGood
  <2>3. "cancel_upstream" \in todo[w] => row.cancel
    BY AgentFacts DEF AgentGood, Wants
  <2> QED BY <1>1, <2>1, <2>2, <2>3, LoadedGood
<1>3. CASE row.status \notin Concerns(m)
  <2>1. UNCHANGED agents
    BY <1>3 DEF Consume
  <2>2. SameUp /\ RowGood' /\ RowMoves
    BY <1>1, SameUpstream, KeepRow, AgentFacts DEF RowGood
  <2>3. AgentsGood'
    BY <2>1, <2>2, MovesMono, IdleGood DEF Good
  <2> QED BY <1>1, <2>2, <2>3, AgentStepGood
<1> QED BY <1>2, <1>3

(* The gateway.                                                             *)
LEMMA AcceptInlineGood ==
    ASSUME Inv, Good, NEW g \in Agents, AcceptInline(g)
    PROVE  Step
<1>1. SameUp /\ UNCHANGED <<bus, seen>> /\ job' = [job EXCEPT ![g] = "inline"]
  BY SameUpstream DEF AcceptInline
<1>2. row' \in {row, [row EXCEPT !.intent = TRUE, !.attempts = @ + 1]}
  BY DEF AcceptInline
<1>3. /\ row'.status = row.status /\ row'.uid = row.uid
      /\ row'.cancel = row.cancel
      /\ row.status \in Lingering => row'.scheduled
  BY <1>2, AgentFacts DEF Row, RowGood
<1>4. RowGood' /\ RowMoves
  BY <1>1, <1>3, KeepRow, AgentFacts
<1>5. /\ pc'[g] \in {"intended", "finish"} /\ job'[g] = "inline"
      /\ "cancel_upstream" \in todo'[g] => "cancel_upstream" \in todo[g]
  BY <1>1 DEF AcceptInline, Inv, AgentsOK
<1>6. AgentGood(g)'
  <2>1. Wants(g)' => row'.cancel
    BY <1>1, <1>3, <1>5, AgentFacts DEF AgentGood, Wants
  <2> QED BY <1>1, <1>3, <1>5, <2>1, AgentFacts DEF AgentGood, At
<1>7. ASSUME NEW v \in Agents, v # g PROVE AgentGood(v)'
  <2>1. /\ pc'[v] = pc[v] /\ job'[v] = job[v] /\ seen'[v] = seen[v]
        /\ todo'[v] = todo[v]
    BY <1>1, <1>7 DEF AcceptInline, Inv, AgentsOK
  <2> QED BY <1>1, <1>4, <2>1, MovesMono, OtherGood DEF Good
<1> QED BY <1>1, <1>4, <1>6, <1>7, AgentStepGood DEF AgentsGood

(* A request to cancel is the one step that sets cancel_requested.          *)
LEMMA RequestCancelGood ==
    ASSUME Inv, Good, NEW g \in Agents, RequestCancel(g)
    PROVE  Step
<1>1. /\ SameUp /\ UNCHANGED <<bus, seen>> /\ row' = [row EXCEPT !.cancel = TRUE]
      /\ row.status \in ActiveStatuses
  BY NothingOutside DEF RequestCancel, CancelPreconditions, ActiveStatuses
<1>2. /\ row'.status = row.status /\ row'.uid = row.uid /\ row'.cancel
      /\ row'.scheduled = row.scheduled
  BY <1>1, AgentFacts DEF Row
<1>3. RowGood' /\ RowMoves
  BY <1>1, <1>2, AgentFacts DEF RowGood, RowMoves, OneMove, ActiveStatuses
<1>4. pc'[g] = "finish" /\ job'[g] = "cancel_request" /\ seen'[g] = seen[g]
  BY DEF RequestCancel, Inv, AgentsOK
<1>5. AgentGood(g)'
  BY <1>2, <1>4, AgentFacts DEF AgentGood, At
<1>6. ASSUME NEW v \in Agents, v # g PROVE AgentGood(v)'
  <2>1. /\ pc'[v] = pc[v] /\ job'[v] = job[v] /\ seen'[v] = seen[v]
        /\ todo'[v] = todo[v]
    BY <1>6 DEF RequestCancel, Inv, AgentsOK
  <2> QED BY <1>1, <1>3, <2>1, MovesMono, OtherGood DEF Good
<1> QED BY <1>1, <1>3, <1>5, <1>6, AgentStepGood DEF AgentsGood

(* A callback that reports a success is about a task that succeeded.        *)
LEMMA ReceiveGood ==
    ASSUME Inv, Good, NEW g \in Agents, NEW u \in Uids, ReceiveCallback(g, u)
    PROVE  Step
<1>1. SameUp /\ UNCHANGED <<row, bus, up, todo>>
  BY NothingOutside DEF ReceiveCallback, outside
<1>2. RowGood' /\ RowMoves
  BY <1>1, KeepRow, AgentFacts DEF RowGood
<1>3. PICK v \in {"running"} \cup VerdictsOf(up[u]) :
        seen' = [seen EXCEPT ![g] = [Blank EXCEPT !.status = row.status,
                                        !.due = row.scheduled, !.told = v]]
  BY DEF ReceiveCallback
<1>4. /\ pc'[g] = "called" /\ job'[g] = "callback" /\ todo'[g] = todo[g]
      /\ seen'[g].uid = NoId /\ ~seen'[g].cancel /\ seen'[g].told = v
  BY <1>1, <1>3 DEF ReceiveCallback, Inv, AgentsOK, Blank
<1>5. v = "succeeded" => up[u] = "succeeded"
  BY <1>3 DEF VerdictsOf
<1>6. AgentGood(g)'
  <2>1. Wants(g)' => row'.cancel
    BY <1>1, <1>4, AgentFacts DEF AgentGood, Wants
  <2>2. (pc[g] = "called" /\ seen[g].told = "succeeded")' =>
          \E a \in Uids : up'[a] = "succeeded"
    BY <1>1, <1>4, <1>5
  <2> QED BY <1>4, <2>1, <2>2 DEF AgentGood
<1>7. ASSUME NEW a \in Agents, a # g PROVE AgentGood(a)'
  <2>1. /\ pc'[a] = pc[a] /\ job'[a] = job[a] /\ seen'[a] = seen[a]
        /\ todo'[a] = todo[a]
    BY <1>1, <1>3, <1>7 DEF ReceiveCallback, Inv, AgentsOK
  <2> QED BY <1>1, <1>2, <2>1, MovesMono, OtherGood DEF Good
<1> QED BY <1>1, <1>2, <1>6, <1>7, AgentStepGood DEF AgentsGood

(* _apply_callback.  A row that may move to succeeded has the id of a task  *)
(* that exists; where only one was created, it is the one reported.         *)
LEMMA CallbackGood ==
    ASSUME Inv, Good, OneCreation, NEW g \in Agents, CallbackStep(g)
    PROVE  Step
<1> USE AgentFacts, NothingOutside
<1>1. CASE CallbackProgress(g)
  <2>1. seen[g].due \in BOOLEAN
    BY DEF Snapshot
  <2>2. row' \in {row, Due}
    BY <1>1, <2>1 DEF CallbackProgress, Due, Row
  <2> QED BY <1>1, <2>2, RescheduleGood DEF CallbackProgress
<1>2. CASE CallbackArbitrated(g)
  BY <1>2, RescheduleGood DEF CallbackArbitrated, ScheduleNextPoll
<1>3. CASE CallbackVerdict(g)
  <2>0. "cancel_upstream" \notin {"finalize"} /\ "cancel_upstream" \notin {}
    OBVIOUS
  <2>1. CASE Advance(g, {seen[g].status}, "failed", row, {"finalize"}, {})
    BY <1>3, <2>0, <2>1, AdvanceGood DEF CallbackVerdict, TaskStatus, Lingering
  <2>2. CASE Advance(g, {seen[g].status}, "timeout", Parked, {"finalize"}, {})
    <3>1. Parked \in Row /\ Parked.uid = row.uid /\ Parked.cancel = row.cancel
      BY ParkedFields
    <3> QED BY <1>3, <2>0, <2>2, <3>1, AdvanceGood DEF CallbackVerdict, TaskStatus, Lingering
  <2>3. CASE /\ seen[g].told = "succeeded"
             /\ Advance(g, {seen[g].status}, "succeeded", Parked, {"finalize"}, {})
    <3>1. ASSUME ~ConfirmAuto, CanTransition(row.status, "succeeded")
          PROVE  row.uid # NoId /\ up[row.uid] = "succeeded"
      <4>1. row.status \in Polled
        BY <3>1, IntoPolled DEF Row, Polled
      <4>2. row.uid \in Uids /\ row.uid # NoId /\ Created(row.uid)
        BY <4>1 DEF Inv, RowOK, Row
      <4>3. PICK u \in Uids : up[u] = "succeeded"
        BY <1>3, <2>3, <3>1 DEF CallbackVerdict, AgentGood
      <4>4. u = row.uid
        BY <3>1, <4>2, <4>3 DEF OneCreation, Created
      <4> QED BY <4>2, <4>3, <4>4
    <3> QED BY <1>3, <2>0, <2>3, <3>1, SuccessGood DEF CallbackVerdict
  <2> QED BY <1>3, <2>1, <2>2, <2>3 DEF CallbackVerdict
<1> QED BY <1>1, <1>2, <1>3 DEF CallbackStep

LEMMA GatewayGood ==
    ASSUME Inv, Good, OneCreation, NEW g \in Gateways, GatewayStep(g)
    PROVE  Step
<1> g \in Agents
  BY DEF Agents
<1> USE AgentFacts, NothingOutside
<1>1. CASE InlineDenied(g)
  <2>1. row' \in {row, Refunded} /\ Then(g, {"submit_upstream"}) /\ UNCHANGED outside
    BY <1>1 DEF InlineDenied
  <2>2. /\ row'.status = row.status /\ row'.uid = row.uid
        /\ row'.cancel = row.cancel
        /\ row.status \in Lingering => row'.scheduled
    BY <2>1 DEF Row, Refunded, RowGood
  <2>3. "cancel_upstream" \notin {"submit_upstream"}
    OBVIOUS
  <2> QED BY <2>1, <2>2, <2>3, KeepGood
<1>2. CASE InlineReload(g)
  <2>1. pc' = [pc EXCEPT ![g] = pc[g]] /\ pc[g] \in {"intended", "sent"}
    BY <1>2 DEF InlineReload, Inv, AgentsOK
  <2>2. "cancel_upstream" \in todo[g] => row.cancel
    BY DEF AgentGood, Wants
  <2>3. UNCHANGED <<row, up, todo, bus>>
    BY <1>2 DEF InlineReload, outside
  <2> QED BY <1>2, <2>1, <2>2, <2>3, LoadedGood DEF InlineReload
<1>3. CASE QueryRefresh(g)
  <2>1. "cancel_upstream" \in todo[g] => row.cancel
    BY DEF AgentGood, Wants
  <2>2. UNCHANGED <<row, up, todo, bus>>
    BY <1>3 DEF QueryRefresh, outside
  <2> QED BY <1>3, <2>1, <2>2, LoadedGood DEF QueryRefresh
<1>4. CASE QueryCall(g)
  <2>1. PICK a \in VerdictsOf(up[seen[g].uid]) \cup (Noise \cap {"garbled"}) :
           Goto(g, a)
    BY <1>4 DEF QueryCall
  <2>2. seen[g].uid # NoId /\ UNCHANGED row /\ UNCHANGED outside
    BY <1>4 DEF QueryCall, Inv, AgentsOK, AgentIds
  <2>3. up[seen[g].uid] \in UpStates
    BY <2>2 DEF Inv, UpOK, Snapshot
  <2>4. a # "broken"
    BY <2>3 DEF VerdictsOf, UpStates
  <2> QED BY <2>1, <2>2, <2>4, AnswerGood
<1> QED BY <1>1, <1>2, <1>3, <1>4, AcceptInlineGood, RequestCancelGood,
           ReceiveGood, CallbackGood DEF GatewayStep

(* The inspector.                                                           *)
LEMMA SweepGood ==
    ASSUME Inv, Good, UNCHANGED up, UNCHANGED agents, NEW src,
           NEW dst \in TaskStatus \ {"accepted", "succeeded", "cancelled"},
           NEW new \in {Parked, Due}, dst \in Lingering => new = Due,
           NEW msgs, "cancel_upstream" \notin msgs,
           SweepMove(src, dst, new, msgs)
    PROVE  Step
<1>0. row \in Row /\ RowGood /\ SameUp /\ AgentsGood
  BY SameUpstream DEF Inv, RowOK, Good
<1>1. /\ new \in Row /\ new.uid = row.uid /\ new.cancel = row.cancel
      /\ dst \in Lingering => new.scheduled
  BY <1>0, ParkedFields, DueFields
<1>2. UNCHANGED row \/ row' = [new EXCEPT !.status = dst]
  BY DEF SweepMove
<1>3. RowGood' /\ RowMoves
  <2>1. CASE UNCHANGED row
    BY <1>0, <2>1, KeepRow DEF RowGood
  <2>2. CASE row' = [new EXCEPT !.status = dst]
    BY <1>0, <1>1, <2>2, MoveRow
  <2> QED BY <1>2, <2>1, <2>2
<1>4. "cancel_upstream" \in bus' => "cancel_upstream" \in bus
  BY DEF SweepMove
<1>5. AgentsGood'
  BY <1>0, <1>3, MovesMono, IdleGood
<1> QED BY <1>0, <1>3, <1>4, <1>5, AgentStepGood

(* A step that leaves row, agents and upstream alone and sends no cancel    *)
(* message of its own.                                                      *)
LEMMA AsideGood ==
    ASSUME Inv, Good, UNCHANGED <<row, up>>, UNCHANGED agents,
           "cancel_upstream" \in bus' => "cancel_upstream" \in bus \/ row.cancel
    PROVE  Step
<1>1. SameUp /\ RowGood' /\ RowMoves
  BY SameUpstream, KeepRow DEF RowGood, Good, Inv, RowOK
<1>2. AgentsGood'
  BY <1>1, MovesMono, IdleGood DEF Good
<1> QED BY <1>1, <1>2, AgentStepGood

LEMMA InspectorGood ==
    ASSUME Inv, Good, InspectorStep
    PROVE  Step
<1>1. UNCHANGED up /\ UNCHANGED agents
  BY DEF InspectorStep, ScanAcceptedStalls, StalledToUnknown, ScanDeadlines,
     ExpiredToTimeout, BoundUnknowns, ReconcileOrphans, NextTick, inspectorOnly
<1>2. CASE ScanAcceptedStalls \/ NextTick
  BY <1>1, <1>2, AsideGood DEF ScanAcceptedStalls, NextTick
<1>3. CASE StalledToUnknown
  BY <1>1, <1>3, SweepGood DEF StalledToUnknown, TaskStatus
<1>4. CASE ScanDeadlines
  <2>1. CASE row.status = "accepted"
    BY <1>1, <1>4, <2>1, AsideGood DEF ScanDeadlines
  <2>2. CASE row.status # "accepted"
    <3>1. SweepMove(row.status, "timeout", Parked, {})
      BY <1>4, <2>2 DEF ScanDeadlines
    <3>2. /\ "timeout" \in TaskStatus \ {"accepted", "succeeded", "cancelled"}
          /\ "timeout" \notin Lingering
      BY DEF TaskStatus, Lingering
    <3> QED BY <1>1, <3>1, <3>2, SweepGood
  <2> QED BY <2>1, <2>2
<1>5. CASE ExpiredToTimeout
  BY <1>1, <1>5, SweepGood DEF ExpiredToTimeout, TaskStatus, Lingering
<1>6. CASE BoundUnknowns
  BY <1>1, <1>6, SweepGood DEF BoundUnknowns, TaskStatus, Lingering
<1>7. CASE ReconcileOrphans
  BY <1>1, <1>7, SweepGood DEF ReconcileOrphans, TaskStatus
<1> QED BY <1>2, <1>3, <1>4, <1>5, <1>6, <1>7 DEF InspectorStep

(* Operator, scheduler, clock and faults.                                   *)
LEMMA OthersGood ==
    ASSUME Inv, Good,
           \/ AcceptQueued \/ SchedulerDispatch \/ CloseTask \/ DeadlinePasses
           \/ CredentialExpires \/ AcceptCrash
           \/ (\E w \in Agents : Redeliver(w))
           \/ (\E m \in Messages : LoseMessage(m))
           \/ UNCHANGED vars
    PROVE  Step
<1>1. CASE CloseTask
  <2>1. SameUp /\ UNCHANGED <<bus, up>> /\ UNCHANGED agents
    BY <1>1, SameUpstream DEF CloseTask
  <2>2. /\ Parked \in Row /\ Parked.uid = row.uid /\ Parked.cancel = row.cancel
        /\ row \in Row /\ RowGood
    BY ParkedFields DEF Inv, RowOK, Good
  <2>3. /\ "dead" \in TaskStatus \ {"accepted", "succeeded"}
        /\ "dead" \notin Lingering
    BY DEF TaskStatus, Lingering
  <2>4. RowGood' /\ RowMoves
    BY <1>1, <2>1, <2>2, <2>3, MoveRow DEF CloseTask
  <2>5. AgentsGood'
    BY <2>1, <2>4, MovesMono, IdleGood DEF Good
  <2> QED BY <2>1, <2>4, <2>5, AgentStepGood
<1>2. CASE DeadlinePasses
  <2>1. SameUp /\ UNCHANGED <<bus, up>> /\ UNCHANGED agents
    BY <1>2, SameUpstream DEF DeadlinePasses, outside
  <2>2. /\ row'.status = row.status /\ row'.uid = row.uid
        /\ row'.cancel = row.cancel /\ row'.scheduled = row.scheduled
        /\ row \in Row /\ RowGood
    BY <1>2 DEF DeadlinePasses, Inv, RowOK, Row, Good
  <2>3. RowGood' /\ RowMoves
    BY <2>1, <2>2, KeepRow DEF RowGood
  <2>4. AgentsGood'
    BY <2>1, <2>3, MovesMono, IdleGood DEF Good
  <2> QED BY <2>1, <2>3, <2>4, AgentStepGood
<1>3. CASE SchedulerDispatch
  <2>1. DispatchByStatus(row.status) # "cancel_upstream"
    BY <1>3 DEF SchedulerDispatch, DueForDispatch, DispatchByStatus,
       ActiveStatuses
  <2> QED BY <1>3, <2>1, AsideGood DEF SchedulerDispatch
<1>4. CASE \E w \in Agents : Redeliver(w)
  <2>1. PICK w \in Agents : Redeliver(w)
    BY <1>4
  <2>2. job[w] = "cancel_upstream" => row.cancel
    BY AgentFacts DEF AgentGood, Wants
  <2> QED BY <2>1, <2>2, AsideGood DEF Redeliver
<1>5. CASE \/ AcceptQueued \/ CredentialExpires \/ AcceptCrash
           \/ (\E m \in Messages : LoseMessage(m)) \/ UNCHANGED vars
  BY <1>5, AsideGood DEF AcceptQueued, CredentialExpires, AcceptCrash,
     LoseMessage, vars, agents
<1> QED BY <1>1, <1>2, <1>3, <1>4, <1>5

(* The upstream takes nothing back, and nobody acts on its word at once.    *)
Upstream == /\ UNCHANGED row
            /\ \/ SameUp
               \/ \E u \in Uids : \/ /\ up[u] = "wire"
                                     /\ up' = [up EXCEPT ![u] = "running"]
                                  \/ /\ Created(u)
                                     /\ up' = [up EXCEPT ![u] = "succeeded"]

LEMMA UpstreamGood ==
    ASSUME Inv, Good, NEW u \in Uids,
           UpCreate(u) \/ UpLose(u) \/ \E s \in Outcomes : UpEnd(u, s)
    PROVE  Good' /\ Upstream
<1>1. up \in [Uids -> UpStates] /\ row \in Row
  BY DEF Inv, UpOK, RowOK
<1>2. UNCHANGED <<row, bus>> /\ UNCHANGED agents
  BY DEF UpCreate, UpLose, UpEnd
<1>3. \A v \in Uids : up[v] = "succeeded" => up'[v] = "succeeded"
  BY <1>1 DEF UpCreate, UpLose, UpEnd
<1>4. Mono
  BY <1>2, <1>3 DEF Mono
<1>5. Good'
  <2>1. RowGood'
    BY <1>1, <1>2, <1>3 DEF RowGood, Good, Row
  <2>2. BusGood'
    BY <1>2 DEF BusGood, Good
  <2>3. AgentsGood'
    BY <1>2, <1>4, IdleGood DEF Good
  <2> QED BY <2>1, <2>2, <2>3 DEF Good
<1>6. Upstream
  <2>1. CASE UpCreate(u)
    BY <1>2, <2>1 DEF UpCreate, Upstream
  <2>2. CASE UpLose(u)
    BY <1>1, <1>2, <2>2 DEF UpLose, Upstream, SameUp, Created
  <2>3. ASSUME NEW s \in Outcomes, UpEnd(u, s)
        PROVE  Upstream
    <3>1. Created(u) /\ up[u] = "running" /\ up' = [up EXCEPT ![u] = s]
      BY <2>3 DEF UpEnd, Created
    <3>2. CASE s = "succeeded"
      BY <1>2, <3>1, <3>2 DEF Upstream
    <3>3. CASE s # "succeeded"
      BY <1>1, <1>2, <3>1, <3>3, NoiseAssumption
         DEF Upstream, SameUp, Created
    <3> QED BY <3>2, <3>3
  <2> QED BY <2>1, <2>2, <2>3
<1> QED BY <1>5, <1>6

-----------------------------------------------------------------------------
(* All of it.                                                               *)

LEMMA InitGood ==
    ASSUME Init
    PROVE  Good
BY DEF Init, NewRow, Blank, Good, RowGood, BusGood, AgentsGood, AgentGood,
   Wants, At, Lingering

LEMMA NextGood ==
    ASSUME Inv, Good, OneCreation, [Next]_vars
    PROVE  Good' /\ (Step \/ Upstream)
<1>1. ASSUME NEW w \in Workers, WorkerStep(w)
      PROVE  Step
  BY <1>1, SubmitGood, PollGood, CompensateGood, CancelGood DEF WorkerStep
<1>2. ASSUME NEW w \in Agents, AgentStep(w)
      PROVE  Step
  BY <1>2, CreateGood, PollResultGood, EndGood DEF AgentStep
<1>3. ASSUME NEW w \in Workers, NEW m \in Messages, Consume(w, m)
      PROVE  Step
  BY <1>3, ConsumeGood DEF Agents
<1>4. CASE Environment
  BY <1>4, UpstreamGood, OthersGood DEF Environment, Step
<1>5. CASE Faults
  BY <1>5, EndGood, OthersGood DEF Faults, Step
<1>6. CASE \/ AcceptQueued \/ SchedulerDispatch \/ CloseTask \/ Settled
           \/ UNCHANGED vars
  BY <1>6, OthersGood DEF Settled, Step
<1> QED BY <1>1, <1>2, <1>3, <1>4, <1>5, <1>6, GatewayGood, InspectorGood
        DEF Next, Step

(* Good holds throughout.                                                   *)
LEMMA GoodHolds == Spec => []Good
<1>1. Inv /\ Good /\ OneCreation /\ [Next]_vars => Good'
  BY NextGood
<1> QED BY Invariance, CreatesOnce, InitGood, <1>1, PTL DEF Spec

(* A task ends cancelled only if its caller asked for it, although          *)
(* submit_upstream and cancel_upstream act on a request they read or were   *)
(* sent earlier: no write takes cancel_requested back, and every message or *)
(* snapshot that leads to "cancelled" stems from it.                        *)
THEOREM CancelAsked == Spec => []CancelledWasAsked
<1>1. Good => CancelledWasAsked
  BY DEF Good, RowGood, CancelledWasAsked
<1> QED BY GoodHolds, <1>1, PTL

(* A task in submit_unknown always has a next_poll_at: whichever handler or *)
(* sweep put it there set it, and no handler, callback or sweep that leaves *)
(* it there clears it.                                                      *)
THEOREM UnknownDue == Spec => []UnknownStaysDue
<1>1. Good => UnknownStaysDue
  BY DEF Good, RowGood, UnknownStaysDue, Lingering
<1> QED BY GoodHolds, <1>1, PTL

(* With manual_only success is reported only if the task whose id the row   *)
(* has succeeded: _handle_poll_result writes an answer about that very id,  *)
(* _apply_callback a report about the one task that was created, and what   *)
(* the upstream called a success stays one, so both are still true when     *)
(* they are written.                                                        *)
THEOREM SuccessReal == Spec => []SuccessIsReal
<1>1. Good => SuccessIsReal
  BY DEF Good, RowGood, SuccessIsReal
<1> QED BY GoodHolds, <1>1, PTL

(* With manual_only no late create answer and no late compensation changes  *)
(* the upstream id of a task once it is known (mark_submitted,              *)
(* relocate_compensate).                                                    *)
THEOREM IdStays == Spec => IdIsStable
<1>1. Inv /\ Good /\ OneCreation /\ [Next]_vars =>
        [(~ConfirmAuto /\ row.uid # NoId) => row'.uid = row.uid]_vars
  BY NextGood DEF Step, RowMoves, OneMove, Upstream
<1> QED BY Invariance, GoodHolds, CreatesOnce, <1>1, PTL DEF Spec, IdIsStable

-----------------------------------------------------------------------------
(* The contract.                                                            *)

Made == {u \in Uids : Created(u)}
Won == {u \in Uids : up[u] = "succeeded"}

LEMMA Verdict ==
    ASSUME row \in Row
    PROVE  /\ row.status \in ActiveStatuses => CallerVerdict = "pending"
           /\ row.status = "dead_awaiting_confirm" => CallerVerdict = "review"
           /\ row.status \in BusinessTerminal \ {"dead_awaiting_confirm"} =>
                 CallerVerdict = row.status
           /\ row.status \in ActiveStatuses \/ row.status \in BusinessTerminal
BY DEF CallerVerdict, Row, TaskStatus, ActiveStatuses, BusinessTerminal,
   InternalTerminal

LEMMA VerdictNext ==
    ASSUME row' \in Row
    PROVE  /\ row'.status \in ActiveStatuses => CallerVerdict' = "pending"
           /\ row'.status = "dead_awaiting_confirm" => CallerVerdict' = "review"
           /\ row'.status \in BusinessTerminal \ {"dead_awaiting_confirm"} =>
                 CallerVerdict' = row'.status
           /\ row'.status \in ActiveStatuses \/ row'.status \in BusinessTerminal
BY DEF CallerVerdict, Row, TaskStatus, ActiveStatuses, BusinessTerminal,
   InternalTerminal

LEMMA SameSets ==
    ASSUME SameUp
    PROVE  Made' = Made /\ Won' = Won
BY DEF SameUp, Made, Won

(* A move of the status alone is no step, a decision, or an operator's      *)
(* close.                                                                   *)
LEMMA StatusMove ==
    ASSUME ~ConfirmAuto, Inv, Inv', Good', Lawful, SameUp,
           row'.uid = row.uid, row'.cancel = row.cancel
    PROVE  Contract!Next \/ UNCHANGED Contract!contract
<1>0. row \in Row /\ row' \in Row /\ Made' = Made /\ Won' = Won
  BY SameSets DEF Inv, RowOK
<1>1. CASE row.status \in BusinessTerminal
  <2>1. CASE row'.status = row.status
    BY <1>0, <2>1 DEF Contract!contract, CallerVerdict, Made, Won
  <2>2. CASE row.status = "dead_awaiting_confirm" /\ row'.status = "dead"
    <3>1. CallerVerdict = "review" /\ CallerVerdict' = "dead"
      BY <1>0, <2>2, Verdict, VerdictNext
         DEF BusinessTerminal, InternalTerminal
    <3> QED BY <1>0, <3>1 DEF Contract!Next, Contract!Close, Made, Won
  <2> QED BY <1>1, <2>1, <2>2, LawfulStands
<1>2. CASE row.status \in ActiveStatuses /\ row'.status \in ActiveStatuses
  BY <1>0, <1>2, Verdict, VerdictNext DEF Contract!contract, Made, Won
<1>3. CASE row.status \in ActiveStatuses /\ row'.status \in BusinessTerminal
  <2>1. CallerVerdict = "pending"
    BY <1>0, <1>3, Verdict
  <2>2. /\ CallerVerdict' \in Contract!Decided
        /\ CallerVerdict' = "succeeded" => row'.status = "succeeded"
        /\ CallerVerdict' = "cancelled" => row'.status = "cancelled"
    BY <1>0, <1>3, VerdictNext
       DEF Contract!Decided, BusinessTerminal, InternalTerminal
  <2>3. CallerVerdict' = "succeeded" => row.uid \in Won
    BY <1>0, <2>2 DEF Good, RowGood, Row, Won
  <2>4. CallerVerdict' = "cancelled" => row.cancel
    BY <2>2 DEF Good, RowGood
  <2>5. Contract!Decide(CallerVerdict')
    BY <1>0, <2>1, <2>3, <2>4 DEF Contract!Decide, Made, Won
  <2> QED BY <2>2, <2>5 DEF Contract!Next
<1> QED BY <1>0, <1>1, <1>2, <1>3, Verdict, VerdictNext

(* With the contract's mapping, every step is a step of the contract.       *)
LEMMA ContractStep ==
    ASSUME ~ConfirmAuto, Inv, Good, Inv', OneCreation, OneCreation', [Next]_vars
    PROVE  Contract!Next \/ UNCHANGED Contract!contract
<1>0. row \in Row /\ row' \in Row /\ up \in [Uids -> UpStates]
  BY DEF Inv, RowOK, UpOK
<1>1. CASE Step
  <2>0. /\ SameUp /\ OneMove /\ Good' /\ Lawful
        /\ Made' = Made /\ Won' = Won
    BY <1>1, NextInv, SameSets DEF Step, RowMoves
  <2>1. CASE row'.uid = row.uid /\ row'.cancel = row.cancel
    BY <2>0, <2>1, StatusMove
  <2>2. CASE /\ row'.uid = row.uid /\ row'.status = row.status /\ row'.cancel
             /\ row.status \in ActiveStatuses
    <3>1. CallerVerdict = "pending" /\ CallerVerdict' = "pending"
      BY <1>0, <2>2, Verdict, VerdictNext
    <3>2. row'.cancel = TRUE
      BY <1>0, <2>2 DEF Row
    <3> QED BY <2>0, <2>2, <3>1, <3>2 DEF Contract!Next, Contract!Ask, Made, Won
  <2>3. CASE /\ row.uid = NoId /\ row'.cancel = row.cancel
             /\ row.status \in ActiveStatuses /\ row'.status \in ActiveStatuses
    <3>1. CallerVerdict = "pending" /\ CallerVerdict' = "pending"
      BY <1>0, <2>3, Verdict, VerdictNext
    <3>2. CASE row'.uid = NoId
      BY <2>0, <2>3, <3>1, <3>2 DEF Contract!contract, Made, Won
    <3>3. CASE row'.uid # NoId
      <4>1. row'.uid \in Uids /\ row'.uid \in Made'
        BY <1>0, <3>3 DEF Row, Inv, RowOK, Made
      <4>2. Contract!Learn(row'.uid)
        BY <2>0, <2>3, <3>1, <4>1 DEF Contract!Learn, Made, Won
      <4> QED BY <4>1, <4>2 DEF Contract!Next
    <3> QED BY <3>2, <3>3
  <2> QED BY <2>0, <2>1, <2>2, <2>3 DEF OneMove
<1>2. CASE Upstream
  <2>0. UNCHANGED row /\ CallerVerdict' = CallerVerdict
    BY <1>2 DEF Upstream, CallerVerdict
  <2>1. CASE SameUp
    BY <2>0, <2>1, SameSets DEF Contract!contract, Made, Won
  <2>2. ASSUME NEW u \in Uids, up[u] = "wire",
               up' = [up EXCEPT ![u] = "running"]
        PROVE  Contract!Next
    <3>1. Created(u)' /\ ~Created(u)
      BY <1>0, <2>2 DEF Created
    <3>2. \A v \in Uids : Created(v)' => v = u
      BY <3>1 DEF OneCreation
    <3>3. \A v \in Uids : Created(v) => Created(v)'
      BY <1>0, <2>2 DEF Created
    <3>4. Made = {} /\ Made' = {u}
      BY <3>1, <3>2, <3>3 DEF Made
    <3>5. Won' = Won
      BY <1>0, <2>2 DEF Won
    <3>6. Contract!Create(u)
      BY <2>0, <3>4, <3>5 DEF Contract!Create, Made, Won
    <3> QED BY <3>6 DEF Contract!Next
  <2>3. ASSUME NEW u \in Uids, Created(u), up' = [up EXCEPT ![u] = "succeeded"]
        PROVE  Contract!Next
    <3>1. u \in Made /\ Made' = Made
      BY <1>0, <2>3 DEF Made, Created
    <3>2. Won' = Won \cup {u}
      BY <1>0, <2>3 DEF Won
    <3>3. Contract!Succeed(u)
      BY <2>0, <3>1, <3>2 DEF Contract!Succeed, Made, Won
    <3> QED BY <3>3 DEF Contract!Next
  <2> QED BY <1>2, <2>1, <2>2, <2>3 DEF Upstream
<1> QED BY <1>1, <1>2, NextGood

LEMMA ContractInit ==
    ASSUME Init
    PROVE  Contract!Init
BY DEF Init, NewRow, Contract!Init, CallerVerdict, ActiveStatuses, Created

(* With manual_only, gateway, workers, scheduler, inspector and operator    *)
(* together implement the contract of module TaskContract: under the        *)
(* mapping Contract every step of any of them, and every fault, is a step   *)
(* the contract allows or changes nothing the caller can see.               *)
THEOREM Implements == ~ConfirmAuto => (Spec => ContractKept)
<1> SUFFICES ASSUME ~ConfirmAuto
             PROVE  Spec => ContractKept
  OBVIOUS
<1>1. Init => Contract!Init
  BY ContractInit
<1>2. Inv /\ Inv' /\ Good /\ OneCreation /\ OneCreation' /\ [Next]_vars =>
        [Contract!Next]_(Contract!contract)
  BY ContractStep
<1> QED BY Invariance, GoodHolds, CreatesOnce, <1>1, <1>2, PTL
        DEF Spec, ContractKept, Contract!Spec

=============================================================================
