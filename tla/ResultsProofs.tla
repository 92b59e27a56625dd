---------------------------- MODULE ResultsProofs ----------------------------
(***************************************************************************)
(* Proofs about Results, for any number of callbacks, transfer workers,    *)
(* reports and attempts: what is shown is the upstream's verdict and       *)
(* stands, a result reference has its object, and no transfer is           *)
(* forgotten.                                                              *)
(***************************************************************************)
EXTENDS Results, TLAPS

(* The raw status that is kept beside the row's is a verdict only if the    *)
(* upstream gave it, and so is a success; a reference has its object.       *)
RowSound ==
    /\ row \in Row
    /\ row.raw \in {"none", "running", truth}
    /\ row.status = "succeeded" => truth = "succeeded"
    /\ row.tries < MaxTransfer
    /\ row.ref => object # "none" /\ row.status = "succeeded" /\ ~row.degraded

(* What a callback or a poll is about is true for ever once it is a verdict *)
(* and was loaded while the task was not over.                              *)
CallbackSound(c) ==
    /\ cb[c] \in [at : {"idle", "load", "apply", "finalize"},
                  report : Reports, seen : Seen]
    /\ cb[c].report.status \in {"running", truth}
    /\ cb[c].at = "apply" => cb[c].seen.status \notin BusinessTerminal

PollSound ==
    /\ poll \in [at : {"idle", "answered", "finalize"}, seen : TaskStatus,
                 verdict : Natives]
    /\ poll.at = "answered" =>
          poll.seen \in Polled /\ poll.verdict \in {"running", truth}
    /\ poll.at = "finalize" => row.status = "succeeded"

(* Transfers are about successes, under attempt numbers that are allowed,   *)
(* and one that has stored the result finds it there.                       *)
MoverSound(w) ==
    /\ mover[w] \in [at : {"idle", "fetch", "put", "commit"},
                     attempt : 0 .. MaxTransfer]
    /\ mover[w].at # "idle" =>
          mover[w].attempt \in 1 .. MaxTransfer /\ row.status = "succeeded"
    /\ mover[w].at = "commit" => object # "none"

TransferSound ==
    /\ sent \in BOOLEAN /\ xfer \subseteq 1 .. MaxTransfer
    /\ object \in {"none", "stored", "purged"}
    /\ sent \/ xfer # {} => row.status = "succeeded"
    /\ TransferNotForgotten

RestSound ==
    /\ source \in Sources /\ truth \in Natives /\ doubts \in Nat
    /\ events \subseteq Reports /\ orphans \subseteq events

Inv == /\ RowSound /\ PollSound /\ TransferSound /\ RestSound
       /\ cb = [c \in Callbacks |-> cb[c]] /\ \A c \in Callbacks : CallbackSound(c)
       /\ mover = [w \in Movers |-> mover[w]] /\ \A w \in Movers : MoverSound(w)

(* Once a task is over its status and its raw status stand.                 *)
Stands == row.status \in BusinessTerminal =>
              row'.status = row.status /\ row'.raw = row.raw

Fine == Inv' /\ Stands

-----------------------------------------------------------------------------
LEMMA Terminal ==
    /\ \A d \in BusinessTerminal : ~CanTransition(d, "timeout")
    /\ \A d \in Polled \cup ActiveStatuses : d \notin BusinessTerminal
    /\ "succeeded" \in BusinessTerminal /\ "timeout" \in BusinessTerminal
    /\ BusinessTerminal \subseteq TaskStatus
  BY DEF BusinessTerminal, InternalTerminal, CanTransition, AllowedTargets,
         Polled, ActiveStatuses, TaskStatus

(* The row of a task that is not over moves: nothing has been transferred.  *)
LEMMA RowMoves ==
    ASSUME Inv, row.status \notin BusinessTerminal, row' \in Row,
           row'.raw \in {"none", "running", truth},
           row'.status = "succeeded" => truth = "succeeded",
           row'.ref = row.ref, row'.tries = row.tries,
           UNCHANGED <<truth, sent, xfer, mover, object>>
    PROVE  /\ RowSound' /\ TransferSound' /\ Stands
           /\ mover' = [w \in Movers |-> mover'[w]]
           /\ \A w \in Movers : MoverSound(w)'
<1>1. row.status # "succeeded"
  BY Terminal
<1>2. ~sent /\ xfer = {} /\ ~row.ref
  BY <1>1 DEF Inv, TransferSound, RowSound
<1>3. \A w \in Movers : mover[w].at = "idle"
  BY <1>1 DEF Inv, MoverSound
<1>4. RowSound'
  BY <1>2 DEF Inv, RowSound
<1>5. TransferSound'
  BY <1>2 DEF Inv, TransferSound, TransferNotForgotten
<1>6. \A w \in Movers : MoverSound(w)'
  BY <1>3 DEF Inv, MoverSound
<1> QED
  BY <1>4, <1>5, <1>6 DEF Inv, Stands

(* The row keeps its status, and the transfer does not change.              *)
LEMMA RowStays ==
    ASSUME Inv, row' \in Row, row'.status = row.status, row'.raw = row.raw,
           row'.ref = row.ref, row'.tries = row.tries,
           row'.degraded = row.degraded, row'.due = row.due \/ row'.due = TRUE,
           UNCHANGED <<truth, sent, xfer, mover, object>>
    PROVE  /\ RowSound' /\ TransferSound' /\ Stands
           /\ mover' = [w \in Movers |-> mover'[w]]
           /\ \A w \in Movers : MoverSound(w)'
<1>1. RowSound'
  BY DEF Inv, RowSound
<1>2. TransferSound'
  BY DEF Inv, TransferSound, TransferNotForgotten, Moves
<1>3. \A w \in Movers : MoverSound(w)'
  BY DEF Inv, MoverSound
<1> QED
  BY <1>1, <1>2, <1>3 DEF Inv, Stands

LEMMA Unmoved ==
    ASSUME Inv, UNCHANGED <<row, truth, sent, xfer, mover, object>>
    PROVE  /\ RowSound' /\ TransferSound' /\ Stands
           /\ mover' = [w \in Movers |-> mover'[w]]
           /\ \A w \in Movers : MoverSound(w)'
  BY RowStays DEF Inv, RowSound

(* Callbacks and polls that a step leaves alone.                            *)
LEMMA CallbackFrame ==
    ASSUME Inv, NEW c \in Callbacks, cb'[c] = cb[c], UNCHANGED truth
    PROVE  CallbackSound(c)'
  BY DEF Inv, CallbackSound

LEMMA CallbackEnded ==
    ASSUME Inv, NEW c \in Callbacks, CallbackEnds(c), UNCHANGED truth
    PROVE  cb' = [d \in Callbacks |-> cb'[d]]
           /\ \A d \in Callbacks : CallbackSound(d)'
<1>1. cb'[c] = AtRest /\ \A d \in Callbacks : d # c => cb'[d] = cb[d]
  BY DEF Inv, CallbackEnds
<1>2. AtRest \in [at : {"idle", "load", "apply", "finalize"},
                  report : Reports, seen : Seen]
      /\ AtRest.report.status = "running" /\ AtRest.at = "idle"
  BY BoundsAssumption DEF AtRest, NoReport, NotSeen, Reports, Natives, Seen, TaskStatus
<1>3. CallbackSound(c)'
  BY <1>1, <1>2 DEF CallbackSound
<1> QED
  BY <1>1, <1>3, CallbackFrame DEF Inv, CallbackEnds

LEMMA CallbacksFrame ==
    ASSUME Inv, UNCHANGED <<cb, truth>>
    PROVE  cb' = [d \in Callbacks |-> cb'[d]]
           /\ \A d \in Callbacks : CallbackSound(d)'
  BY CallbackFrame DEF Inv

LEMMA PollFrame ==
    ASSUME Inv, UNCHANGED <<poll, truth>>, Stands
    PROVE  PollSound'
  BY Terminal DEF Inv, PollSound, Stands

LEMMA PollEnded ==
    ASSUME poll' = NotPolling
    PROVE  PollSound'
  BY DEF PollSound, NotPolling, TaskStatus, Natives

-----------------------------------------------------------------------------
(* Callbacks                                                                *)

LEMMA ReceiveFine ==
    ASSUME Inv, NEW c \in Callbacks, NEW e \in Reports, Receive(c, e)
    PROVE  Fine
<1>0. /\ True(e) /\ events' = events \cup {e}
      /\ cb' = [cb EXCEPT ![c] = [at |-> "load", report |-> e,
                                  seen |-> NotSeen]]
      /\ UNCHANGED <<source, truth, row, orphans, poll, doubts, sent, xfer,
                     mover, object>>
  BY DEF Receive, world, transfer
<1>1. PICK r : /\ r = [at |-> "load", report |-> e, seen |-> NotSeen]
               /\ cb'[c] = r
               /\ \A d \in Callbacks : d # c => cb'[d] = cb[d]
  BY <1>0 DEF Inv
<1>2. e.status \in {"running", truth} /\ NotSeen \in Seen
  BY <1>0 DEF True, NotSeen, Seen, TaskStatus
<1>3. /\ r \in [at : {"idle", "load", "apply", "finalize"},
                report : Reports, seen : Seen]
      /\ r.report = e /\ r.at = "load"
  BY <1>1, <1>2
<1>4. CallbackSound(c)'
  BY <1>0, <1>1, <1>2, <1>3 DEF CallbackSound
<1>5. cb' = [d \in Callbacks |-> cb'[d]] /\ \A d \in Callbacks : CallbackSound(d)'
  BY <1>0, <1>1, <1>4, CallbackFrame DEF Inv
<1> QED
  BY <1>0, <1>5, Unmoved, PollFrame DEF Fine, Inv, RestSound

LEMMA OrphanFine ==
    ASSUME Inv, NEW e \in Reports, ReceiveOrphan(e) \/ ReconcileOrphan(e)
    PROVE  Fine
<1>1. UNCHANGED <<source, truth, row, cb, poll, doubts, sent, xfer, mover,
                  object>>
  BY DEF ReceiveOrphan, ReconcileOrphan, world, transfer
<1>2. RestSound'
  BY <1>1 DEF Inv, RestSound, ReceiveOrphan, ReconcileOrphan
<1> QED
  BY <1>1, <1>2, Unmoved, CallbacksFrame, PollFrame DEF Fine, Inv

LEMMA ApplyLoadFine ==
    ASSUME Inv, NEW c \in Callbacks, ApplyLoad(c)
    PROVE  Fine
<1>0. UNCHANGED <<source, truth, row, events, orphans, poll, doubts, sent, xfer,
                  mover, object>>
  BY DEF ApplyLoad, world, reports, transfer
<1>1. cb' = [d \in Callbacks |-> cb'[d]] /\ \A d \in Callbacks : CallbackSound(d)'
  <2>1. CASE CallbackEnds(c)
    BY <1>0, <2>1, CallbackEnded
  <2>2. CASE /\ row.status \notin BusinessTerminal
             /\ cb' = [cb EXCEPT ![c].at = "apply",
                                 ![c].seen = [status |-> row.status,
                                              due |-> row.due]]
    <3>1. /\ cb'[c] = [cb[c] EXCEPT !.at = "apply",
                                    !.seen = [status |-> row.status,
                                              due |-> row.due]]
          /\ \A d \in Callbacks : d # c => cb'[d] = cb[d]
      BY <2>2 DEF Inv
    <3>2. [status |-> row.status, due |-> row.due] \in Seen
      BY DEF Inv, RowSound, Row, Seen
    <3>3. CallbackSound(c)'
      BY <1>0, <2>2, <3>1, <3>2 DEF Inv, CallbackSound
    <3> QED
      BY <1>0, <2>2, <3>1, <3>3, CallbackFrame DEF Inv
  <2> QED
    BY <2>1, <2>2 DEF ApplyLoad
<1> QED
  BY <1>0, <1>1, Unmoved, PollFrame DEF Fine, Inv, RestSound

(* A step of a callback or of a poll that moves the row, if it moves it, by *)
(* a conditional write.                                                     *)
LEMMA ProgressFine ==
    ASSUME Inv, NEW c \in Callbacks, ApplyProgress(c)
    PROVE  Fine
<1>0. /\ cb[c].at = "apply" /\ CallbackEnds(c)
      /\ \E native \in {"running", "none"} :
            IfStill(cb[c].seen.status,
                    [row EXCEPT !.raw = native, !.due = @ \/ cb[c].seen.due])
      /\ UNCHANGED <<source, truth, events, orphans, poll, doubts, sent, xfer,
                     mover, object>>
  BY DEF ApplyProgress, At, world, reports, transfer
<1>1. cb[c].seen.status \notin BusinessTerminal /\ row \in Row
      /\ cb[c].seen.due \in BOOLEAN
  BY <1>0 DEF Inv, CallbackSound, RowSound, Seen
<1>2. CASE row' = row
  BY <1>0, <1>2, Unmoved, CallbackEnded, PollFrame DEF Fine, Inv, RestSound
<1>3. ASSUME NEW native \in {"running", "none"},
             row.status \notin BusinessTerminal,
             row' = [row EXCEPT !.raw = native, !.due = @ \/ cb[c].seen.due]
      PROVE  Fine
  <2>1. /\ row' \in Row /\ row'.raw = native /\ row'.status = row.status
        /\ row'.ref = row.ref /\ row'.tries = row.tries
    BY <1>1, <1>3 DEF Row, Natives
  <2>2. /\ RowSound' /\ TransferSound' /\ Stands
        /\ mover' = [w \in Movers |-> mover'[w]]
        /\ \A w \in Movers : MoverSound(w)'
    BY <1>0, <1>3, <2>1, RowMoves, Terminal
  <2> QED
    BY <1>0, <2>2, CallbackEnded, PollFrame DEF Fine, Inv, RestSound
<1> QED
  BY <1>0, <1>1, <1>2, <1>3 DEF IfStill

LEMMA ArbitrateFine ==
    ASSUME Inv, NEW c \in Callbacks, ApplyArbitrate(c)
    PROVE  Fine
<1>0. /\ CallbackEnds(c) /\ row' \in {row, [row EXCEPT !.due = TRUE]}
      /\ UNCHANGED <<source, truth, events, orphans, poll, doubts, sent, xfer,
                     mover, object>>
  BY DEF ApplyArbitrate, world, reports, transfer
<1>1. /\ row' \in Row /\ row'.status = row.status /\ row'.raw = row.raw
      /\ row'.ref = row.ref /\ row'.tries = row.tries
      /\ row'.degraded = row.degraded /\ (row'.due = row.due \/ row'.due = TRUE)
  BY <1>0 DEF Inv, RowSound, Row
<1> QED
  BY <1>0, <1>1, RowStays, CallbackEnded, PollFrame DEF Fine, Inv, RestSound

(* What is written with a verdict.                                          *)
LEMMA SettledSound ==
    ASSUME Inv, row.status \notin BusinessTerminal, NEW dst \in TaskStatus,
           NEW native \in Verdicts, native = truth,
           dst = Mapped(native) \/ (native = "failed" /\ dst = "dead"),
           NEW due \in BOOLEAN, row' = Settled(dst, native, due),
           UNCHANGED <<truth, sent, xfer, mover, object>>
    PROVE  /\ RowSound' /\ TransferSound' /\ Stands
           /\ mover' = [w \in Movers |-> mover'[w]]
           /\ \A w \in Movers : MoverSound(w)'
<1>1. row \in Row
  BY DEF Inv, RowSound
<1>2. /\ row' \in Row /\ row'.raw = native /\ row'.status = dst
      /\ row'.ref = row.ref /\ row'.tries = row.tries
  BY <1>1 DEF Settled, Row, Natives
<1>3. dst = "succeeded" => native = "succeeded"
  BY DEF Mapped, Verdicts
<1> QED
  BY <1>2, <1>3, RowMoves

LEMMA VerdictFine ==
    ASSUME Inv, NEW c \in Callbacks, ApplyVerdict(c)
    PROVE  Fine
<1> DEFINE native == cb[c].report.status
           src == cb[c].seen.status
<1>0. /\ cb[c].at = "apply" /\ native \in Verdicts
      /\ UNCHANGED <<source, truth, events, orphans, poll, doubts, sent, xfer,
                     mover, object>>
      /\ \/ row' = row
         \/ row.status = src /\ row' = Settled(Mapped(native), native, row.due)
      /\ cb' = [cb EXCEPT ![c] = [AtRest EXCEPT !.at = "finalize"]]
         \/ CallbackEnds(c)
  BY DEF ApplyVerdict, At, IfStill, CallbackEnds, world, reports, transfer
<1>1. native = truth /\ src \notin BusinessTerminal
  BY <1>0 DEF Inv, CallbackSound, Verdicts
<1>2. /\ RowSound' /\ TransferSound' /\ Stands
      /\ mover' = [w \in Movers |-> mover'[w]]
      /\ \A w \in Movers : MoverSound(w)'
  <2>1. Mapped(native) \in TaskStatus /\ row.due \in BOOLEAN
    BY <1>0 DEF Mapped, Verdicts, TaskStatus, Inv, RowSound, Row
  <2> QED
    BY <1>0, <1>1, <2>1, Unmoved, SettledSound
<1>3. cb' = [d \in Callbacks |-> cb'[d]] /\ \A d \in Callbacks : CallbackSound(d)'
  <2>1. CASE CallbackEnds(c)
    BY <1>0, <2>1, CallbackEnded
  <2>2. CASE cb' = [cb EXCEPT ![c] = [AtRest EXCEPT !.at = "finalize"]]
    <3>1. [AtRest EXCEPT !.at = "finalize"]
             = [at |-> "finalize", report |-> NoReport, seen |-> NotSeen]
      BY DEF AtRest
    <3>2. cb'[c] = [at |-> "finalize", report |-> NoReport, seen |-> NotSeen]
          /\ \A d \in Callbacks : d # c => cb'[d] = cb[d]
      BY <2>2, <3>1 DEF Inv
    <3>3. NoReport \in Reports /\ NoReport.status = "running" /\ NotSeen \in Seen
      BY BoundsAssumption DEF NoReport, NotSeen, Reports, Natives, Seen, TaskStatus
    <3>4. CallbackSound(c)'
      BY <3>2, <3>3 DEF CallbackSound
    <3> QED
      BY <1>0, <2>2, <3>2, <3>4, CallbackFrame DEF Inv
  <2> QED
    BY <1>0, <2>1, <2>2
<1> QED
  BY <1>0, <1>2, <1>3, PollFrame DEF Fine, Inv, RestSound

(* The row stays, and a message may be added for a success.                 *)
LEMMA Enqueued ==
    ASSUME Inv, UNCHANGED <<row, truth, mover, object>>,
           UNCHANGED <<xfer, sent>> \/
              /\ row.status = "succeeded" /\ sent' = TRUE
              /\ \E a \in 1 .. MaxTransfer : xfer' = xfer \cup {a}
    PROVE  /\ RowSound' /\ TransferSound' /\ Stands
           /\ mover' = [w \in Movers |-> mover'[w]]
           /\ \A w \in Movers : MoverSound(w)'
<1>1. CASE UNCHANGED <<xfer, sent>>
  BY <1>1, Unmoved
<1>2. ASSUME NEW a \in 1 .. MaxTransfer, row.status = "succeeded", sent' = TRUE,
             xfer' = xfer \cup {a}
      PROVE  TransferSound'
  BY <1>2 DEF Inv, TransferSound, TransferNotForgotten
<1>3. RowSound' /\ Stands /\ \A w \in Movers : MoverSound(w)'
  BY DEF Inv, RowSound, MoverSound, Stands
<1> QED
  BY <1>1, <1>2, <1>3 DEF Inv

LEMMA FinalizeFine ==
    ASSUME Inv, NEW c \in Callbacks, ApplyFinalize(c) \/ CallbackCrash(c)
    PROVE  Fine
<1>0. /\ CallbackEnds(c)
      /\ UNCHANGED <<source, truth, row, events, orphans, poll, doubts, mover,
                     object>>
  BY DEF ApplyFinalize, CallbackCrash, world, reports, transfer
<1>1. \/ UNCHANGED <<xfer, sent>>
      \/ row.status = "succeeded" /\ sent' = TRUE /\ xfer' = xfer \cup {1}
  BY DEF ApplyFinalize, CallbackCrash, EnqueueTransfer, transfer
<1>2. 1 \in 1 .. MaxTransfer
  BY BoundsAssumption
<1> QED
  BY <1>0, <1>1, <1>2, Enqueued, CallbackEnded, PollFrame
     DEF Fine, Inv, RestSound

-----------------------------------------------------------------------------
(* Polls and the deadline                                                   *)

(* The row of a task that is not over moves, without a verdict.             *)
LEMMA MovesFine ==
    ASSUME Inv, row.status \notin BusinessTerminal, row' \in Row,
           row'.status # "succeeded",
           row'.raw \in {row.raw, "none", "running", truth},
           row'.ref = row.ref, row'.tries = row.tries,
           UNCHANGED <<truth, sent, xfer, mover, object>>
    PROVE  /\ RowSound' /\ TransferSound' /\ Stands
           /\ mover' = [w \in Movers |-> mover'[w]]
           /\ \A w \in Movers : MoverSound(w)'
<1>1. row.raw \in {"none", "running", truth}
  BY DEF Inv, RowSound
<1> QED
  BY <1>1, RowMoves

LEMMA PollCallFine ==
    ASSUME Inv, PollCall
    PROVE  Fine
<1>0. /\ row.status \in Polled
      /\ poll' = [at |-> "answered", seen |-> row.status, verdict |-> truth]
      /\ UNCHANGED <<source, truth, row, events, orphans, cb, doubts, sent, xfer,
                     mover, object>>
  BY DEF PollCall, world, reports, transfer
<1>1. PollSound'
  BY <1>0 DEF Inv, PollSound, RestSound, Polled, TaskStatus
<1> QED
  BY <1>0, <1>1, Unmoved, CallbacksFrame DEF Fine, Inv, RestSound

LEMMA PollAnswerFine ==
    ASSUME Inv, PollRunning \/ PollUnreadable
    PROVE  Fine
<1>0. /\ poll.at = "answered" /\ poll' = NotPolling
      /\ UNCHANGED <<source, truth, events, orphans, cb, sent, xfer, mover,
                     object>>
      /\ doubts' \in {doubts, doubts + 1}
      /\ \/ row' = row
         \/ /\ row.status = poll.seen
            /\ \/ row' = [row EXCEPT !.status = "in_progress", !.raw = "running",
                                     !.due = TRUE]
               \/ row' = [row EXCEPT !.status = "poll_unrecognized",
                                     !.raw = "none", !.due = TRUE]
  BY DEF PollRunning, PollUnreadable, IfStill, world, reports, transfer
<1>1. /\ RowSound' /\ TransferSound' /\ Stands
      /\ mover' = [w \in Movers |-> mover'[w]]
      /\ \A w \in Movers : MoverSound(w)'
  <2>1. CASE row' = row
    BY <1>0, <2>1, Unmoved
  <2>2. CASE row' # row
    <3>1. row.status \notin BusinessTerminal
      BY <1>0, <2>2, Terminal DEF Inv, PollSound
    <3>2. /\ row' \in Row /\ row'.status # "succeeded"
          /\ row'.raw \in {"none", "running"} /\ row'.ref = row.ref
          /\ row'.tries = row.tries
      BY <1>0, <2>2 DEF Inv, RowSound, Row, TaskStatus, Natives
    <3> QED
      BY <1>0, <3>1, <3>2, MovesFine
  <2> QED
    BY <2>1, <2>2
<1> QED
  BY <1>0, <1>1, CallbacksFrame, PollEnded DEF Fine, Inv, RestSound

LEMMA PollVerdictFine ==
    ASSUME Inv, PollVerdict
    PROVE  Fine
<1>0. /\ poll.at = "answered" /\ poll.verdict \in Verdicts
      /\ UNCHANGED <<source, truth, events, orphans, cb, doubts, sent, xfer,
                     mover, object>>
  BY DEF PollVerdict, world, reports, transfer
<1>1. PICK dst : /\ dst = Mapped(poll.verdict)
                    \/ (poll.verdict = "failed" /\ dst = "dead")
                 /\ IF CanTransition(poll.seen, dst)
                    THEN IfStill(poll.seen, Settled(dst, poll.verdict, TRUE))
                    ELSE UNCHANGED row
                 /\ poll' = IF dst = "succeeded" /\ row.status = poll.seen
                            THEN [NotPolling EXCEPT !.at = "finalize"]
                            ELSE NotPolling
  <2>1. poll.verdict = "failed" => Mapped(poll.verdict) = "failed"
    BY DEF Mapped
  <2> QED
    BY <2>1 DEF PollVerdict
<1>2. poll.verdict = truth /\ poll.seen \in Polled
      /\ poll.seen \notin BusinessTerminal
  BY <1>0, Terminal DEF Inv, PollSound, Verdicts
<1>3. dst \in TaskStatus /\ (dst = "succeeded" => CanTransition(poll.seen, dst))
  BY <1>0, <1>1, <1>2 DEF Mapped, Verdicts, TaskStatus, Polled, CanTransition,
     AllowedTargets
<1>4. row' = row \/ (row.status = poll.seen /\ row' = Settled(dst, poll.verdict, TRUE))
  BY <1>1 DEF IfStill
<1>5. /\ RowSound' /\ TransferSound' /\ Stands
      /\ mover' = [w \in Movers |-> mover'[w]]
      /\ \A w \in Movers : MoverSound(w)'
  BY <1>0, <1>1, <1>2, <1>3, <1>4, Unmoved, SettledSound
<1>6. PollSound'
  <2>1. CASE poll' = NotPolling
    BY <2>1, PollEnded
  <2>2. CASE /\ dst = "succeeded" /\ row.status = poll.seen
             /\ poll' = [NotPolling EXCEPT !.at = "finalize"]
    <3>1. poll' = [at |-> "finalize", seen |-> "accepted", verdict |-> "running"]
      BY <2>2 DEF NotPolling
    <3>2. row' = Settled(dst, poll.verdict, TRUE)
      BY <1>1, <1>3, <2>2 DEF IfStill
    <3>3. row'.status = "succeeded"
      BY <2>2, <3>2 DEF Inv, RowSound, Settled, Row
    <3> QED
      BY <3>1, <3>3 DEF PollSound, TaskStatus, Natives
  <2> QED
    BY <1>1, <2>1, <2>2
<1> QED
  BY <1>0, <1>5, <1>6, CallbacksFrame DEF Fine, Inv, RestSound

LEMMA PollFinalizeFine ==
    ASSUME Inv, PollFinalize
    PROVE  Fine
<1>0. /\ row.status = "succeeded" /\ poll' = NotPolling
      /\ UNCHANGED <<source, truth, row, events, orphans, cb, doubts, mover,
                     object>>
      /\ (xfer' = xfer \cup {1} /\ sent' = TRUE) \/ UNCHANGED <<xfer, sent>>
  BY DEF PollFinalize, Inv, PollSound, world, reports
<1>1. 1 \in 1 .. MaxTransfer
  BY BoundsAssumption
<1> QED
  BY <1>0, <1>1, Enqueued, CallbacksFrame, PollEnded DEF Fine, Inv, RestSound

LEMMA OtherFine ==
    ASSUME Inv, MarkSubmitted \/ Stalls \/ Confirmed \/ TimesOut
    PROVE  Fine
<1>0. /\ UNCHANGED <<source, truth, events, orphans, cb, poll, sent, xfer, mover,
                     object>>
      /\ doubts' \in {doubts, doubts + 1}
  BY DEF MarkSubmitted, Stalls, Confirmed, TimesOut, world, reports, transfer
<1>1. row.status \notin BusinessTerminal
  <2>1. CASE TimesOut
    BY <2>1, Terminal DEF TimesOut
  <2>2. CASE MarkSubmitted \/ Stalls \/ Confirmed
    BY <2>2 DEF MarkSubmitted, Stalls, Confirmed, BusinessTerminal,
       InternalTerminal
  <2> QED
    BY <2>1, <2>2
<1>2. /\ row' \in Row /\ row'.status # "succeeded"
      /\ row'.raw \in {row.raw, "none", "running", truth}
      /\ row'.ref = row.ref /\ row'.tries = row.tries
  <2>1. CASE MarkSubmitted
    <3>1. PICK native \in {"none", "running", truth} :
             row' = [row EXCEPT !.status = "upstream_submitted", !.uid = TRUE,
                                !.raw = native, !.due = TRUE]
      BY <2>1 DEF MarkSubmitted
    <3>2. native \in Natives \cup {"none"} /\ row \in Row
      BY <3>1 DEF Inv, RowSound, RestSound, Natives
    <3> QED
      BY <3>1, <3>2 DEF Row, TaskStatus
  <2>2. CASE Stalls \/ Confirmed \/ TimesOut
    BY <2>2 DEF Inv, RowSound, Row, TaskStatus, Stalls, Confirmed, TimesOut
  <2> QED
    BY <2>1, <2>2
<1>3. /\ RowSound' /\ TransferSound' /\ Stands
      /\ mover' = [w \in Movers |-> mover'[w]]
      /\ \A w \in Movers : MoverSound(w)'
  BY <1>0, <1>1, <1>2, MovesFine
<1> QED
  BY <1>0, <1>3, CallbacksFrame, PollFrame DEF Fine, Inv, RestSound

LEMMA UpstreamFine ==
    ASSUME Inv, NEW v \in Verdicts, UpstreamEnds(v)
    PROVE  Fine
<1>0. /\ truth = "running" /\ truth' = v
      /\ UNCHANGED <<source, row, events, orphans, cb, poll, doubts, sent, xfer,
                     mover, object>>
  BY DEF UpstreamEnds, reports, transfer
<1>1. RowSound'
  BY <1>0 DEF Inv, RowSound
<1>2. \A c \in Callbacks : CallbackSound(c)'
  BY <1>0 DEF Inv, CallbackSound
<1>3. PollSound'
  BY <1>0 DEF Inv, PollSound
<1>4. TransferSound' /\ \A w \in Movers : MoverSound(w)'
  BY <1>0 DEF Inv, TransferSound, MoverSound, TransferNotForgotten, Moves
<1> QED
  BY <1>0, <1>1, <1>2, <1>3, <1>4
     DEF Fine, Inv, RestSound, Stands, Verdicts, Natives

-----------------------------------------------------------------------------
(* The transfer                                                             *)

(* What a transfer step leaves alone is sound after it.                     *)
LEMMA TransferFrame ==
    ASSUME Inv, UNCHANGED <<source, truth, events, orphans, cb, poll, doubts>>,
           row'.status = row.status, row'.raw = row.raw,
           RowSound', TransferSound', mover' = [w \in Movers |-> mover'[w]],
           \A w \in Movers : MoverSound(w)'
    PROVE  Fine
<1>1. Stands
  BY DEF Stands
<1> QED
  BY <1>1, CallbacksFrame, PollFrame DEF Fine, Inv, RestSound

(* The worker that moves, and the others.                                   *)
LEMMA MoverFrame ==
    ASSUME Inv, NEW w \in Movers, mover[w].at # "idle" \/ row.status = "succeeded",
           NEW m \in [at : {"idle", "fetch", "put", "commit"},
                      attempt : 0 .. MaxTransfer],
           mover' = [mover EXCEPT ![w] = m],
           m.at # "idle" => m.attempt \in 1 .. MaxTransfer,
           m.at = "commit" => object' # "none",
           row'.status = row.status, object # "none" => object' # "none"
    PROVE  /\ mover' = [v \in Movers |-> mover'[v]] /\ mover'[w] = m
           /\ \A v \in Movers : v # w => mover'[v] = mover[v]
           /\ \A v \in Movers : MoverSound(v)'
<1>1. /\ mover' = [v \in Movers |-> mover'[v]] /\ mover'[w] = m
      /\ \A v \in Movers : v # w => mover'[v] = mover[v]
  BY DEF Inv
<1>2. row.status = "succeeded"
  BY DEF Inv, MoverSound
<1>3. MoverSound(w)'
  BY <1>1, <1>2 DEF MoverSound
<1>4. \A v \in Movers : v # w => MoverSound(v)'
  BY <1>1 DEF Inv, MoverSound
<1> QED
  BY <1>1, <1>3, <1>4

LEMMA TakeFine ==
    ASSUME Inv, NEW w \in Movers, NEW a \in 1 .. MaxTransfer, TransferTake(w, a)
    PROVE  Fine
<1>0. /\ a \in xfer /\ xfer' = xfer \ {a}
      /\ UNCHANGED <<source, truth, row, events, orphans, cb, poll, doubts, sent,
                     object>>
  BY DEF TransferTake, world, reports
<1>1. row.status = "succeeded"
  BY <1>0 DEF Inv, TransferSound
<1>2. RowSound'
  BY <1>0 DEF Inv, RowSound
<1>3. CASE row.ref /\ mover' = mover
  <2>1. TransferSound'
    BY <1>0, <1>1, <1>3 DEF Inv, TransferSound, TransferNotForgotten
  <2>2. \A v \in Movers : MoverSound(v)'
    BY <1>0, <1>3 DEF Inv, MoverSound
  <2> QED
    BY <1>0, <1>2, <1>3, <2>1, <2>2, TransferFrame DEF Inv
<1>4. CASE mover' = [mover EXCEPT ![w] = [at |-> "fetch", attempt |-> a]]
  <2>1. PICK m : /\ m = [at |-> "fetch", attempt |-> a]
                 /\ mover' = [mover EXCEPT ![w] = m]
    BY <1>4
  <2>2. /\ m \in [at : {"idle", "fetch", "put", "commit"},
                  attempt : 0 .. MaxTransfer]
        /\ m.at = "fetch" /\ m.attempt = a
    BY <2>1, BoundsAssumption
  <2>3. /\ mover' = [v \in Movers |-> mover'[v]] /\ mover'[w] = m
        /\ \A v \in Movers : MoverSound(v)'
    BY <1>0, <1>1, <2>1, <2>2, MoverFrame
  <2>4. TransferSound'
    BY <1>0, <1>1, <2>2, <2>3 DEF Inv, TransferSound, TransferNotForgotten, Moves
  <2> QED
    BY <1>0, <1>2, <2>3, <2>4, TransferFrame
<1> QED
  BY <1>3, <1>4 DEF TransferTake

(* A worker gives up, for now or for good, is done or dies: what is left    *)
(* behind must keep the transfer from being forgotten.                      *)
LEMMA MoverEndsFine ==
    ASSUME Inv, NEW w \in Movers, mover[w].at # "idle", MoverEnds(w),
           row' \in Row, row'.status = row.status, row'.raw = row.raw,
           row'.tries < MaxTransfer,
           row.ref => row' = row,
           row'.ref => object # "none" /\ ~row'.degraded,
           xfer' \subseteq 1 .. MaxTransfer,
           row'.ref \/ row'.degraded \/ row'.due \/ xfer' # {},
           UNCHANGED <<source, truth, events, orphans, cb, poll, doubts, sent,
                       object>>
    PROVE  Fine
<1>1. PICK m : /\ m = [at |-> "idle", attempt |-> 0]
               /\ mover' = [mover EXCEPT ![w] = m]
  BY DEF MoverEnds
<1>2. /\ m \in [at : {"idle", "fetch", "put", "commit"},
                attempt : 0 .. MaxTransfer]
      /\ m.at = "idle"
  BY <1>1, BoundsAssumption
<1>3. /\ mover' = [v \in Movers |-> mover'[v]]
      /\ \A v \in Movers : MoverSound(v)'
  BY <1>1, <1>2, MoverFrame
<1>4. row.status = "succeeded"
  BY DEF Inv, MoverSound
<1>5. RowSound'
  BY <1>4 DEF Inv, RowSound
<1>6. TransferSound'
  BY <1>4 DEF Inv, TransferSound, TransferNotForgotten
<1> QED
  BY <1>3, <1>5, <1>6, TransferFrame

LEMMA EndsFine ==
    ASSUME Inv, NEW w \in Movers,
           TransferRetry(w) \/ TransferGiveUp(w) \/ TransferCommit(w)
    PROVE  Fine
<1>0. /\ MoverEnds(w) /\ mover[w].at # "idle"
      /\ UNCHANGED <<source, truth, events, orphans, cb, poll, doubts, sent, xfer,
                     object>>
  BY DEF TransferRetry, TransferGiveUp, TransferCommit, Moves, world, reports
<1>1. /\ row \in Row /\ xfer \subseteq 1 .. MaxTransfer
      /\ mover[w].attempt \in 1 .. MaxTransfer /\ MaxTransfer \in Nat
      /\ row.tries < MaxTransfer
      /\ row.ref => object # "none" /\ ~row.degraded
      /\ mover[w].at = "commit" => object # "none"
  BY <1>0, BoundsAssumption DEF Inv, RowSound, TransferSound, MoverSound
<1>2. CASE row.ref
  <2>1. row' = row
    BY <1>2 DEF TransferRetry, TransferGiveUp, TransferCommit
  <2> QED
    BY <1>0, <1>1, <1>2, <2>1, MoverEndsFine
<1>3. CASE ~row.ref /\ TransferRetry(w)
  <2>1. /\ mover[w].attempt < MaxTransfer
        /\ row' = [row EXCEPT !.due = TRUE, !.tries = mover[w].attempt]
    BY <1>3 DEF TransferRetry
  <2>2. /\ row' \in Row /\ row'.status = row.status /\ row'.raw = row.raw
        /\ row'.tries < MaxTransfer /\ row'.due = TRUE /\ row'.ref = row.ref
    <3>1. PICK n \in Nat : n = mover[w].attempt
      BY <1>1
    <3>2. row' = [row EXCEPT !.due = TRUE, !.tries = n]
      BY <2>1, <3>1
    <3> QED
      BY <1>1, <2>1, <3>1, <3>2 DEF Row
  <2> QED
    BY <1>0, <1>1, <1>3, <2>2, MoverEndsFine
<1>4. CASE ~row.ref /\ TransferGiveUp(w)
  <2>1. row' = [row EXCEPT !.degraded = TRUE, !.due = FALSE]
    BY <1>4 DEF TransferGiveUp
  <2>2. /\ row' \in Row /\ row'.status = row.status /\ row'.raw = row.raw
        /\ row'.tries = row.tries /\ row'.degraded = TRUE /\ row'.ref = row.ref
    BY <1>1, <2>1 DEF Row
  <2> QED
    BY <1>0, <1>1, <1>4, <2>2, MoverEndsFine
<1>5. CASE ~row.ref /\ TransferCommit(w)
  <2>1. /\ mover[w].at = "commit"
        /\ row' = [row EXCEPT !.ref = TRUE, !.degraded = FALSE]
    BY <1>5 DEF TransferCommit, Moves
  <2>2. /\ row' \in Row /\ row'.status = row.status /\ row'.raw = row.raw
        /\ row'.tries = row.tries /\ row'.degraded = FALSE /\ row'.ref = TRUE
    BY <1>1, <2>1 DEF Row
  <2> QED
    BY <1>0, <1>1, <1>5, <2>1, <2>2, MoverEndsFine
<1> QED
  BY <1>2, <1>3, <1>4, <1>5

LEMMA CrashFine ==
    ASSUME Inv, NEW w \in Movers, TransferCrash(w)
    PROVE  Fine
<1>0. /\ MoverEnds(w) /\ mover[w].at # "idle"
      /\ xfer' = xfer \cup {mover[w].attempt}
      /\ UNCHANGED <<source, truth, row, events, orphans, cb, poll, doubts, sent,
                     object>>
  BY DEF TransferCrash, Moves, world, reports
<1>1. /\ row \in Row /\ row.tries < MaxTransfer
      /\ row.ref => object # "none" /\ ~row.degraded
      /\ xfer' \subseteq 1 .. MaxTransfer /\ xfer' # {}
  BY <1>0 DEF Inv, RowSound, TransferSound, MoverSound
<1> QED
  BY <1>0, <1>1, MoverEndsFine

LEMMA WorkFine ==
    ASSUME Inv, NEW w \in Movers, TransferFetched(w) \/ TransferPut(w)
    PROVE  Fine
<1>0. /\ mover[w].at # "idle"
      /\ UNCHANGED <<source, truth, row, events, orphans, cb, poll, doubts, sent,
                     xfer>>
      /\ \/ MoverTo(w, "put") /\ object' = object
         \/ MoverTo(w, "commit") /\ object' = "stored"
  BY DEF TransferFetched, TransferPut, Moves, world, reports
<1>1. /\ mover[w] \in [at : {"idle", "fetch", "put", "commit"},
                       attempt : 0 .. MaxTransfer]
      /\ mover[w].attempt \in 1 .. MaxTransfer /\ row.status = "succeeded"
  BY <1>0 DEF Inv, MoverSound
<1>2. PICK place \in {"put", "commit"} :
         /\ mover' = [mover EXCEPT ![w].at = place]
         /\ place = "put" => object' = object
         /\ place = "commit" => object' = "stored"
  BY <1>0 DEF MoverTo
<1>3. PICK m : /\ m = [mover[w] EXCEPT !.at = place]
               /\ mover' = [mover EXCEPT ![w] = m]
  BY <1>2
<1>4. /\ m \in [at : {"idle", "fetch", "put", "commit"},
                attempt : 0 .. MaxTransfer]
      /\ m.at = place /\ m.attempt = mover[w].attempt
  BY <1>1, <1>3
<1>5. /\ mover' = [v \in Movers |-> mover'[v]] /\ mover'[w] = m
      /\ \A v \in Movers : MoverSound(v)'
  BY <1>0, <1>1, <1>2, <1>3, <1>4, MoverFrame
<1>6. RowSound'
  BY <1>0, <1>2 DEF Inv, RowSound
<1>7. TransferSound'
  BY <1>0, <1>1, <1>2, <1>4, <1>5
     DEF Inv, TransferSound, TransferNotForgotten, Moves
<1> QED
  BY <1>0, <1>5, <1>6, <1>7, TransferFrame

LEMMA DispatchFine ==
    ASSUME Inv, DispatchPending
    PROVE  Fine
<1>0. /\ row.status = "succeeded" /\ sent' = TRUE
      /\ UNCHANGED <<source, truth, row, events, orphans, cb, poll, doubts, mover,
                     object>>
  BY DEF DispatchPending, PendingTransfer, world, reports
<1>1. \E a \in 1 .. MaxTransfer : xfer' = xfer \cup {a}
  BY BoundsAssumption DEF DispatchPending, Inv, RowSound, Row
<1> QED
  BY <1>0, <1>1, Enqueued, TransferFrame

LEMMA PurgeFine ==
    ASSUME Inv, ObjectPurged
    PROVE  Fine
<1>0. /\ object' = "purged"
      /\ UNCHANGED <<source, truth, row, events, orphans, cb, poll, doubts, sent,
                     xfer, mover>>
  BY DEF ObjectPurged, world, reports
<1>1. RowSound' /\ TransferSound' /\ \A w \in Movers : MoverSound(w)'
  BY <1>0 DEF Inv, RowSound, TransferSound, MoverSound, TransferNotForgotten,
     Moves
<1> QED
  BY <1>0, <1>1, TransferFrame DEF Inv

-----------------------------------------------------------------------------
LEMMA InitInv == Init => Inv
<1> SUFFICES ASSUME Init PROVE Inv
  OBVIOUS
<1>1. RowSound
  BY BoundsAssumption DEF Init, RowSound, Row, TaskStatus, Natives
<1>2. PollSound
  BY DEF Init, PollSound, NotPolling, TaskStatus, Natives
<1>3. TransferSound /\ RestSound
  BY BoundsAssumption DEF Init, TransferSound, TransferNotForgotten, RestSound,
     Natives
<1>4. AtRest \in [at : {"idle", "load", "apply", "finalize"},
                  report : Reports, seen : Seen]
      /\ AtRest.report.status = "running" /\ AtRest.at = "idle"
  BY BoundsAssumption DEF AtRest, NoReport, NotSeen, Reports, Natives, Seen,
     TaskStatus
<1>5. cb = [c \in Callbacks |-> cb[c]] /\ \A c \in Callbacks : CallbackSound(c)
  BY <1>4 DEF Init, CallbackSound
<1>6. mover = [w \in Movers |-> mover[w]] /\ \A w \in Movers : MoverSound(w)
  BY BoundsAssumption DEF Init, MoverSound
<1> QED
  BY <1>1, <1>2, <1>3, <1>5, <1>6 DEF Inv

LEMMA NextFine == Inv /\ [Next]_vars => Fine
<1> SUFFICES ASSUME Inv, [Next]_vars PROVE Fine
  OBVIOUS
<1>1. CASE UNCHANGED vars
  BY <1>1, Unmoved, CallbacksFrame, PollFrame DEF vars, Fine, Inv, RestSound
<1>2. ASSUME NEW c \in Callbacks, CallbackStep(c) PROVE Fine
  BY <1>2, ReceiveFine, ApplyLoadFine, ProgressFine, ArbitrateFine, VerdictFine,
     FinalizeFine DEF CallbackStep
<1>3. CASE TaskStep
  BY <1>3, PollCallFine, PollAnswerFine, PollVerdictFine, PollFinalizeFine,
     OtherFine, UpstreamFine DEF TaskStep
<1>4. ASSUME NEW w \in Movers, TransferWork(w) PROVE Fine
  BY <1>4, TakeFine, EndsFine, WorkFine DEF TransferWork
<1> QED
  BY <1>1, <1>2, <1>3, <1>4, OrphanFine, CrashFine, DispatchFine, PurgeFine
     DEF Next

LEMMA Invariance == Spec => []Inv
<1>1. Inv /\ [Next]_vars => Inv'
  BY NextFine DEF Fine
<1> QED
  BY <1>1, InitInv, PTL DEF Spec

(* Every variable keeps its type; in particular a transfer is never tried   *)
(* under a number above MAX_TRANSFER_ATTEMPTS (handlers.py:1050).           *)
THEOREM TypeCorrect == Spec => []TypeOK
<1>1. Inv => TypeOK
  BY DEF Inv, TypeOK, RowSound, PollSound, TransferSound, RestSound,
     CallbackSound, MoverSound
<1> QED
  BY <1>1, Invariance, PTL

(* However late, often and out of order reports and polls arrive, and       *)
(* whatever the answer to the create call says, a task that is over is      *)
(* shown as over and a verdict that is shown is the upstream's, or the      *)
(* gateway's own end of the task (_effective_status_value, output.py:157).  *)
THEOREM ShownTrue == Spec => []ShownIsVerdict
<1>1. Inv => ShownIsVerdict
  <2> SUFFICES ASSUME Inv PROVE ShownIsVerdict
    OBVIOUS
  <2>1. /\ row.raw \in {"none", "running", truth}
        /\ row.status = "succeeded" => truth = "succeeded"
    BY DEF Inv, RowSound
  <2>2. CASE row.status = "succeeded"
    BY <2>1, <2>2 DEF ShownIsVerdict, ShownStatus, Verdicts
  <2>3. CASE row.status \in BusinessTerminal \ {"succeeded"}
    <3>1. \/ ShownStatus = "failed"
          \/ ShownStatus = "expired" /\ row.raw = "expired"
      BY <2>3 DEF ShownStatus
    <3> QED
      BY <2>1, <2>3, <3>1 DEF ShownIsVerdict, Verdicts
  <2>4. CASE row.status \notin BusinessTerminal
    <3>1. ShownStatus = "queued" \/ ShownStatus = row.raw
      BY <2>4, Terminal DEF ShownStatus
    <3> QED
      BY <2>1, <2>4, <3>1 DEF ShownIsVerdict
  <2> QED
    BY <2>2, <2>3, <2>4
<1> QED
  BY <1>1, Invariance, PTL

(* What is shown of a task that is over stands, whatever callbacks and      *)
(* polls are still under way (the conditional writes of dao.py).            *)
THEOREM VerdictStands == Spec => ShownStands
<1>1. Inv /\ [Next]_vars =>
         [row.status \in BusinessTerminal => ShownStatus' = ShownStatus]_vars
  <2> SUFFICES ASSUME Inv, [Next]_vars, row.status \in BusinessTerminal
               PROVE  ShownStatus' = ShownStatus
    OBVIOUS
  <2>1. row'.status = row.status /\ row'.raw = row.raw
    BY NextFine DEF Fine, Stands
  <2> QED
    BY <2>1 DEF ShownStatus
<1> QED
  BY <1>1, Invariance, PTL DEF Spec, ShownStands

(* A result reference has its object, and a result that is shown is not     *)
(* declared missing at the same time, whichever of the transfer workers was *)
(* last (set_result_ref, mark_result_unavailable, dao.py).                  *)
THEOREM ResultThere == Spec => []RefHasObject
<1>1. Inv => RefHasObject
  BY DEF Inv, RowSound, RefHasObject, ShownResult, PresignedResultUrl,
     DegradedNotices
<1> QED
  BY <1>1, Invariance, PTL

(* No transfer that was enqueued is forgotten, whichever worker dies.       *)
THEOREM NotForgotten == Spec => []TransferNotForgotten
<1>1. Inv => TransferNotForgotten
  BY DEF Inv, TransferSound
<1> QED
  BY <1>1, Invariance, PTL

=============================================================================
