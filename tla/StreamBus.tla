------------------------------ MODULE StreamBus ------------------------------
(***************************************************************************)
(* One queue of the message bus: a Redis stream with one consumer group,   *)
(* the processes that put messages into it, and the workers that read it.  *)
(*                                                                         *)
(* Entries are numbered in the order of XADD.  The stream holds the        *)
(* entries first .. last; the group has handed out those up to delivered;  *)
(* an entry handed out and not acknowledged is pending, with an owner.     *)
(* A worker takes a batch, handles it in order, and acknowledges a message *)
(* after its handler has returned; messages whose handler raised, or whose *)
(* worker died, stay pending until somebody claims them.  The count of     *)
(* deliveries is never set on a message, so the branch to the dead-letter  *)
(* stream is never taken and is not modelled: a message whose handler      *)
(* always raises is claimed and raises again for ever.                     *)
(***************************************************************************)
EXTENDS Naturals, FiniteSets

CONSTANTS
    Producers,   \* processes that enqueue
    Workers,     \* processes that consume
    NoOne,       \* the owner of an entry that is not pending
    MaxDepth,    \* queue_max_depth
    Batch,       \* count of XREADGROUP
    Total,       \* bound of the model on the number of entries
    Poison       \* messages whose handler raises every time

ASSUME NoOneAssumption == NoOne \notin Workers
ASSUME DepthAssumption ==
    /\ MaxDepth \in Nat /\ Batch \in Nat \ {0} /\ Total \in Nat
ASSUME PoisonAssumption == Poison \subseteq 1 .. Total
(* The depth limit is far above the number of processes.                    *)
ASSUME ProducersAssumption ==
    /\ IsFiniteSet(Producers) /\ Producers # {}
    /\ Cardinality(Producers) <= MaxDepth

VARIABLES
    first,      \* the oldest entry of the stream
    last,       \* the newest one
    delivered,  \* last-delivered-id of the consumer group
    owner,      \* the pending entries list
    hand,       \* what is left of each worker's batch
    ending,     \* the message a worker has handled and not yet acknowledged
    checked,    \* producers that passed the depth check
    handled     \* messages a handler has returned from

stream == <<first, last>>
vars == <<first, last, delivered, owner, hand, ending, checked, handled>>

Ids == 1 .. Total
None == 0
Depth == (last + 1) - first
Pending == {i \in Ids : owner[i] # NoOne}

Init ==
    /\ first = 1 /\ last = 0 /\ delivered = 0
    /\ owner = [i \in Ids |-> NoOne]
    /\ hand = [w \in Workers |-> {}]
    /\ ending = [w \in Workers |-> None]
    /\ checked = {} /\ handled = {}

-----------------------------------------------------------------------------
(* Faulty variant: the depth is not looked at.                              *)
EnqueueUnchecked(p) ==
    /\ p \notin checked
    /\ checked' = checked \cup {p}
    /\ UNCHANGED <<stream, delivered, owner, hand, ending, handled>>

(* enqueue reads the depth in one call to Redis (and raises QueueSaturated, *)
(* which changes nothing, if the queue is full) ...                         *)
EnqueueCheck(p) ==
    /\ p \notin checked /\ Depth < MaxDepth
    /\ checked' = checked \cup {p}
    /\ UNCHANGED <<stream, delivered, owner, hand, ending, handled>>

(* ... and adds the entry in another.  XADD may trim the oldest entries as  *)
(* long as it leaves 2 * max_depth.                                         *)
EnqueueAdd(p) ==
    /\ p \in checked /\ last < Total
    /\ checked' = checked \ {p}
    /\ last' = last + 1
    /\ first' \in {f \in first .. last' :
                      f # first => (last' + 1) - f >= 2 * MaxDepth}
    /\ UNCHANGED <<delivered, owner, hand, ending, handled>>

Free(w) == hand[w] = {} /\ ending[w] = None

(* Faulty variant: the group's position runs past the newest entry.         *)
ConsumePast(w) ==
    /\ Free(w) /\ delivered < last
    /\ delivered' = delivered + Batch
    /\ hand' = [hand EXCEPT ![w] = delivered + 1 .. last]
    /\ owner' = [i \in Ids |-> IF i \in hand'[w] THEN w ELSE owner[i]]
    /\ UNCHANGED <<stream, ending, checked, handled>>

(* consume: the next entries nobody was given yet, at most Batch of them.   *)
Consume(w) ==
    /\ Free(w) /\ delivered < last
    /\ LET from == IF first > delivered THEN first ELSE delivered + 1
           upto == IF from + Batch <= last THEN from + Batch - 1 ELSE last
       IN /\ delivered' = upto
          /\ hand' = [hand EXCEPT ![w] = from .. upto]
          /\ owner' = [i \in Ids |-> IF i \in from .. upto THEN w ELSE owner[i]]
    /\ UNCHANGED <<stream, ending, checked, handled>>

(* Faulty variant: what the list of pending entries said a while ago is     *)
(* claimed, acknowledged since or not (XCLAIM ... FORCE).                   *)
ClaimForced(w, idle) ==
    /\ Free(w) /\ idle # {} /\ idle \subseteq 1 .. delivered
    /\ hand' = [hand EXCEPT ![w] = idle]
    /\ owner' = [i \in Ids |-> IF i \in idle THEN w ELSE owner[i]]
    /\ UNCHANGED <<stream, delivered, ending, checked, handled>>

(* claim_stale: pending entries that were idle for a minute, whoever owns   *)
(* them; entries no longer in the stream are passed over.                   *)
ClaimStale(w, idle) ==
    /\ Free(w) /\ idle # {} /\ idle \subseteq Pending
    /\ LET got == {i \in idle : i >= first}
       IN /\ hand' = [hand EXCEPT ![w] = got]
          /\ owner' = [i \in Ids |-> IF i \in got THEN w ELSE owner[i]]
    /\ UNCHANGED <<stream, delivered, ending, checked, handled>>

(* The next message of the batch.                                           *)
Turn(w, i) == /\ ending[w] = None /\ i \in hand[w]
              /\ \A j \in hand[w] : i <= j

Handle(w, i) ==
    /\ Turn(w, i) /\ i \notin Poison
    /\ hand' = [hand EXCEPT ![w] = @ \ {i}]
    /\ ending' = [ending EXCEPT ![w] = i]
    /\ handled' = handled \cup {i}
    /\ UNCHANGED <<stream, delivered, owner, checked>>

(* Faulty variant: a message is acknowledged although its handler raised.   *)
HandlerRaisesAcked(w, i) ==
    /\ Turn(w, i)
    /\ hand' = [hand EXCEPT ![w] = @ \ {i}]
    /\ owner' = [owner EXCEPT ![i] = NoOne]
    /\ UNCHANGED <<stream, delivered, ending, checked, handled>>

(* Faulty variant: the message is tried again at once.                      *)
HandlerRaisesRetried(w, i) ==
    /\ Turn(w, i)
    /\ UNCHANGED vars

(* The handler raised: log it and go on with the next message.              *)
HandlerRaises(w, i) ==
    /\ Turn(w, i)
    /\ hand' = [hand EXCEPT ![w] = @ \ {i}]
    /\ UNCHANGED <<stream, delivered, owner, ending, checked, handled>>

Ack(w) ==
    /\ ending[w] # None
    /\ owner' = [owner EXCEPT ![ending[w]] = NoOne]
    /\ ending' = [ending EXCEPT ![w] = None]
    /\ UNCHANGED <<stream, delivered, hand, checked, handled>>

(* A worker dies and is started again.                                      *)
Crash(w) ==
    /\ ~Free(w)
    /\ hand' = [hand EXCEPT ![w] = {}]
    /\ ending' = [ending EXCEPT ![w] = None]
    /\ UNCHANGED <<stream, delivered, owner, checked, handled>>

(* A producer dies, or its request is given up, before the entry is added.  *)
GiveUp(p) ==
    /\ p \in checked
    /\ checked' = checked \ {p}
    /\ UNCHANGED <<stream, delivered, owner, hand, ending, handled>>

(* Nothing waits in the queue; workers read again and again.                *)
Drained == delivered = last /\ Pending = {}
Quiet == Drained /\ UNCHANGED vars

Next ==
    \/ \E p \in Producers : EnqueueCheck(p) \/ EnqueueAdd(p) \/ GiveUp(p)
    \/ \E w \in Workers :
          \/ Consume(w) \/ Ack(w) \/ Crash(w)
          \/ \E idle \in SUBSET Ids : ClaimStale(w, idle)
          \/ \E i \in Ids : Handle(w, i) \/ HandlerRaises(w, i)
    \/ Quiet

Spec == Init /\ [][Next]_vars

(* Workers stop dying at some time.  One that is up works through its       *)
(* batch, and reads and claims in turn; claim_stale takes all entries that  *)
(* are idle, so each of them.  Handlers of messages that are not poison do  *)
(* not raise every time.  Of poison nothing is assumed.                     *)
Work(w) == Ack(w) \/ \E i \in Ids : Handle(w, i) \/ HandlerRaises(w, i)

Fairness ==
    /\ <>[][\A w \in Workers : ~Crash(w)]_vars
    /\ \A w \in Workers : WF_vars(Work(w))
    /\ SF_vars(\E w \in Workers : Consume(w))
    /\ \A i \in Ids \ Poison :
          /\ SF_vars(\E w \in Workers, idle \in SUBSET Ids :
                        i \in idle /\ ClaimStale(w, idle))
          /\ SF_vars(\E w \in Workers : Handle(w, i))

FairSpec == Spec /\ Fairness

-----------------------------------------------------------------------------
(* Every variable keeps its type, and the group never runs ahead of the     *)
(* stream.                                                                  *)
TypeOK ==
    /\ first \in Nat \ {0} /\ last \in 0 .. Total /\ delivered \in 0 .. last
    /\ owner \in [Ids -> Workers \cup {NoOne}]
    /\ hand \in [Workers -> SUBSET Ids]
    /\ ending \in [Workers -> Ids \cup {None}]
    /\ checked \subseteq Producers
    /\ handled \subseteq Ids

(* At least once: a message put into the queue has been handled, or is      *)
(* still in the stream and either not handed out yet or pending, whatever   *)
(* crashes, raises or is claimed by two workers, and however often entries  *)
(* are added past the depth limit by producers that checked it together.    *)
NothingLost ==
    \A i \in 1 .. last :
        i \in handled \/ (i >= first /\ (i > delivered \/ owner[i] # NoOne))

(* The check and the XADD are two calls, so producers overshoot the limit,  *)
(* but by less than their number.                                           *)
DepthBounded == Depth < MaxDepth + Cardinality(Producers)

(* Poison holds nobody up: every message whose handler does not always      *)
(* raise is acknowledged in the end, although those that do are never dead- *)
(* lettered, stay pending, and are claimed and handed out again for ever,   *)
(* in one batch with the others.                                            *)
HealthyAcked ==
    \A i \in Ids \ Poison :
        (i <= last) ~> (i <= delivered /\ owner[i] = NoOne)

(* The entries that are not acknowledged, and the queue as its users see it.*)
Unacked == {i \in 1 .. last :
              i >= first /\ (i > delivered \/ owner[i] # NoOne)}

Queue == INSTANCE ReliableQueue WITH
            Messages <- Ids, put <- 1 .. last, kept <- Unacked, done <- handled

(* What enqueue, consume, claim_stale and ack do, together with raising     *)
(* handlers and dying workers, keeps a message until it was handled and     *)
(* never brings one back.                                                   *)
QueueKept == Queue!Spec

=============================================================================
