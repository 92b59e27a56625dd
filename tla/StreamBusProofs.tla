-------------------------- MODULE StreamBusProofs --------------------------
(***************************************************************************)
(* Proofs about StreamBus, for any number of producers, workers and        *)
(* messages: nothing put into a queue is lost, the queue never grows so    *)
(* long that Redis would trim it, and it is a ReliableQueue.               *)
(***************************************************************************)
EXTENDS StreamBus, FiniteSetTheorems, TLAPS

(* Entries plus producers about to add one: constant when an entry is       *)
(* added, and below this limit whenever a producer passes the check.        *)
Room == last + Cardinality(checked) < MaxDepth + Cardinality(Producers)

(* What a worker is about to acknowledge has been handled.                  *)
EndingHandled == \A w \in Workers : ending[w] # None => ending[w] \in handled

(* A message that was handed out and is not pending has been handled.       *)
Kept == \A i \in 1 .. last :
            i \in handled \/ i > delivered \/ owner[i] # NoOne

Inv == TypeOK /\ first = 1 /\ Room /\ EndingHandled /\ Kept

(* Sets of producers can be counted.                                        *)
LEMMA Counting ==
    ASSUME NEW S, S \subseteq Producers
    PROVE  /\ IsFiniteSet(S) /\ Cardinality(S) \in Nat
           /\ Cardinality(S) <= Cardinality(Producers)
           /\ Cardinality(Producers) \in Nat \ {0}
  BY ProducersAssumption, FS_Subset, FS_CardinalityType, FS_EmptySet

(* A queue that has never been used.                                        *)
LEMMA InitInv == Init => Inv
<1> SUFFICES ASSUME Init PROVE Inv
  OBVIOUS
<1>1. TypeOK
  BY DepthAssumption DEF Init, TypeOK, Ids, None
<1>2. Room
  BY Counting, FS_EmptySet, ProducersAssumption, DepthAssumption
     DEF Init, Room
<1>3. EndingHandled /\ Kept /\ first = 1
  BY DEF Init, EndingHandled, Kept
<1> QED
  BY <1>1, <1>2, <1>3 DEF Inv

(* A producer passes the check: others may have passed it too, but they are *)
(* at most all the others.                                                  *)
LEMMA CheckInv ==
    ASSUME Inv, NEW p \in Producers, EnqueueCheck(p)
    PROVE  Inv'
<1> USE DEF EnqueueCheck, stream
<1>1. TypeOK' /\ first' = 1 /\ EndingHandled' /\ Kept'
  BY DEF Inv, TypeOK, EndingHandled, Kept
<1>2. Cardinality(checked') <= Cardinality(Producers)
      /\ Cardinality(checked') \in Nat /\ Cardinality(Producers) \in Nat
  BY <1>1, Counting DEF TypeOK
<1>3. last < MaxDepth /\ last' = last /\ last \in Nat
  BY DepthAssumption DEF Inv, TypeOK, Depth
<1>4. Room'
  BY <1>2, <1>3, DepthAssumption DEF Room
<1> QED
  BY <1>1, <1>4 DEF Inv

(* A producer adds its entry: it takes up the room it had, and the stream   *)
(* is too short to be trimmed.                                              *)
LEMMA AddInv ==
    ASSUME Inv, NEW p \in Producers, EnqueueAdd(p)
    PROVE  Inv'
<1> USE DEF EnqueueAdd
<1>1. /\ IsFiniteSet(checked) /\ p \in checked
      /\ Cardinality(checked) \in Nat /\ Cardinality(Producers) \in Nat
  BY Counting DEF Inv, TypeOK
<1>2. Cardinality(checked') = Cardinality(checked) - 1
      /\ Cardinality(checked') \in Nat
  BY <1>1, FS_RemoveElement, FS_CardinalityType
<1>3. last \in Nat /\ last' = last + 1 /\ last' \in 0 .. Total
  BY DepthAssumption DEF Inv, TypeOK
<1>4. Room'
  BY <1>1, <1>2, <1>3, DepthAssumption DEF Inv, Room
<1>5. last + 1 < 2 * MaxDepth
  BY <1>1, <1>2, <1>3, ProducersAssumption, DepthAssumption DEF Inv, Room
<1>6. first' = 1
  <2>1. PICK f \in 1 .. last + 1 :
           f = first' /\ (f # 1 => (last + 2) - f >= 2 * MaxDepth)
    BY <1>3 DEF Inv
  <2>2. f \in Int /\ f >= 1 /\ 2 * MaxDepth \in Int
    BY <1>3, DepthAssumption
  <2>3. ~(f # 1)
    <3> DEFINE D == 2 * MaxDepth
    <3>1. D \in Int /\ last + 1 < D /\ (f # 1 => (last + 2) - f >= D)
      BY <2>1, <2>2, <1>5
    <3> HIDE DEF D
    <3> QED
      BY <3>1, <2>2, <1>3
  <2> QED
    BY <2>1, <2>3
<1>7. TypeOK'
  BY <1>3, <1>6, DepthAssumption DEF Inv, TypeOK
<1>8. EndingHandled' /\ Kept'
  BY <1>3, DepthAssumption DEF Inv, TypeOK, EndingHandled, Kept
<1> QED
  BY <1>4, <1>6, <1>7, <1>8 DEF Inv

(* A producer that does not come back leaves room.                          *)
LEMMA GiveUpInv ==
    ASSUME Inv, NEW p \in Producers, GiveUp(p)
    PROVE  Inv'
<1> USE DEF GiveUp, stream
<1>1. /\ IsFiniteSet(checked) /\ p \in checked
      /\ Cardinality(checked) \in Nat /\ Cardinality(Producers) \in Nat
  BY Counting DEF Inv, TypeOK
<1>2. Cardinality(checked') = Cardinality(checked) - 1
  BY <1>1, FS_RemoveElement
<1>3. Room'
  BY <1>1, <1>2, DepthAssumption DEF Inv, TypeOK, Room
<1>4. TypeOK' /\ first' = 1 /\ EndingHandled' /\ Kept'
  BY DEF Inv, TypeOK, EndingHandled, Kept
<1> QED
  BY <1>3, <1>4 DEF Inv

(* A worker reads a batch: every entry handed out gets an owner.            *)
LEMMA ConsumeInv ==
    ASSUME Inv, NEW w \in Workers, Consume(w)
    PROVE  Inv'
<1> DEFINE upto == IF (delivered + 1) + Batch <= last
                   THEN (delivered + 1) + Batch - 1 ELSE last
           got == delivered + 1 .. upto
<1>1. /\ first = 1 /\ last \in Nat /\ delivered \in Nat /\ Total \in Nat
      /\ delivered < last /\ last <= Total /\ Batch \in Nat \ {0}
  BY DepthAssumption DEF Inv, TypeOK, Consume
<1>2. /\ upto \in Nat /\ upto <= last /\ got \subseteq Ids
      /\ \A i \in 1 .. last : i > delivered => i \in got \/ i > upto
  BY <1>1 DEF Ids
<1>3. /\ delivered' = upto
      /\ hand' = [hand EXCEPT ![w] = got]
      /\ owner' = [i \in Ids |-> IF i \in got THEN w ELSE owner[i]]
      /\ UNCHANGED <<first, last, ending, checked, handled>>
  <2>1. (IF first > delivered THEN first ELSE delivered + 1) = delivered + 1
    BY <1>1
  <2> QED
    BY <2>1 DEF Consume, stream
<1> HIDE DEF upto, got
<1>4. TypeOK'
  BY <1>1, <1>2, <1>3 DEF Inv, TypeOK
<1>5. Kept'
  <2> SUFFICES ASSUME NEW i \in 1 .. last
               PROVE  i \in handled \/ i > upto \/ owner'[i] # NoOne
    BY <1>3 DEF Kept
  <2>1. i \in Ids /\ i \in Nat
    BY <1>1 DEF Ids
  <2>2. CASE i > delivered
    BY <2>1, <2>2, <1>2, <1>3, NoOneAssumption
  <2>3. CASE ~(i > delivered)
    BY <2>1, <2>3, <1>3, NoOneAssumption DEF Inv, Kept
  <2> QED
    BY <2>2, <2>3
<1> QED
  BY <1>3, <1>4, <1>5 DEF Inv, Room, EndingHandled

(* The other steps of a worker.  Only Ack takes an entry off the pending    *)
(* list, and what it takes off has been handled.                            *)
LEMMA WorkerInv ==
    ASSUME Inv, NEW w \in Workers,
           \/ Ack(w) \/ Crash(w)
           \/ \E idle \in SUBSET Ids : ClaimStale(w, idle)
           \/ \E i \in Ids : Handle(w, i) \/ HandlerRaises(w, i)
    PROVE  Inv'
<1> USE DEF stream
<1>0. /\ first = 1 /\ last \in 0 .. Total /\ 1 .. last \subseteq Ids
      /\ TypeOK /\ Room /\ EndingHandled /\ Kept
  BY DepthAssumption DEF Inv, TypeOK, Ids
<1>1. CASE Ack(w)
  <2> USE <1>1 DEF Ack
  <2>1. ending[w] \in handled /\ ending[w] \in Ids
    BY <1>0 DEF TypeOK, EndingHandled
  <2>2. TypeOK'
    BY <1>0, <2>1 DEF TypeOK
  <2>3. EndingHandled' /\ Room'
    BY <1>0 DEF TypeOK, EndingHandled, Room
  <2>4. Kept'
    BY <1>0, <2>1 DEF TypeOK, Kept
  <2> QED
    BY <1>0, <2>2, <2>3, <2>4 DEF Inv
<1>2. CASE Crash(w)
  BY <1>0, <1>2 DEF Crash, Inv, TypeOK, EndingHandled, Room, Kept
<1>3. ASSUME NEW idle \in SUBSET Ids, ClaimStale(w, idle)
      PROVE  Inv'
  <2>1. PICK got \in SUBSET Ids :
           /\ hand' = [hand EXCEPT ![w] = got]
           /\ owner' = [i \in Ids |-> IF i \in got THEN w ELSE owner[i]]
           /\ UNCHANGED <<first, last, delivered, ending, checked, handled>>
    BY <1>3 DEF ClaimStale
  <2>2. TypeOK'
    BY <1>0, <2>1 DEF TypeOK
  <2>3. Kept'
    BY <1>0, <2>1, NoOneAssumption DEF Kept
  <2> QED
    BY <1>0, <2>1, <2>2, <2>3 DEF Inv, Room, EndingHandled
<1>4. ASSUME NEW i \in Ids, Handle(w, i)
      PROVE  Inv'
  <2> USE <1>4 DEF Handle
  <2>1. TypeOK'
    BY <1>0 DEF TypeOK
  <2>2. EndingHandled' /\ Kept' /\ Room'
    BY <1>0 DEF TypeOK, EndingHandled, Kept, Room
  <2> QED
    BY <1>0, <2>1, <2>2 DEF Inv
<1>5. ASSUME NEW i \in Ids, HandlerRaises(w, i)
      PROVE  Inv'
  BY <1>0, <1>5 DEF HandlerRaises, Inv, TypeOK, EndingHandled, Room, Kept
<1> QED
  BY <1>1, <1>2, <1>3, <1>4, <1>5

(* Every step keeps Inv.                                                    *)
LEMMA NextInv == Inv /\ [Next]_vars => Inv'
<1> SUFFICES ASSUME Inv, [Next]_vars PROVE Inv'
  OBVIOUS
<1>1. CASE UNCHANGED vars
  BY <1>1 DEF vars, Inv, TypeOK, Room, EndingHandled, Kept
<1>2. CASE Quiet
  BY <1>1, <1>2 DEF Quiet
<1>3. CASE \E p \in Producers : EnqueueCheck(p) \/ EnqueueAdd(p) \/ GiveUp(p)
  BY <1>3, CheckInv, AddInv, GiveUpInv
<1>4. CASE \E w \in Workers : Consume(w)
  BY <1>4, ConsumeInv
<1>5. CASE \E w \in Workers :
              \/ Ack(w) \/ Crash(w)
              \/ \E idle \in SUBSET Ids : ClaimStale(w, idle)
              \/ \E i \in Ids : Handle(w, i) \/ HandlerRaises(w, i)
  BY <1>5, WorkerInv
<1> QED
  BY <1>1, <1>2, <1>3, <1>4, <1>5 DEF Next

(* Inv holds throughout.                                                    *)
LEMMA Invariance == Spec => []Inv
  BY InitInv, NextInv, PTL DEF Spec

(* Types: first, delivered and last stay in order, and every message in a   *)
(* worker's hands or pending has an id that enqueue has given out.          *)
THEOREM TypeCorrect == Spec => []TypeOK
<1>1. Inv => TypeOK
  BY DEF Inv
<1> QED
  BY <1>1, Invariance, PTL

(* At-least-once delivery: a message in a queue is handled or stays to be   *)
(* handled, because the worker acknowledges after the handler returns and   *)
(* because check-then-add races never fill the stream to where XADD trims.  *)
THEOREM AtLeastOnce == Spec => []NothingLost
<1>1. Inv => NothingLost
  BY DepthAssumption DEF Inv, TypeOK, Kept, NothingLost
<1> QED
  BY <1>1, Invariance, PTL

(* The depth limit is overshot by less than the number of producers, though *)
(* enqueue checks it in one call and adds the entry in another.             *)
THEOREM BoundedDepth == Spec => []DepthBounded
<1>1. Inv => DepthBounded
  <2> SUFFICES ASSUME Inv PROVE DepthBounded
    OBVIOUS
  <2>1. Cardinality(checked) \in Nat /\ Cardinality(Producers) \in Nat
    BY Counting DEF Inv, TypeOK
  <2> QED
    BY <2>1, DepthAssumption DEF Inv, TypeOK, Room, DepthBounded, Depth
<1> QED
  BY <1>1, Invariance, PTL

-----------------------------------------------------------------------------
(* The queue as its users see it                                            *)

(* What workers hold, are done with or own has been handed out.             *)
HandedOut ==
    /\ \A w \in Workers : /\ hand[w] \subseteq 1 .. delivered
                          /\ ending[w] # None => ending[w] \in 1 .. delivered
    /\ Pending \subseteq 1 .. delivered

(* A batch starts where the last one ended.                                 *)
LEMMA Batches ==
    ASSUME Inv, NEW w \in Workers, Consume(w)
    PROVE  \E upto \in Nat :
              /\ upto > delivered /\ upto <= last /\ delivered' = upto
              /\ hand' = [hand EXCEPT ![w] = delivered + 1 .. upto]
              /\ owner' = [i \in Ids |-> IF i \in delivered + 1 .. upto
                                         THEN w ELSE owner[i]]
              /\ UNCHANGED <<last, ending, handled>>
<1>1. /\ first = 1 /\ last \in Nat /\ delivered \in Nat
      /\ delivered < last /\ Batch \in Nat \ {0}
  BY DepthAssumption DEF Inv, TypeOK, Consume
<1>2. (IF first > delivered THEN first ELSE delivered + 1) = delivered + 1
  BY <1>1
<1> DEFINE u == IF (delivered + 1) + Batch <= last
                THEN (delivered + 1) + Batch - 1 ELSE last
<1>3. u \in Nat /\ u > delivered /\ u <= last
  BY <1>1
<1>4. /\ delivered' = u
      /\ hand' = [hand EXCEPT ![w] = delivered + 1 .. u]
      /\ owner' = [i \in Ids |-> IF i \in delivered + 1 .. u
                                 THEN w ELSE owner[i]]
      /\ UNCHANGED <<last, ending, handled>>
  BY <1>2 DEF Consume, stream
<1> HIDE DEF u
<1> QED BY <1>3, <1>4

LEMMA HandedOutStep ==
    ASSUME Inv, Inv', HandedOut, [Next]_vars
    PROVE  HandedOut'
<1>0. /\ first = 1 /\ last \in Nat /\ delivered \in Nat /\ Total \in Nat
      /\ delivered <= last /\ last <= Total /\ Batch \in Nat \ {0}
      /\ hand \in [Workers -> SUBSET Ids] /\ owner \in [Ids -> Workers \cup {NoOne}]
      /\ ending \in [Workers -> Ids \cup {None}]
  BY DepthAssumption DEF Inv, TypeOK
<1>1. ASSUME UNCHANGED <<delivered, owner, hand, ending>> PROVE HandedOut'
  BY <1>1 DEF HandedOut, Pending
<1>2. ASSUME NEW w \in Workers, Consume(w) PROVE HandedOut'
  <2>1. PICK upto \in Nat :
           /\ upto > delivered /\ upto <= last /\ delivered' = upto
           /\ hand' = [hand EXCEPT ![w] = delivered + 1 .. upto]
           /\ owner' = [i \in Ids |-> IF i \in delivered + 1 .. upto
                                      THEN w ELSE owner[i]]
           /\ UNCHANGED ending
    BY <1>2, Batches
  <2>2. 1 .. delivered \subseteq 1 .. upto /\ delivered + 1 .. upto \subseteq 1 .. upto
    BY <1>0, <2>1
  <2>3. Pending' \subseteq 1 .. upto
    BY <2>1, <2>2 DEF HandedOut, Pending
  <2>4. \A v \in Workers : /\ hand'[v] \subseteq 1 .. upto
                           /\ ending'[v] # None => ending'[v] \in 1 .. upto
    BY <1>0, <2>1, <2>2 DEF HandedOut
  <2> QED BY <2>1, <2>3, <2>4 DEF HandedOut
<1>3. ASSUME NEW w \in Workers, NEW idle \in SUBSET Ids, ClaimStale(w, idle)
      PROVE  HandedOut'
  <2>1. PICK got \in SUBSET Ids :
           /\ got \subseteq Pending
           /\ hand' = [hand EXCEPT ![w] = got]
           /\ owner' = [i \in Ids |-> IF i \in got THEN w ELSE owner[i]]
           /\ UNCHANGED <<delivered, ending>>
    BY <1>3 DEF ClaimStale
  <2> QED BY <1>0, <2>1 DEF HandedOut, Pending
<1>4. ASSUME NEW w \in Workers, NEW i \in Ids, Handle(w, i) \/ HandlerRaises(w, i)
      PROVE  HandedOut'
  <2>1. /\ i \in hand[w] /\ hand' = [hand EXCEPT ![w] = @ \ {i}]
        /\ ending' \in {ending, [ending EXCEPT ![w] = i]}
        /\ UNCHANGED <<delivered, owner>>
    BY <1>4 DEF Handle, HandlerRaises, Turn
  <2> QED BY <1>0, <2>1 DEF HandedOut, Pending
<1>5. ASSUME NEW w \in Workers, Ack(w) PROVE HandedOut'
  BY <1>0, <1>5 DEF Ack, HandedOut, Pending
<1>6. ASSUME NEW w \in Workers, Crash(w) PROVE HandedOut'
  BY <1>0, <1>6 DEF Crash, HandedOut, Pending
<1>7. ASSUME NEW p \in Producers, EnqueueCheck(p) \/ EnqueueAdd(p) \/ GiveUp(p)
      PROVE  HandedOut'
  BY <1>1, <1>7 DEF EnqueueCheck, EnqueueAdd, GiveUp
<1>8. CASE Quiet \/ UNCHANGED vars
  BY <1>1, <1>8 DEF Quiet, vars
<1> QED
  BY <1>2, <1>3, <1>4, <1>5, <1>6, <1>7, <1>8 DEF Next

LEMMA QueueStep ==
    ASSUME Inv, Inv', HandedOut, [Next]_vars
    PROVE  Queue!Next \/ UNCHANGED Queue!queue
<1>0. /\ first = 1 /\ first' = 1 /\ last \in Nat /\ delivered \in Nat
      /\ Total \in Nat /\ delivered <= last /\ last <= Total
      /\ Batch \in Nat \ {0} /\ 1 .. last \subseteq Ids
      /\ owner \in [Ids -> Workers \cup {NoOne}]
      /\ ending \in [Workers -> Ids \cup {None}]
  BY DepthAssumption DEF Inv, TypeOK, Ids
<1>1. Unacked = {i \in 1 .. last : i > delivered \/ owner[i] # NoOne}
  BY <1>0 DEF Unacked
<1>2. Unacked' = {i \in 1 .. last' : i > delivered' \/ owner'[i] # NoOne}
  BY <1>0, DepthAssumption DEF Unacked, Inv, TypeOK
<1>3. ASSUME UNCHANGED <<last, delivered, owner, handled>>
      PROVE  UNCHANGED Queue!queue
  BY <1>1, <1>2, <1>3 DEF Queue!queue
<1>4. ASSUME NEW p \in Producers, EnqueueAdd(p) PROVE Queue!Next
  <2>1. /\ last' = last + 1 /\ last + 1 \in Ids
        /\ UNCHANGED <<delivered, owner, handled>>
    BY <1>0, <1>4 DEF EnqueueAdd, Ids
  <2>2. 1 .. last' = 1 .. last \cup {last + 1} /\ last + 1 \notin 1 .. last
    BY <1>0, <2>1
  <2>3. Unacked' = Unacked \cup {last + 1}
    BY <1>0, <1>1, <1>2, <2>1, <2>2
  <2> QED BY <2>1, <2>2, <2>3 DEF Queue!Next, Queue!Put
<1>5. ASSUME NEW w \in Workers, Consume(w) PROVE UNCHANGED Queue!queue
  <2>1. PICK upto \in Nat :
           /\ upto > delivered /\ upto <= last /\ delivered' = upto
           /\ owner' = [i \in Ids |-> IF i \in delivered + 1 .. upto
                                      THEN w ELSE owner[i]]
           /\ UNCHANGED <<last, handled>>
    BY <1>5, Batches
  <2>2. ASSUME NEW i \in 1 .. last
        PROVE  (i > upto \/ owner'[i] # NoOne) <=> (i > delivered \/ owner[i] # NoOne)
    <3>1. i \in Ids /\ i \in Nat
      BY <1>0
    <3>2. CASE i \in delivered + 1 .. upto
      BY <1>0, <2>1, <3>1, <3>2, NoOneAssumption
    <3>3. CASE i \notin delivered + 1 .. upto
      BY <1>0, <2>1, <3>1, <3>3
    <3> QED BY <3>2, <3>3
  <2>3. Unacked' = Unacked
    BY <1>1, <1>2, <2>1, <2>2
  <2> QED BY <2>1, <2>3 DEF Queue!queue
<1>6. ASSUME NEW w \in Workers, NEW idle \in SUBSET Ids, ClaimStale(w, idle)
      PROVE  UNCHANGED Queue!queue
  <2>1. PICK got \in SUBSET Ids :
           /\ got \subseteq Pending
           /\ owner' = [i \in Ids |-> IF i \in got THEN w ELSE owner[i]]
           /\ UNCHANGED <<last, delivered, handled>>
    BY <1>6 DEF ClaimStale, stream
  <2>2. \A i \in Ids : owner'[i] # NoOne <=> owner[i] # NoOne
    BY <2>1, NoOneAssumption DEF Pending
  <2>3. Unacked' = Unacked
    BY <1>0, <1>1, <1>2, <2>1, <2>2
  <2> QED BY <2>1, <2>3 DEF Queue!queue
<1>7. ASSUME NEW w \in Workers, NEW i \in Ids, Handle(w, i) PROVE Queue!Next
  <2>1. /\ i \in 1 .. last /\ handled' = handled \cup {i}
        /\ UNCHANGED <<last, delivered, owner>>
    BY <1>0, <1>7 DEF Handle, Turn, stream, HandedOut
  <2>2. Unacked' = Unacked
    BY <1>1, <1>2, <2>1
  <2> QED BY <2>1, <2>2 DEF Queue!Next, Queue!Handle
<1>8. ASSUME NEW w \in Workers, Ack(w) PROVE Queue!Next
  <2>1. PICK m \in Ids : m = ending[w]
    BY <1>0, <1>8 DEF Ack
  <2>2. /\ m \in handled /\ m \in 1 .. delivered
        /\ owner' = [owner EXCEPT ![m] = NoOne]
        /\ UNCHANGED <<last, delivered, handled>>
    BY <1>8, <2>1 DEF Ack, stream, Inv, EndingHandled, HandedOut
  <2>3. Unacked' = Unacked \ {m}
    BY <1>0, <1>1, <1>2, <2>2
  <2> QED BY <2>2, <2>3 DEF Queue!Next, Queue!TakeOff
<1>9. ASSUME NEW w \in Workers, Crash(w) \/ \E i \in Ids : HandlerRaises(w, i)
      PROVE  UNCHANGED Queue!queue
  BY <1>3, <1>9 DEF Crash, HandlerRaises, stream
<1>10. ASSUME NEW p \in Producers, EnqueueCheck(p) \/ GiveUp(p)
       PROVE  UNCHANGED Queue!queue
  BY <1>3, <1>10 DEF EnqueueCheck, GiveUp, stream
<1>11. CASE Quiet \/ UNCHANGED vars
  BY <1>3, <1>11 DEF Quiet, vars
<1> QED
  BY <1>4, <1>5, <1>6, <1>7, <1>8, <1>9, <1>10, <1>11 DEF Next

(* Producers, workers and Redis together are a ReliableQueue: enqueue,      *)
(* consume, claim_stale and ack (bus/stream.py), with handlers that raise   *)
(* and workers that die, keep a message until it was handled, and what was  *)
(* acknowledged stays off, although two workers may have it at once.        *)
THEOREM IsReliable == Spec => QueueKept
<1>1. Init => Queue!Init /\ HandedOut
  BY DEF Init, Queue!Init, Unacked, HandedOut, Pending, None
<1>2. Inv /\ Inv' /\ HandedOut /\ [Next]_vars => HandedOut'
  BY HandedOutStep
<1>3. Inv /\ Inv' /\ HandedOut /\ [Next]_vars => [Queue!Next]_(Queue!queue)
  BY QueueStep
<1> QED BY Invariance, <1>1, <1>2, <1>3, PTL DEF Spec, QueueKept, Queue!Spec

=============================================================================
