-------------------------- MODULE AcceptanceProofs --------------------------
(***************************************************************************)
(* Proofs about Acceptance, for any number of requests, tasks, keys and    *)
(* bodies, any window and any clock: one key in one window means one task, *)
(* callers are told of their own task only, and a replay is safe where a   *)
(* person has to confirm it.                                               *)
(***************************************************************************)
EXTENDS Acceptance, TLAPS

(* What every row satisfies: a replay and only a replay has a later attempt *)
(* number; the bucket is the one of the arrival; the body that is kept has  *)
(* the digest of the row.                                                   *)
RowSound(t) ==
    Known(t) =>
        /\ rows[t].key \in Keys /\ rows[t].digest \in Contents
        /\ rows[t].attempt \in Nat \ {0}
        /\ rows[t].parent = NoOne <=> rows[t].attempt = 1
        /\ rows[t].bucket = WindowBucket(rows[t].at)
        /\ bodies[t] # NoOne
        /\ rows[t].parent = NoOne =>
              bodies[t] \in Body /\ BodyDigest(bodies[t]) = rows[t].digest

(* The same of a request in progress.                                       *)
ReqSound(g) ==
    pc[g] # "idle" =>
        /\ req[g].key \in Keys /\ req[g].digest \in Contents
        /\ req[g].attempt \in Nat \ {0}
        /\ req[g].parent = NoOne <=> req[g].attempt = 1
        /\ req[g].bucket = WindowBucket(req[g].at)
        /\ req[g].parent = NoOne =>
              req[g].body \in Body /\ BodyDigest(req[g].body) = req[g].digest
        /\ pc[g] \notin {"insert", "enqueue"} => req[g].parent = NoOne

InlinePlaces == {"claim", "slot", "handle", "archive", "reload", "reply"}

(* The task a request has inserted or found is the one for its key; if it   *)
(* has inserted it, the body is the same as well; and what the upstream     *)
(* answered to an inline create call is so.                                 *)
OwnSound(g) ==
    pc[g] \notin {"idle", "find", "insert"} =>
        /\ own[g] \in Ids /\ Holds(own[g], req[g])
        /\ pc[g] # "repeat" => /\ rows[own[g]].digest = req[g].digest
                               /\ rows[own[g]].parent = req[g].parent
        /\ pc[g] \in InlinePlaces => mode = "inline"
        /\ pc[g] = "archive" => req[g].native = "ok"
        /\ pc[g] \in {"handle", "archive", "reload", "reply"}
           /\ req[g].native = "ok" => made[own[g]] # NoOne

(* What the upstream has was made from the body of the row, and what is     *)
(* archived as a success is one.                                            *)
Submitted(t) == mode = "queued" => rows[t].status = "upstream_submitted"

TaskSound(t) ==
    /\ made[t] # NoOne =>
          /\ Known(t)
          /\ rows[t].parent = NoOne =>
                made[t] \in Body /\ BodyDigest(made[t]) = rows[t].digest
    /\ resps[t] = "ok" => made[t] # NoOne /\ Submitted(t)
    /\ work[t] \in {"ok", "archive"} => made[t] # NoOne
    /\ work[t] = "archive" => rows[t].status = "upstream_submitted"

(* An answer names a task for the caller's key, window and body.            *)
SaidSound(a) ==
    /\ a.id \in Ids /\ Known(a.id)
    /\ rows[a.id].key = a.key /\ rows[a.id].bucket = a.bucket
    /\ rows[a.id].digest = a.digest /\ rows[a.id].parent = NoOne
    /\ a.ok => made[a.id] # NoOne /\ Submitted(a.id)

(* The unique constraint on (idempotency_key, bucket).                      *)
Unique ==
    \A s, t \in Ids :
        /\ Known(s) /\ Known(t) /\ rows[s].key = rows[t].key
        /\ rows[s].attempt = rows[t].attempt /\ rows[s].bucket = rows[t].bucket
        => s = t

Inv == /\ TypeOK /\ Unique
       /\ \A t \in Ids : RowSound(t) /\ TaskSound(t)
       /\ \A g \in Gateways : ReqSound(g) /\ OwnSound(g)
       /\ \A a \in said : SaidSound(a)

-----------------------------------------------------------------------------
(* What every step leaves alone: a row keeps its key, its window and its    *)
(* body; a task that has an upstream id, or is dead, stays so; what the     *)
(* upstream has it keeps.                                                   *)
Kept(s) ==
    /\ Known(s) =>
          /\ Known(s)' /\ rows'[s].key = rows[s].key
          /\ rows'[s].attempt = rows[s].attempt
          /\ rows'[s].bucket = rows[s].bucket
          /\ rows'[s].digest = rows[s].digest /\ rows'[s].at = rows[s].at
          /\ rows'[s].parent = rows[s].parent
    /\ rows[s].status \in {"upstream_submitted", "dead"} =>
          rows'[s].status = rows[s].status
    /\ made[s] # NoOne => made'[s] # NoOne
Framed == mode' = mode /\ \A s \in Ids : Kept(s)

(* No row is added.                                                         *)
NoneAdded == \A s \in Ids : Known(s)' => Known(s)

(* One row changes its status, as rows that are not settled may.            *)
LEMMA StatusStep ==
    ASSUME TypeOK, NEW t \in Ids, NEW st \in Statuses \ {"none"},
           rows[t].status \notin {"none", "upstream_submitted", "dead"},
           rows' = [rows EXCEPT ![t].status = st],
           mode' = mode, \A s \in Ids : made[s] # NoOne => made'[s] # NoOne
    PROVE  rows' \in [Ids -> Row] /\ Framed /\ NoneAdded
<1>1. /\ rows' \in [Ids -> Row] /\ rows[t] \in Row
      /\ \A s \in Ids : s # t => rows'[s] = rows[s]
      /\ rows'[t] = [rows[t] EXCEPT !.status = st]
  BY DEF TypeOK, Row
<1>2. \A s \in Ids : Kept(s)
  BY <1>1 DEF Kept, Known, Row
<1> QED
  BY <1>1, <1>2 DEF Framed, NoneAdded, Known

LEMMA SameRows ==
    ASSUME UNCHANGED <<rows, mode>>,
           \A s \in Ids : made[s] # NoOne => made'[s] # NoOne
    PROVE  Framed /\ NoneAdded
  BY DEF Framed, Kept, NoneAdded, Known

(* Then what holds of the rows, requests, tasks and answers that the step   *)
(* does not touch still holds.                                              *)
LEMMA RowFrame ==
    ASSUME Inv, Framed, NEW t \in Ids, bodies'[t] = bodies[t],
           Known(t)' => Known(t)
    PROVE  RowSound(t)'
  BY DEF Inv, Framed, Kept, RowSound, WindowBucket

LEMMA UniqueFrame ==
    ASSUME Inv, Framed, NoneAdded
    PROVE  Unique'
  BY DEF Inv, Framed, Kept, NoneAdded, Unique

LEMMA TaskFrame ==
    ASSUME Inv, Framed, NEW t \in Ids, resps'[t] = resps[t],
           work'[t] = work[t], made'[t] = made[t]
    PROVE  TaskSound(t)'
  BY DEF Inv, Framed, Kept, TaskSound, Submitted

LEMMA OwnFrame ==
    ASSUME Inv, Framed, NEW g \in Gateways, pc'[g] = pc[g], req'[g] = req[g],
           own'[g] = own[g]
    PROVE  ReqSound(g)' /\ OwnSound(g)'
<1>1. ReqSound(g)'
  BY DEF Inv, ReqSound, WindowBucket
<1>2. OwnSound(g)'
  BY DEF Inv, Framed, Kept, OwnSound, Holds, InlinePlaces
<1> QED
  BY <1>1, <1>2

LEMMA SaidFrame ==
    ASSUME Inv, Framed
    PROVE  \A a \in said : SaidSound(a)'
  BY DEF Inv, Framed, Kept, SaidSound, Submitted

(* So a step is good if what it does touch is.                              *)
LEMMA Combine ==
    ASSUME Inv, Framed, NoneAdded, TypeOK', UNCHANGED bodies,
           \A g \in Gateways :
              \/ pc'[g] = pc[g] /\ req'[g] = req[g] /\ own'[g] = own[g]
              \/ ReqSound(g)' /\ OwnSound(g)',
           \A t \in Ids :
              \/ resps'[t] = resps[t] /\ work'[t] = work[t] /\ made'[t] = made[t]
              \/ TaskSound(t)',
           \A a \in said' : a \in said \/ SaidSound(a)'
    PROVE  Inv'
<1>1. \A t \in Ids : RowSound(t)' /\ TaskSound(t)'
  BY RowFrame, TaskFrame DEF NoneAdded
<1>2. \A g \in Gateways : ReqSound(g)' /\ OwnSound(g)'
  BY OwnFrame
<1>3. \A a \in said' : SaidSound(a)'
  BY SaidFrame
<1> QED
  BY <1>1, <1>2, <1>3, UniqueFrame DEF Inv

-----------------------------------------------------------------------------
(* Requests                                                                 *)

LEMMA BucketType == \A n \in Nat : WindowBucket(n) \in Nat
  BY WindowAssumption DEF WindowBucket

(* A request that has ended is sound.                                       *)
LEMMA EndsSound ==
    ASSUME TypeOK, NEW g \in Gateways, Ends(g)
    PROVE  /\ pc' \in [Gateways -> Places] /\ req' \in [Gateways -> Req]
           /\ own' \in [Gateways -> Ids \cup {NoOne}]
           /\ ReqSound(g)' /\ OwnSound(g)'
           /\ \A h \in Gateways : h # g => /\ pc'[h] = pc[h]
                                          /\ req'[h] = req[h] /\ own'[h] = own[h]
<1>1. NoReq \in Req
  BY DEF NoReq, Req, Statuses, Natives
<1> QED
  BY <1>1 DEF TypeOK, Ends, Places, ReqSound, OwnSound

LEMMA TickInv == ASSUME Inv, Tick PROVE Inv'
<1>1. TypeOK'
  BY DEF Inv, TypeOK, Tick, store
<1> QED
  BY <1>1, SameRows, Combine DEF Tick, store

LEMMA ArriveInv ==
    ASSUME Inv, NEW g \in Gateways, NEW o \in Offers, Arrive(g, o)
    PROVE  Inv'
<1> USE DEF Inv
<1>1. /\ o.explicit \in Explicit \cup {NoKey} /\ o.cred \in Creds
      /\ o.body \in Body /\ BodyDigest(o.body) \in Contents
  BY OffersAssumption DEF Body, BodyDigest
<1>2. ResolveKey(o.explicit, o.cred, o.body) \in Keys
  BY <1>1 DEF ResolveKey, DeriveKey, Keys
<1>3. Admitted(o) = [key |-> ResolveKey(o.explicit, o.cred, o.body),
                     attempt |-> 1, bucket |-> WindowBucket(clock),
                     digest |-> BodyDigest(o.body), at |-> clock,
                     body |-> o.body, parent |-> NoOne, native |-> "unclear",
                     seen |-> "none"]
  BY DEF Admitted, NewReq
<1>4. Admitted(o) \in Req
  BY <1>1, <1>2, <1>3, BucketType DEF TypeOK, Req, Natives, Statuses
<1>5. TypeOK'
  BY <1>4 DEF TypeOK, Arrive, Asks, Goto, Places, store
<1>6. pc'[g] = "find" /\ req'[g] = Admitted(o)
  BY DEF TypeOK, Arrive, Goto
<1>7. ReqSound(g)' /\ OwnSound(g)'
  BY <1>1, <1>2, <1>3, <1>6 DEF ReqSound, OwnSound, WindowBucket
<1> QED
  BY <1>5, <1>7, SameRows, Combine DEF TypeOK, Arrive, Goto, store

LEMMA ReplayInv ==
    ASSUME Inv, NEW g \in Gateways, NEW p \in Ids, NEW b \in Body \cup {Empty},
           Replay(g, p, b)
    PROVE  Inv'
<1> USE DEF Inv
<1> DEFINE r == [key |-> rows[p].key, attempt |-> rows[p].attempt + 1,
                 bucket |-> WindowBucket(clock), digest |-> rows[p].digest,
                 at |-> clock, body |-> b, parent |-> p,
                 native |-> "unclear", seen |-> "none"]
<1>1. /\ rows[p].key \in Keys /\ rows[p].digest \in Contents
      /\ rows[p].attempt \in Nat \ {0}
  BY DEF Replay, MayReplay, RowSound, Known
<1>2. r \in Req
  BY <1>1, BucketType DEF TypeOK, Req, Natives, Statuses
<1>3. req' = [req EXCEPT ![g] = r] /\ pc' = [pc EXCEPT ![g] = "insert"]
  BY DEF Replay, NewReq, NextAttempt, Goto
<1>4. TypeOK'
  BY <1>2, <1>3 DEF TypeOK, Replay, Asks, Places, store
<1>5. pc'[g] = "insert" /\ req'[g] = r
  BY <1>3 DEF TypeOK
<1>6. ReqSound(g)' /\ OwnSound(g)'
  BY <1>1, <1>5, NamesAssumption DEF ReqSound, OwnSound, WindowBucket
<1> QED
  BY <1>3, <1>4, <1>6, SameRows, Combine DEF TypeOK, Replay, store

(* A request that found the task of its key, before or in place of its own  *)
(* insert, or did not.                                                      *)
LEMMA FindInv ==
    ASSUME Inv, NEW g \in Gateways,
           Find(g) \/ \E t \in Ids : InsertLost(g, t)
    PROVE  Inv'
<1> USE DEF Inv
<1>0. UNCHANGED <<clock, asked, mode, rows, bodies, resps, work, made, said>>
  BY DEF Find, InsertLost, time, store
<1>1. CASE Ends(g)
  <2>1. TypeOK'
    BY <1>0, <1>1, EndsSound DEF TypeOK
  <2> QED
    BY <1>0, <1>1, <2>1, EndsSound, SameRows, Combine
<1>2. CASE Goto(g, "insert") /\ UNCHANGED <<req, own>> /\ pc[g] = "find"
  <2>1. TypeOK' /\ pc'[g] = "insert"
    BY <1>0, <1>2 DEF TypeOK, Goto, Places
  <2>2. ReqSound(g)' /\ OwnSound(g)'
    BY <1>2, <2>1 DEF ReqSound, OwnSound, WindowBucket
  <2> QED
    BY <1>0, <1>2, <2>1, <2>2, SameRows, Combine DEF TypeOK, Goto
<1>3. ASSUME NEW t \in Ids, Holds(t, req[g]), req[g].parent = NoOne,
             pc[g] \in {"find", "insert"}, Goto(g, "repeat"), UNCHANGED req,
             own' = [own EXCEPT ![g] = t]
      PROVE  Inv'
  <2>1. TypeOK' /\ pc'[g] = "repeat" /\ own'[g] = t
    BY <1>0, <1>3 DEF TypeOK, Goto, Places
  <2>2. ReqSound(g)' /\ OwnSound(g)'
    BY <1>0, <1>3, <2>1 DEF ReqSound, OwnSound, WindowBucket, Holds, Known,
                            InlinePlaces
  <2> QED
    BY <1>0, <1>3, <2>1, <2>2, SameRows, Combine DEF TypeOK, Goto
<1>4. pc[g] = "find" => req[g].parent = NoOne
  BY DEF ReqSound
<1> QED
  BY <1>1, <1>2, <1>3, <1>4 DEF Find, InsertLost

(* The insert: the unique constraint keeps it from making a second row for  *)
(* a key.                                                                   *)
LEMMA InsertInv ==
    ASSUME Inv, NEW g \in Gateways, NEW t \in Ids, Insert(g, t)
    PROVE  Inv'
<1> USE DEF Inv
<1> DEFINE q == IF mode = "inline" /\ req[g].parent = NoOne
                THEN "claim" ELSE "enqueue"
<1>0. /\ UNCHANGED <<clock, asked, mode, req, work, made, said>>
      /\ pc[g] = "insert" /\ ~Known(t) /\ \A s \in Ids : ~Holds(s, req[g])
      /\ rows' = [rows EXCEPT ![t] = NewRow(req[g])]
      /\ bodies' = [bodies EXCEPT ![t] = req[g].body]
      /\ resps' \in {[resps EXCEPT ![t] = "pending"],
                     [resps EXCEPT ![t] = "none"]}
      /\ own' = [own EXCEPT ![g] = t] /\ pc' = [pc EXCEPT ![g] = q]
  BY DEF Insert, Goto, time
<1>1. /\ NewRow(req[g]) \in Row /\ req[g] \in Req
      /\ NewRow(req[g]).status = "accepted"
      /\ NewRow(req[g]).key = req[g].key
      /\ NewRow(req[g]).attempt = req[g].attempt
      /\ NewRow(req[g]).bucket = req[g].bucket
      /\ NewRow(req[g]).digest = req[g].digest
      /\ NewRow(req[g]).at = req[g].at
      /\ NewRow(req[g]).parent = req[g].parent
  BY DEF TypeOK, NewRow, Req, Row, Statuses, Accepted
<1>2. /\ rows'[t] = NewRow(req[g]) /\ bodies'[t] = req[g].body
      /\ \A s \in Ids : s # t => rows'[s] = rows[s] /\ bodies'[s] = bodies[s]
                                /\ resps'[s] = resps[s]
      /\ resps'[t] \in {"pending", "none"}
  BY <1>0 DEF TypeOK
<1>3. TypeOK'
  BY <1>0, <1>1 DEF TypeOK, Places, Req
<1>4. Framed
  BY <1>0, <1>2 DEF Framed, Kept, Known
<1>5. RowSound(t)'
  BY <1>0, <1>1, <1>2, NamesAssumption
     DEF ReqSound, RowSound, Known, WindowBucket, Req
<1>6. \A s \in Ids : RowSound(s)'
  BY <1>2, <1>4, <1>5, RowFrame DEF Known
<1>7. Unique'
  <2>1. \A s \in Ids : s # t /\ Known(s)' =>
           ~ /\ rows'[s].key = rows'[t].key
             /\ rows'[s].attempt = rows'[t].attempt
             /\ rows'[s].bucket = rows'[t].bucket
    BY <1>0, <1>1, <1>2 DEF Holds, Known
  <2> QED
    BY <1>2, <2>1 DEF Unique, Known
<1>8. TaskSound(t)'
  BY <1>0, <1>2 DEF TaskSound, Known
<1>9. \A s \in Ids : TaskSound(s)'
  BY <1>0, <1>2, <1>4, <1>8, TaskFrame
<1>10. pc'[g] = q /\ own'[g] = t
  BY <1>0 DEF TypeOK
<1>11. ReqSound(g)'
  BY <1>0, <1>10 DEF ReqSound, WindowBucket
<1>12. OwnSound(g)'
  BY <1>0, <1>1, <1>2, <1>10 DEF OwnSound, Holds, Known, InlinePlaces
<1>13. \A h \in Gateways : ReqSound(h)' /\ OwnSound(h)'
  BY <1>0, <1>4, <1>11, <1>12, OwnFrame DEF TypeOK
<1>14. \A a \in said' : SaidSound(a)'
  BY <1>0, <1>4, SaidFrame
<1> QED
  BY <1>3, <1>6, <1>7, <1>9, <1>13, <1>14

(* An answer about the request's own task.                                  *)
LEMMA SaysSound ==
    ASSUME Inv, NEW g \in Gateways, NEW what, Says(g, own[g], what),
           pc[g] \notin {"idle", "find", "insert"}, req[g].parent = NoOne,
           rows[own[g]].digest = req[g].digest,
           UNCHANGED <<rows, made, mode>>,
           what = "ok" => made[own[g]] # NoOne /\ Submitted(own[g])
    PROVE  said' \subseteq Answer /\ \A a \in said' : a \in said \/ SaidSound(a)'
<1> USE DEF Inv
<1>1. PICK a : /\ said' = said \cup {a}
               /\ a = [id |-> own[g], key |-> req[g].key,
                       bucket |-> req[g].bucket, digest |-> req[g].digest,
                       ok |-> what = "ok"]
  BY DEF Says
<1>2. /\ own[g] \in Ids /\ Holds(own[g], req[g]) /\ req[g].key \in Keys
      /\ req[g].digest \in Contents /\ req[g].bucket \in Nat
      /\ req[g].attempt = 1
  BY DEF OwnSound, ReqSound, TypeOK, Req
<1>3. rows[own[g]].parent = NoOne
  BY <1>2 DEF RowSound, Holds
<1>4. a \in Answer
  BY <1>1, <1>2 DEF Answer
<1>5. SaidSound(a)'
  BY <1>1, <1>2, <1>3 DEF SaidSound, Holds, Known, Submitted
<1> QED
  BY <1>1, <1>4, <1>5 DEF TypeOK

LEMMA EndInv ==
    ASSUME Inv, NEW g \in Gateways, Enqueue(g) \/ Repeat(g) \/ Crash(g)
    PROVE  Inv'
<1> USE DEF Inv
<1>0. UNCHANGED <<clock, asked, mode, rows, bodies, resps, work, made>> /\ Ends(g)
  BY DEF Enqueue, Repeat, Crash, time, store
<1>1. said' \subseteq Answer /\ \A a \in said' : a \in said \/ SaidSound(a)'
  <2>1. CASE UNCHANGED said
    BY <2>1 DEF TypeOK
  <2>2. CASE Enqueue(g) /\ Says(g, own[g], "accepted") /\ req[g].parent = NoOne
    BY <1>0, <2>2, SaysSound DEF Enqueue, OwnSound
  <2>3. ASSUME NEW r \in Fetch(resps, own[g], "accepted"), Repeat(g),
               Says(g, own[g], r), rows[own[g]].digest = req[g].digest
        PROVE  said' \subseteq Answer
               /\ \A a \in said' : a \in said \/ SaidSound(a)'
    <3>1. pc[g] = "repeat" /\ req[g].parent = NoOne /\ own[g] \in Ids
      BY <2>3 DEF Repeat, ReqSound, OwnSound
    <3>2. r = "ok" => made[own[g]] # NoOne /\ Submitted(own[g])
      BY <2>3, <3>1 DEF Fetch, TaskSound
    <3> QED
      BY <1>0, <2>3, <3>1, <3>2, SaysSound
  <2> QED
    BY <2>1, <2>2, <2>3 DEF Enqueue, Repeat, Crash
<1>2. TypeOK'
  BY <1>0, <1>1, EndsSound DEF TypeOK
<1> QED
  BY <1>0, <1>1, <1>2, EndsSound, SameRows, Combine

-----------------------------------------------------------------------------
(* The create call and what is made of its result                           *)

LEMMA HandledFrame ==
    ASSUME Inv, NEW t \in Ids, NEW native \in Natives, Handled(t, native),
           UNCHANGED <<mode, made>>
    PROVE  /\ rows' \in [Ids -> Row] /\ Framed /\ NoneAdded
           /\ MarksSubmitted(t, native) =>
                 rows'[t].status = "upstream_submitted"
<1> USE DEF Inv
<1>1. CASE rows' = rows
  <2>1. ~MarksSubmitted(t, native)
    BY <1>1 DEF Handled, MarksSubmitted, Outcome, TypeOK, Row
  <2> QED
    BY <1>1, <2>1, SameRows DEF TypeOK
<1>2. CASE /\ rows[t].status \in Accepted
           /\ rows' = [rows EXCEPT ![t].status = Outcome(native)]
  <2>1. Outcome(native) \in Statuses \ {"none"}
    BY DEF Outcome, Natives, Statuses, Accepted
  <2>2. rows[t].status \notin {"none", "upstream_submitted", "dead"}
    BY <1>2 DEF Accepted
  <2>3. MarksSubmitted(t, native) => rows'[t].status = "upstream_submitted"
    BY <1>2 DEF MarksSubmitted, Outcome, TypeOK, Row
  <2> QED
    BY <1>2, <2>1, <2>2, <2>3, StatusStep
<1>3. \/ rows' = rows
      \/ /\ rows[t].status \in Accepted
         /\ rows' = [rows EXCEPT ![t].status = Outcome(native)]
  BY DEF Handled, MarksSubmitted, Accepted
<1> QED
  BY <1>1, <1>2, <1>3

(* A create call: what the upstream then has is the body it was given.      *)
LEMMA CreatesFrame ==
    ASSUME Inv, NEW t \in Ids, NEW b \in Body \cup {Empty},
           NEW native \in Natives, Creates(t, b, native)
    PROVE  /\ made' \in [Ids -> Body \cup {Empty, NoOne}]
           /\ \A s \in Ids : s # t => made'[s] = made[s]
           /\ made'[t] = made[t] \/ made'[t] = b
           /\ \A s \in Ids : made[s] # NoOne => made'[s] # NoOne
           /\ native = "ok" => made'[t] # NoOne
  BY NamesAssumption DEF Inv, TypeOK, Creates, Natives

LEMMA CreatedSound ==
    ASSUME Inv, Framed, NEW t \in Ids, Known(t), made'[t] # NoOne,
           rows[t].parent = NoOne =>
              \/ made'[t] = made[t]
              \/ made'[t] \in Body /\ BodyDigest(made'[t]) = rows[t].digest,
           resps'[t] = resps[t] \/ (resps'[t] = "ok" /\ Submitted(t)')
              \/ resps'[t] # "ok",
           work'[t] = "archive" => rows'[t].status = "upstream_submitted"
    PROVE  TaskSound(t)'
  BY DEF Inv, Framed, Kept, TaskSound, Submitted, Known

-----------------------------------------------------------------------------
(* Inline submission                                                        *)

(* Where the request stands while it submits inline.                        *)
LEMMA InlineFacts ==
    ASSUME Inv, NEW g \in Gateways, pc[g] \in InlinePlaces
    PROVE  /\ own[g] \in Ids /\ Known(own[g]) /\ mode = "inline"
           /\ req[g] \in Req /\ req[g].parent = NoOne
           /\ rows[own[g]].digest = req[g].digest
           /\ rows[own[g]].parent = NoOne
           /\ req[g].body \in Body /\ BodyDigest(req[g].body) = req[g].digest
  BY DEF Inv, TypeOK, OwnSound, ReqSound, InlinePlaces, Holds

LEMMA InlineClaimInv ==
    ASSUME Inv, NEW g \in Gateways, InlineClaim(g)
    PROVE  Inv'
<1> USE DEF Inv
<1>0. /\ pc[g] = "claim" /\ pc[g] \in InlinePlaces
      /\ UNCHANGED <<clock, asked, mode, bodies, resps, work, made>>
  BY DEF InlineClaim, InlinePlaces, time, store
<1>1. /\ own[g] \in Ids /\ Known(own[g]) /\ req[g].parent = NoOne
      /\ rows[own[g]].digest = req[g].digest
  BY <1>0, InlineFacts
<1>2. CASE /\ rows[own[g]].status = "accepted"
           /\ rows' = [rows EXCEPT ![own[g]].status = "intended"]
           /\ Goto(g, "slot") /\ UNCHANGED <<req, own, said>>
  <2>1. rows' \in [Ids -> Row] /\ Framed /\ NoneAdded
    BY <1>0, <1>1, <1>2, StatusStep DEF Statuses, Accepted
  <2>2. TypeOK' /\ pc'[g] = "slot"
    BY <1>0, <1>2, <2>1 DEF TypeOK, Goto, Places
  <2>3. ReqSound(g)' /\ OwnSound(g)'
    <3>1. ReqSound(g)'
      BY <1>0, <1>2, <2>2 DEF ReqSound, WindowBucket
    <3>2. OwnSound(g)'
      BY <1>0, <1>1, <1>2, <2>1, <2>2
         DEF OwnSound, Framed, Kept, Holds, InlinePlaces
    <3> QED
      BY <3>1, <3>2
  <2> QED
    BY <1>0, <1>2, <2>1, <2>2, <2>3, Combine DEF TypeOK, Goto
<1>3. CASE Says(g, own[g], "accepted") /\ Ends(g) /\ UNCHANGED rows
  <2>1. said' \subseteq Answer /\ \A a \in said' : a \in said \/ SaidSound(a)'
    BY <1>0, <1>1, <1>3, SaysSound
  <2>2. TypeOK'
    BY <1>0, <1>3, <2>1, EndsSound DEF TypeOK
  <2> QED
    BY <1>0, <1>3, <2>1, <2>2, EndsSound, SameRows, Combine
<1> QED
  BY <1>2, <1>3 DEF InlineClaim

LEMMA InlineDeniedInv ==
    ASSUME Inv, NEW g \in Gateways, InlineDenied(g)
    PROVE  Inv'
<1> USE DEF Inv
<1>0. /\ pc[g] \in InlinePlaces /\ Handled(own[g], "refused") /\ Ends(g)
      /\ UNCHANGED <<clock, asked, mode, bodies, resps, work, made, said>>
  BY DEF InlineDenied, InlinePlaces, time, store
<1>1. rows' \in [Ids -> Row] /\ Framed /\ NoneAdded
  BY <1>0, InlineFacts, HandledFrame DEF Natives
<1>2. TypeOK'
  BY <1>0, <1>1, EndsSound DEF TypeOK
<1> QED
  BY <1>0, <1>1, <1>2, EndsSound, Combine

LEMMA InlineCallInv ==
    ASSUME Inv, NEW g \in Gateways, NEW n \in Natives, InlineCall(g, n)
    PROVE  Inv'
<1> USE DEF Inv
<1>0. /\ pc[g] = "slot" /\ pc[g] \in InlinePlaces
      /\ Creates(own[g], req[g].body, n)
      /\ req' = [req EXCEPT ![g].native = n] /\ pc' = [pc EXCEPT ![g] = "handle"]
      /\ UNCHANGED <<clock, asked, mode, rows, bodies, resps, own, work, said>>
  BY DEF InlineCall, InlinePlaces, Goto, time, store
<1>1. /\ own[g] \in Ids /\ Known(own[g]) /\ mode = "inline"
      /\ req[g] \in Req /\ req[g].parent = NoOne
      /\ rows[own[g]].digest = req[g].digest /\ rows[own[g]].parent = NoOne
      /\ req[g].body \in Body /\ BodyDigest(req[g].body) = req[g].digest
  BY <1>0, InlineFacts
<1>2. /\ made' \in [Ids -> Body \cup {Empty, NoOne}]
      /\ \A s \in Ids : s # own[g] => made'[s] = made[s]
      /\ made'[own[g]] = made[own[g]] \/ made'[own[g]] = req[g].body
      /\ \A s \in Ids : made[s] # NoOne => made'[s] # NoOne
      /\ n = "ok" => made'[own[g]] # NoOne
  BY <1>0, <1>1, CreatesFrame
<1>3. /\ pc'[g] = "handle" /\ req'[g] = [req[g] EXCEPT !.native = n]
      /\ req'[g] \in Req
      /\ \A h \in Gateways : h # g => pc'[h] = pc[h] /\ req'[h] = req[h]
  BY <1>0, <1>1 DEF TypeOK, Req
<1>4. TypeOK'
  BY <1>0, <1>2, <1>3 DEF TypeOK, Places
<1>5. Framed /\ NoneAdded
  BY <1>0, <1>2, SameRows
<1>6. ReqSound(g)'
  BY <1>0, <1>1, <1>3 DEF ReqSound, WindowBucket, Req
<1>7. OwnSound(g)'
  BY <1>0, <1>1, <1>2, <1>3 DEF OwnSound, Holds, Known, Req, InlinePlaces
<1>8. TaskSound(own[g])'
  <2>1. CASE made'[own[g]] = made[own[g]]
    BY <1>0, <1>1, <1>5, <2>1, TaskFrame
  <2>2. CASE made'[own[g]] = req[g].body
    BY <1>0, <1>1, <1>5, <2>2, NamesAssumption, CreatedSound DEF TaskSound
  <2> QED
    BY <1>2, <2>1, <2>2
<1> QED
  BY <1>0, <1>2, <1>3, <1>4, <1>5, <1>6, <1>7, <1>8, Combine

LEMMA InlineHandleInv ==
    ASSUME Inv, NEW g \in Gateways, InlineHandle(g)
    PROVE  Inv'
<1> USE DEF Inv
<1> DEFINE q == IF MarksSubmitted(own[g], req[g].native) THEN "archive"
                                                         ELSE "reload"
<1>0. /\ pc[g] = "handle" /\ pc[g] \in InlinePlaces
      /\ Handled(own[g], req[g].native) /\ pc' = [pc EXCEPT ![g] = q]
      /\ UNCHANGED <<clock, asked, mode, bodies, resps, req, own, work, made,
                     said>>
  BY DEF InlineHandle, InlinePlaces, Goto, time, store
<1>1. own[g] \in Ids /\ req[g].native \in Natives /\ mode = "inline"
      /\ req[g].parent = NoOne
  BY <1>0, InlineFacts DEF Req
<1>2. rows' \in [Ids -> Row] /\ Framed /\ NoneAdded
  BY <1>0, <1>1, HandledFrame
<1>3. /\ pc'[g] \in {"archive", "reload"}
      /\ pc'[g] = "archive" => req[g].native = "ok"
      /\ \A h \in Gateways : h # g => pc'[h] = pc[h]
  BY <1>0 DEF TypeOK, MarksSubmitted
<1>4. TypeOK'
  BY <1>0, <1>2 DEF TypeOK, Places
<1>5. ReqSound(g)'
  BY <1>0, <1>3 DEF ReqSound, WindowBucket
<1>6. OwnSound(g)'
  BY <1>0, <1>1, <1>2, <1>3 DEF OwnSound, Framed, Kept, Holds, InlinePlaces
<1> QED
  BY <1>0, <1>2, <1>3, <1>4, <1>5, <1>6, Combine

LEMMA InlineArchiveInv ==
    ASSUME Inv, NEW g \in Gateways, InlineArchive(g)
    PROVE  Inv'
<1> USE DEF Inv
<1>0. /\ pc[g] = "archive" /\ pc[g] \in InlinePlaces
      /\ resps' = [resps EXCEPT ![own[g]] = "ok"]
      /\ pc' = [pc EXCEPT ![g] = "reload"]
      /\ UNCHANGED <<clock, asked, mode, rows, bodies, req, own, work, made,
                     said>>
  BY DEF InlineArchive, InlinePlaces, Goto, time
<1>1. /\ own[g] \in Ids /\ Known(own[g]) /\ mode = "inline"
      /\ req[g].native = "ok" /\ made[own[g]] # NoOne /\ req[g].parent = NoOne
  BY <1>0, InlineFacts DEF OwnSound
<1>2. TypeOK' /\ pc'[g] = "reload"
      /\ \A s \in Ids : s # own[g] => resps'[s] = resps[s]
      /\ \A h \in Gateways : h # g => pc'[h] = pc[h]
  BY <1>0 DEF TypeOK, Places
<1>3. Framed /\ NoneAdded
  BY <1>0, SameRows
<1>4. ReqSound(g)'
  BY <1>0, <1>2 DEF ReqSound, WindowBucket
<1>5. OwnSound(g)'
  BY <1>0, <1>1, <1>2 DEF OwnSound, Holds, Known, InlinePlaces
<1>6. TaskSound(own[g])'
  BY <1>0, <1>1 DEF TaskSound, Submitted, Known
<1> QED
  BY <1>0, <1>2, <1>3, <1>4, <1>5, <1>6, Combine

LEMMA InlineReloadInv ==
    ASSUME Inv, NEW g \in Gateways, InlineReload(g)
    PROVE  Inv'
<1> USE DEF Inv
<1>0. /\ pc[g] = "reload" /\ pc[g] \in InlinePlaces
      /\ req' = [req EXCEPT ![g].seen = rows[own[g]].status]
      /\ pc' = [pc EXCEPT ![g] = "reply"]
      /\ UNCHANGED <<clock, asked, mode, rows, bodies, resps, own, work, made,
                     said>>
  BY DEF InlineReload, InlinePlaces, Goto, time, store
<1>1. own[g] \in Ids /\ req[g] \in Req /\ rows[own[g]].status \in Statuses
  BY <1>0, InlineFacts DEF TypeOK, Row
<1>2. /\ pc'[g] = "reply" /\ req'[g] \in Req
      /\ req'[g] = [req[g] EXCEPT !.seen = rows[own[g]].status]
      /\ \A h \in Gateways : h # g => pc'[h] = pc[h] /\ req'[h] = req[h]
  BY <1>0, <1>1 DEF TypeOK, Req
<1>3. TypeOK'
  BY <1>0, <1>2 DEF TypeOK, Places
<1>4. Framed /\ NoneAdded
  BY <1>0, SameRows
<1>5. ReqSound(g)'
  BY <1>0, <1>1, <1>2 DEF ReqSound, WindowBucket, Req
<1>6. OwnSound(g)'
  BY <1>0, <1>1, <1>2 DEF OwnSound, Holds, Known, Req, InlinePlaces
<1> QED
  BY <1>0, <1>2, <1>3, <1>4, <1>5, <1>6, Combine

LEMMA InlineReplyInv ==
    ASSUME Inv, NEW g \in Gateways, InlineReply(g)
    PROVE  Inv'
<1> USE DEF Inv
<1>0. /\ pc[g] = "reply" /\ pc[g] \in InlinePlaces /\ Ends(g)
      /\ UNCHANGED <<clock, asked, mode, rows, bodies, work, made>>
  BY DEF InlineReply, InlinePlaces, time
<1>1. PICK what : /\ what = req[g].native \/ what = "unclear"
                  /\ resps' = [resps EXCEPT ![own[g]] = Archived(what)]
                  /\ Says(g, own[g], what)
  BY DEF InlineReply
<1>2. /\ own[g] \in Ids /\ Known(own[g]) /\ mode = "inline"
      /\ req[g].parent = NoOne /\ rows[own[g]].digest = req[g].digest
  BY <1>0, InlineFacts
<1>3. what = "ok" => made[own[g]] # NoOne /\ Submitted(own[g])
  BY <1>0, <1>1, <1>2 DEF OwnSound, Submitted
<1>4. said' \subseteq Answer /\ \A a \in said' : a \in said \/ SaidSound(a)'
  BY <1>0, <1>1, <1>2, <1>3, SaysSound
<1>5. TypeOK' /\ \A s \in Ids : s # own[g] => resps'[s] = resps[s]
  BY <1>0, <1>1, <1>4, EndsSound DEF TypeOK, Archived
<1>6. Framed /\ NoneAdded
  BY <1>0, SameRows
<1>7. \A t \in Ids : t = own[g] => TaskSound(t)'
  BY <1>0, <1>1, <1>2, <1>3 DEF TypeOK, TaskSound, Submitted, Known, Archived
<1> QED
  BY <1>0, <1>4, <1>5, <1>6, <1>7, EndsSound, Combine

-----------------------------------------------------------------------------
(* Workers and the inspector                                                *)

LEMMA WorkerSubmitInv ==
    ASSUME Inv, NEW t \in Ids, NEW n \in Natives, WorkerSubmit(t, n)
    PROVE  Inv'
<1> USE DEF Inv
<1>0. /\ rows[t].status = "accepted" /\ Known(t)
      /\ rows' = [rows EXCEPT ![t].status = "intended"]
      /\ work' = [work EXCEPT ![t] = n] /\ Creates(t, bodies[t], n)
      /\ UNCHANGED <<clock, asked, mode, bodies, resps, pc, req, own, said>>
  BY DEF WorkerSubmit, Known, time, store
<1>1. /\ bodies[t] \in Body \cup {Empty}
      /\ rows[t].parent = NoOne =>
            bodies[t] \in Body /\ BodyDigest(bodies[t]) = rows[t].digest
  BY <1>0 DEF TypeOK, RowSound
<1>2. /\ made' \in [Ids -> Body \cup {Empty, NoOne}]
      /\ \A s \in Ids : s # t => made'[s] = made[s]
      /\ made'[t] = made[t] \/ made'[t] = bodies[t]
      /\ \A s \in Ids : made[s] # NoOne => made'[s] # NoOne
      /\ n = "ok" => made'[t] # NoOne
  BY <1>0, <1>1, CreatesFrame
<1>3. rows' \in [Ids -> Row] /\ Framed /\ NoneAdded
  BY <1>0, <1>2, StatusStep DEF Statuses, Accepted
<1>4. /\ TypeOK' /\ work'[t] = n
      /\ \A s \in Ids : s # t => work'[s] = work[s]
  BY <1>0, <1>2, <1>3 DEF TypeOK
<1>5. TaskSound(t)'
  BY <1>0, <1>1, <1>2, <1>3, <1>4
     DEF TaskSound, Submitted, Framed, Kept, Natives
<1> QED
  BY <1>0, <1>2, <1>3, <1>4, <1>5, Combine

LEMMA WorkerHandleInv ==
    ASSUME Inv, NEW t \in Ids, WorkerHandle(t)
    PROVE  Inv'
<1> USE DEF Inv
<1> DEFINE w == IF MarksSubmitted(t, work[t]) THEN "archive" ELSE "none"
<1>0. /\ work[t] \in Natives /\ Handled(t, work[t])
      /\ work' = [work EXCEPT ![t] = w]
      /\ UNCHANGED <<clock, asked, mode, bodies, resps, pc, req, own, made,
                     said>>
  BY DEF WorkerHandle, time, store
<1>1. /\ rows' \in [Ids -> Row] /\ Framed /\ NoneAdded
      /\ MarksSubmitted(t, work[t]) => rows'[t].status = "upstream_submitted"
  BY <1>0, HandledFrame
<1>2. /\ TypeOK' /\ work'[t] = w
      /\ \A s \in Ids : s # t => work'[s] = work[s]
  BY <1>0, <1>1 DEF TypeOK
<1>3. TaskSound(t)'
  BY <1>0, <1>1, <1>2 DEF TaskSound, Submitted, Framed, Kept, MarksSubmitted
<1> QED
  BY <1>0, <1>1, <1>2, <1>3, Combine

LEMMA WorkerArchiveInv ==
    ASSUME Inv, NEW t \in Ids, WorkerArchive(t)
    PROVE  Inv'
<1> USE DEF Inv
<1>0. /\ work[t] = "archive" /\ resps' = [resps EXCEPT ![t] = "ok"]
      /\ work' = [work EXCEPT ![t] = "none"]
      /\ UNCHANGED <<clock, asked, mode, rows, bodies, pc, req, own, made,
                     said>>
  BY DEF WorkerArchive, time
<1>1. /\ TypeOK' /\ resps'[t] = "ok" /\ work'[t] = "none"
      /\ \A s \in Ids : s # t => work'[s] = work[s] /\ resps'[s] = resps[s]
  BY <1>0 DEF TypeOK
<1>2. Framed /\ NoneAdded
  BY <1>0, SameRows
<1>3. TaskSound(t)'
  BY <1>0, <1>1 DEF TaskSound, Submitted, Known
<1> QED
  BY <1>0, <1>1, <1>2, <1>3, Combine

LEMMA MovedInv ==
    ASSUME Inv, NEW t \in Ids,
           WorkerGivesUp(t) \/ Stalled(t) \/ Expired(t) \/ Confirm(t)
    PROVE  Inv'
<1> USE DEF Inv
<1>0. UNCHANGED <<clock, asked, mode, bodies, resps, pc, req, own, work, made,
                  said>>
  BY DEF WorkerGivesUp, Stalled, Expired, Confirm, time, store
<1>1. PICK st \in Statuses \ {"none"} :
         rows' = [rows EXCEPT ![t].status = st]
  BY DEF WorkerGivesUp, Stalled, Expired, Confirm, Statuses, Accepted
<1>2. rows[t].status \notin {"none", "upstream_submitted", "dead"}
  BY DEF WorkerGivesUp, Stalled, Expired, Confirm, Accepted
<1>3. rows' \in [Ids -> Row] /\ Framed /\ NoneAdded
  BY <1>0, <1>1, <1>2, StatusStep
<1>4. TypeOK'
  BY <1>0, <1>3 DEF TypeOK
<1> QED
  BY <1>0, <1>3, <1>4, Combine

-----------------------------------------------------------------------------
LEMMA InitInv == Init => Inv
<1> SUFFICES ASSUME Init PROVE Inv
  OBVIOUS
<1>1. NoRow \in Row /\ NoReq \in Req
  BY DEF NoRow, Row, NoReq, Req, Statuses, Natives
<1>2. TypeOK
  BY <1>1, WindowAssumption DEF Init, TypeOK, Places
<1>3. Unique /\ \A t \in Ids : RowSound(t) /\ TaskSound(t)
  BY DEF Init, NoRow, Known, Unique, RowSound, TaskSound
<1>4. \A g \in Gateways : ReqSound(g) /\ OwnSound(g)
  BY DEF Init, ReqSound, OwnSound
<1> QED
  BY <1>2, <1>3, <1>4 DEF Init, Inv

LEMMA NextInv == Inv /\ [Next]_vars => Inv'
<1> SUFFICES ASSUME Inv, [Next]_vars PROVE Inv'
  OBVIOUS
<1>1. CASE UNCHANGED vars
  <2>1. TypeOK'
    BY <1>1 DEF vars, Inv, TypeOK
  <2> QED
    BY <1>1, <2>1, SameRows, Combine DEF vars
<1>2. CASE Tick
  BY <1>2, TickInv
<1>3. ASSUME NEW g \in Gateways, InlineStep(g) PROVE Inv'
  BY <1>3, InlineClaimInv, InlineDeniedInv, InlineCallInv, InlineHandleInv,
     InlineArchiveInv, InlineReloadInv, InlineReplyInv DEF InlineStep
<1>4. ASSUME NEW g \in Gateways, RequestStep(g) PROVE Inv'
  BY <1>3, <1>4, ArriveInv, FindInv, InsertInv, ReplayInv, EndInv
     DEF RequestStep
<1>5. ASSUME NEW t \in Ids, TaskStep(t) PROVE Inv'
  BY <1>5, WorkerSubmitInv, WorkerHandleInv, WorkerArchiveInv, MovedInv
     DEF TaskStep
<1> QED
  BY <1>1, <1>2, <1>4, <1>5 DEF Next

LEMMA Invariance == Spec => []Inv
  BY InitInv, NextInv, PTL DEF Spec

(* Every variable keeps its type.                                           *)
THEOREM TypeCorrect == Spec => []TypeOK
<1>1. Inv => TypeOK
  BY DEF Inv
<1> QED
  BY <1>1, Invariance, PTL

(* However many requests race for a key, and wherever they die, all that    *)
(* are answered in one window are told of the same task: accept_create      *)
(* (accept.py:153-170) answers from the row that won the insert.            *)
THEOREM OneTaskPerKey == Spec => []SameTask
<1>1. Inv => SameTask
  <2>1. SUFFICES ASSUME Inv, NEW a \in said, NEW b \in said, a.key = b.key,
                        a.bucket = b.bucket
                 PROVE  a.id = b.id
    BY DEF SameTask
  <2>2. SaidSound(a) /\ SaidSound(b)
    BY <2>1 DEF Inv
  <2>3. rows[a.id].attempt = 1 /\ rows[b.id].attempt = 1
    BY <2>1, <2>2 DEF Inv, SaidSound, RowSound
  <2> QED
    BY <2>1, <2>2, <2>3 DEF Inv, Unique, SaidSound
<1> QED
  BY <1>1, Invariance, PTL

(* A caller is only told of a task of its own, and of a success only when   *)
(* the upstream has the task, made from the caller's body: the archive of   *)
(* create responses (accept.py:258-298, handlers.py:398) never tells of     *)
(* more than happened.                                                      *)
THEOREM AnswersAreOwn == Spec => []AnswerIsOwn
<1>1. Inv => AnswerIsOwn
  <2>1. SUFFICES ASSUME Inv, NEW a \in said, SaidSound(a)
                 PROVE  /\ Known(a.id) /\ rows[a.id].parent = NoOne
                        /\ rows[a.id].key = a.key /\ rows[a.id].digest = a.digest
                        /\ a.ok => /\ made[a.id] # NoOne
                                   /\ BodyDigest(made[a.id]) = a.digest
                                   /\ mode = "queued" =>
                                         rows[a.id].status = "upstream_submitted"
    BY DEF Inv, AnswerIsOwn
  <2>2. TaskSound(a.id)
    BY <2>1 DEF Inv, SaidSound
  <2> QED
    BY <2>1, <2>2 DEF SaidSound, TaskSound, Submitted
<1> QED
  BY <1>1, Invariance, PTL

-----------------------------------------------------------------------------
(* Windows                                                                  *)

LEMMA Quotient ==
    \A a \in Nat : /\ WindowBucket(a) \in Nat
                   /\ WindowBucket(a) * Window <= a
                   /\ a < (WindowBucket(a) + 1) * Window
  BY WindowAssumption, Z3T(30) DEF WindowBucket

LEMMA Times ==
    ASSUME NEW p \in Nat, NEW q \in Nat, p <= q
    PROVE  p * Window <= q * Window /\ p * Window \in Nat
<1>1. PICK d \in Nat : q = p + d
  BY q - p \in Nat
<1>2. d * Window \in Nat /\ p * Window \in Nat
  BY WindowAssumption
<1>3. q * Window = p * Window + d * Window
  BY <1>1, WindowAssumption
<1> QED
  BY <1>2, <1>3

(* One key has two tasks of one attempt only across the edge of a window    *)
(* (window_bucket, idempotency.py:91; the unique constraint of the table).     *)
THEOREM SplitAtEdge == Spec => []SplitOnlyAtEdge
<1>1. Inv => SplitOnlyAtEdge
  <2>1. SUFFICES ASSUME Inv, NEW s \in Ids, NEW t \in Ids, s # t, Known(s),
                        Known(t), rows[s].key = rows[t].key,
                        rows[s].attempt = rows[t].attempt,
                        rows[s].at <= rows[t].at
                 PROVE  \E n \in 0 .. rows[t].at :
                           rows[s].at < n * Window /\ n * Window <= rows[t].at
    BY DEF SplitOnlyAtEdge
  <2> DEFINE a == rows[s].at
             b == rows[t].at
             m == WindowBucket(a)
             n == WindowBucket(b)
  <2>2. a \in Nat /\ b \in Nat
    BY <2>1 DEF Inv, TypeOK, Row
  <2>3. m # n
    BY <2>1 DEF Inv, Unique, RowSound
  <2>4. /\ m \in Nat /\ m * Window <= a /\ a < (m + 1) * Window
        /\ n \in Nat /\ n * Window <= b /\ b < (n + 1) * Window
    BY <2>2, Quotient
  <2>5. m < n
    <3>1. SUFFICES ASSUME n + 1 <= m PROVE FALSE
      BY <2>3, <2>4
    <3>2. (n + 1) * Window <= m * Window /\ (n + 1) * Window \in Nat
          /\ m * Window \in Nat
      BY <2>4, <3>1, Times
    <3> HIDE DEF a, b, m, n
    <3> QED
      BY <2>1, <2>2, <2>4, <3>2 DEF a, b
  <2>6. (m + 1) * Window <= n * Window /\ n * Window \in Nat
        /\ (m + 1) * Window \in Nat
    BY <2>4, <2>5, Times
  <2>7. a < n * Window
    BY <2>2, <2>4, <2>6
  <2>8. n \in 0 .. b
    BY <2>2, <2>4, <2>6, WindowAssumption
  <2> QED
    BY <2>4, <2>7, <2>8
<1> QED
  BY <1>1, Invariance, PTL

-----------------------------------------------------------------------------
(* The promise                                                              *)

(* No row is added, and every row stands for the same grant.                *)
RowsStand == \A s \in Ids : /\ Known(s)' <=> Known(s)
                            /\ Known(s) => Grant(s)' = Grant(s)

LEMMA StatusStands ==
    ASSUME Inv, NEW t \in Ids, NEW st \in Statuses \ {"none"}, Known(t),
           rows' = [rows EXCEPT ![t].status = st]
    PROVE  RowsStand
<1>1. /\ rows[t] \in Row /\ rows'[t] = [rows[t] EXCEPT !.status = st]
      /\ \A s \in Ids : s # t => rows'[s] = rows[s]
  BY DEF Inv, TypeOK
<1>2. /\ rows'[t].status = st /\ rows'[t].key = rows[t].key
      /\ rows'[t].attempt = rows[t].attempt /\ rows'[t].bucket = rows[t].bucket
      /\ rows'[t].digest = rows[t].digest /\ rows'[t].parent = rows[t].parent
  BY <1>1 DEF Row
<1> QED BY <1>1, <1>2 DEF RowsStand, Known, Grant

LEMMA HandledStands ==
    ASSUME Inv, NEW t \in Ids, NEW n \in Natives, Handled(t, n)
    PROVE  RowsStand
<1>1. Outcome(n) \in Statuses \ {"none"}
  BY DEF Outcome, Natives, Statuses, Accepted
<1>2. \/ rows' = rows
      \/ Known(t) /\ rows' = [rows EXCEPT ![t].status = Outcome(n)]
  BY DEF Handled, MarksSubmitted, Accepted, Known
<1>3. rows' = rows => RowsStand
  BY DEF RowsStand, Known, Grant
<1> QED BY <1>1, <1>2, <1>3, StatusStands

(* Every step inserts a row, or leaves the rows standing and tells one      *)
(* caller or has one task created, or does neither.                         *)
Tells == UNCHANGED made /\ \E a : said' = said \cup {a}
HasCreated ==
    /\ UNCHANGED said
    /\ \E t \in Ids, b \in Body \cup {Empty} : made' = [made EXCEPT ![t] = b]
OneMove == RowsStand /\ (UNCHANGED <<made, said>> \/ Tells \/ HasCreated)

LEMMA TaskMoves ==
    ASSUME Inv, NEW t \in Ids, TaskStep(t)
    PROVE  OneMove
<1>1. CASE WorkerHandle(t)
  BY <1>1, HandledStands DEF WorkerHandle, OneMove
<1>2. CASE WorkerArchive(t)
  BY <1>2 DEF WorkerArchive, OneMove, RowsStand, Known, Grant
<1>3. CASE WorkerGivesUp(t) \/ Stalled(t) \/ Expired(t) \/ Confirm(t)
  <2>1. Known(t) /\ \E st \in Statuses \ {"none"} :
                       rows' = [rows EXCEPT ![t].status = st]
    BY <1>3 DEF WorkerGivesUp, Stalled, Expired, Confirm, Accepted, Statuses,
                Known
  <2>2. UNCHANGED <<made, said>>
    BY <1>3 DEF WorkerGivesUp, Stalled, Expired, Confirm
  <2> QED BY <2>1, <2>2, StatusStands DEF OneMove
<1>4. ASSUME NEW n \in Natives, WorkerSubmit(t, n) PROVE OneMove
  <2>1. /\ Known(t) /\ rows' = [rows EXCEPT ![t].status = "intended"]
        /\ UNCHANGED said /\ Creates(t, bodies[t], n)
    BY <1>4 DEF WorkerSubmit, Known
  <2>2. RowsStand
    BY <2>1, StatusStands DEF Statuses, Accepted
  <2>3. bodies[t] \in Body \cup {Empty}
    BY <2>1 DEF Inv, TypeOK, RowSound
  <2> QED BY <2>1, <2>2, <2>3 DEF OneMove, HasCreated, Creates
<1> QED BY <1>1, <1>2, <1>3, <1>4 DEF TaskStep

LEMMA InlineMoves ==
    ASSUME Inv, NEW g \in Gateways, InlineStep(g)
    PROVE  OneMove
<1>0. /\ own[g] \in Ids /\ Known(own[g]) /\ req[g] \in Req
      /\ req[g].body \in Body
  BY InlineFacts DEF InlineStep, InlineClaim, InlineDenied, InlineCall,
     InlineHandle, InlineArchive, InlineReload, InlineReply, InlinePlaces
<1>1. rows' = rows => RowsStand
  BY DEF RowsStand, Known, Grant
<1>2. CASE InlineClaim(g)
  <2>1. CASE rows' = [rows EXCEPT ![own[g]].status = "intended"]
    <3>1. RowsStand
      BY <1>0, <2>1, StatusStands DEF Statuses, Accepted
    <3> QED BY <1>2, <3>1 DEF InlineClaim, OneMove, Tells, Says
  <2>2. CASE rows' = rows
    BY <1>1, <1>2, <2>2 DEF InlineClaim, OneMove, Tells, Says
  <2> QED BY <1>2, <2>1, <2>2 DEF InlineClaim
<1>3. CASE InlineDenied(g)
  BY <1>0, <1>3, HandledStands DEF InlineDenied, OneMove, Natives
<1>4. CASE InlineHandle(g)
  BY <1>0, <1>4, HandledStands DEF InlineHandle, OneMove, Req
<1>5. CASE InlineArchive(g) \/ InlineReload(g)
  BY <1>1, <1>5 DEF InlineArchive, InlineReload, OneMove
<1>6. CASE InlineReply(g)
  BY <1>1, <1>6 DEF InlineReply, OneMove, Tells, Says
<1>7. ASSUME NEW n \in Natives, InlineCall(g, n) PROVE OneMove
  BY <1>0, <1>1, <1>7 DEF InlineCall, OneMove, HasCreated, Creates
<1> QED BY <1>2, <1>3, <1>4, <1>5, <1>6, <1>7 DEF InlineStep

LEMMA NextMoves ==
    ASSUME Inv, [Next]_vars
    PROVE  OneMove \/ \E g \in Gateways, t \in Ids : Insert(g, t)
<1>1. rows' = rows => RowsStand
  BY DEF RowsStand, Known, Grant
<1>2. ASSUME NEW g \in Gateways, RequestStep(g)
      PROVE  OneMove \/ \E t \in Ids : Insert(g, t)
  <2>1. CASE Enqueue(g) \/ Repeat(g)
    BY <1>1, <2>1 DEF Enqueue, Repeat, OneMove, Tells, Says
  <2>2. CASE Find(g) \/ Crash(g) \/ \E o \in Offers : Arrive(g, o)
    BY <1>1, <2>2 DEF Find, Crash, Arrive, OneMove
  <2>3. CASE \/ \E t \in Ids : InsertLost(g, t)
             \/ \E t \in Ids, b \in Body \cup {Empty} : Replay(g, t, b)
    BY <1>1, <2>3 DEF InsertLost, Replay, OneMove
  <2> QED BY <1>2, <2>1, <2>2, <2>3, InlineMoves DEF RequestStep
<1>3. CASE Tick \/ UNCHANGED vars
  BY <1>1, <1>3 DEF Tick, vars, OneMove
<1> QED BY <1>2, <1>3, TaskMoves DEF Next

(* So a grant, once given, stands.                                          *)
LEMMA GrantStands ==
    ASSUME Inv, [Next]_vars, NEW s \in Ids, Known(s)
    PROVE  Known(s)' /\ Grant(s)' = Grant(s)
<1>1. ASSUME NEW g \in Gateways, NEW t \in Ids, Insert(g, t)
      PROVE  Known(s)' /\ Grant(s)' = Grant(s)
  <2>1. s # t /\ rows'[s] = rows[s]
    BY <1>1 DEF Insert, Inv, TypeOK
  <2> QED BY <2>1 DEF Known, Grant
<1> QED BY <1>1, NextMoves DEF OneMove, RowsStand

-----------------------------------------------------------------------------
(* Replays                                                                  *)

(* A task of which it is certain that the upstream never gets it: it is     *)
(* dead, the upstream does not have it and no create call for it is under   *)
(* way.                                                                     *)
Barren(p) == rows[p].status = "dead" /\ made[p] = NoOne /\ ~InFlight(p)

(* Every task that is being or has been replayed is so.                     *)
ParentsBarren ==
    /\ \A t \in Ids : Known(t) /\ rows[t].parent # NoOne
                        => Barren(rows[t].parent)
    /\ \A g \in Gateways : pc[g] # "idle" /\ req[g].parent # NoOne
                             => Barren(req[g].parent)

(* Dead tasks stay dead, and nothing submits them any more.                 *)
LEMMA DeadStays ==
    ASSUME Inv, [Next]_vars, NEW p \in Ids, rows[p].status = "dead"
    PROVE  rows'[p].status = "dead"
<1> USE DEF Inv, TypeOK
<1>1. CASE UNCHANGED rows
  BY <1>1
<1>2. ASSUME NEW t \in Ids, NEW n, Handled(t, n)
      PROVE  rows'[p].status = "dead"
  <2>1. rows' = rows \/ (t # p /\ rows' = [rows EXCEPT ![t].status = Outcome(n)])
    BY <1>2 DEF Handled, MarksSubmitted, Accepted
  <2> QED
    BY <2>1
<1>3. ASSUME NEW t \in Ids, TaskStep(t) PROVE rows'[p].status = "dead"
  BY <1>1, <1>2, <1>3 DEF TaskStep, WorkerSubmit, WorkerGivesUp, WorkerHandle,
     WorkerArchive, Stalled, Expired, Confirm, Accepted
<1>4. ASSUME NEW g \in Gateways, InlineStep(g) PROVE rows'[p].status = "dead"
  <2>1. own[g] \in Ids
    BY <1>4, InlineFacts DEF InlineStep, InlineClaim, InlineDenied, InlineCall,
       InlineHandle, InlineArchive, InlineReload, InlineReply, InlinePlaces
  <2> QED
    BY <1>1, <1>2, <1>4, <2>1 DEF InlineStep, InlineClaim, InlineDenied,
       InlineCall, InlineHandle, InlineArchive, InlineReload, InlineReply
<1>5. ASSUME NEW g \in Gateways, RequestStep(g) PROVE rows'[p].status = "dead"
  <2>1. ASSUME NEW t \in Ids, Insert(g, t) PROVE rows'[p].status = "dead"
    BY <2>1 DEF Insert, Known
  <2> QED
    BY <1>1, <1>4, <1>5, <2>1 DEF RequestStep, Arrive, Find, InsertLost,
       Enqueue, Repeat, Crash, Replay
<1> QED
  BY <1>1, <1>3, <1>5 DEF Next, Tick, vars

LEMMA BarrenStays ==
    ASSUME Inv, [Next]_vars, NEW p \in Ids, Barren(p)
    PROVE  Barren(p)'
<1> USE DEF Inv, TypeOK
<1>1. rows[p].status = "dead" /\ rows'[p].status = "dead"
  BY DeadStays DEF Barren
<1>2. made'[p] = NoOne
  <2>1. CASE UNCHANGED made
    BY <2>1 DEF Barren
  <2>2. ASSUME NEW t \in Ids, NEW n \in Natives, WorkerSubmit(t, n)
        PROVE  made'[p] = NoOne
    BY <1>1, <2>2 DEF WorkerSubmit, Creates, Barren
  <2>3. ASSUME NEW g \in Gateways, NEW n \in Natives, InlineCall(g, n)
        PROVE  made'[p] = NoOne
    BY <2>3 DEF InlineCall, Creates, Barren, InFlight
  <2>4. ASSUME NEW t \in Ids, TaskStep(t) PROVE made'[p] = NoOne
    BY <2>1, <2>2, <2>4 DEF TaskStep, WorkerGivesUp, WorkerHandle,
       WorkerArchive, Stalled, Expired, Confirm
  <2>5. ASSUME NEW g \in Gateways, InlineStep(g) PROVE made'[p] = NoOne
    BY <2>1, <2>3, <2>5 DEF InlineStep, InlineClaim, InlineDenied,
       InlineHandle, InlineArchive, InlineReload, InlineReply
  <2>6. ASSUME NEW g \in Gateways, RequestStep(g) PROVE made'[p] = NoOne
    BY <2>1, <2>5, <2>6 DEF RequestStep, Arrive, Find, Insert, InsertLost,
       Enqueue, Repeat, Crash, Replay
  <2> QED
    BY <2>1, <2>4, <2>6 DEF Next, Tick, vars
<1>3. \A g \in Gateways : ~(own'[g] = p /\ pc'[g] = "slot")
  <2> TAKE g \in Gateways
  <2>0. ~(own[g] = p /\ pc[g] = "slot")
    BY DEF Barren, InFlight
  <2>1. CASE UNCHANGED <<pc, own>>
    BY <2>0, <2>1
  <2>2. ASSUME NEW h \in Gateways, Ends(h)
        PROVE  ~(own'[g] = p /\ pc'[g] = "slot")
    BY <2>0, <2>2 DEF Ends
  <2>3. ASSUME NEW h \in Gateways, NEW q, Goto(h, q), q # "slot",
               \A i \in Gateways : i # h => own'[i] = own[i]
        PROVE  ~(own'[g] = p /\ pc'[g] = "slot")
    BY <2>0, <2>3 DEF Goto
  <2>4. ASSUME NEW h \in Gateways, InlineStep(h)
        PROVE  ~(own'[g] = p /\ pc'[g] = "slot")
    <3>1. CASE InlineClaim(h)
      BY <1>1, <2>0, <2>2, <3>1 DEF InlineClaim, Goto
    <3>2. CASE InlineDenied(h) \/ InlineReply(h)
      BY <2>2, <3>2 DEF InlineDenied, InlineReply
    <3>3. CASE \/ InlineHandle(h) \/ InlineArchive(h) \/ InlineReload(h)
               \/ \E n \in Natives : InlineCall(h, n)
      <4>1. UNCHANGED own /\ \E q : Goto(h, q) /\ q # "slot"
        BY <3>3 DEF InlineHandle, InlineArchive, InlineReload, InlineCall, Goto
      <4> QED
        BY <2>3, <4>1
    <3> QED
      BY <2>4, <3>1, <3>2, <3>3 DEF InlineStep
  <2>5. ASSUME NEW h \in Gateways, RequestStep(h)
        PROVE  ~(own'[g] = p /\ pc'[g] = "slot")
    <3>1. CASE Enqueue(h) \/ Repeat(h) \/ Crash(h)
      BY <2>2, <3>1 DEF Enqueue, Repeat, Crash
    <3>2. CASE Find(h)
      BY <2>3, <3>2 DEF Find
    <3>3. ASSUME NEW t \in Ids, Insert(h, t)
          PROVE  ~(own'[g] = p /\ pc'[g] = "slot")
      BY <2>3, <3>3 DEF Insert
    <3>4. ASSUME NEW t \in Ids, InsertLost(h, t)
          PROVE  ~(own'[g] = p /\ pc'[g] = "slot")
      BY <2>2, <2>3, <3>4 DEF InsertLost
    <3>5. ASSUME NEW o \in Offers, Arrive(h, o)
          PROVE  ~(own'[g] = p /\ pc'[g] = "slot")
      BY <2>3, <3>5 DEF Arrive
    <3>6. ASSUME NEW t \in Ids, NEW b, Replay(h, t, b)
          PROVE  ~(own'[g] = p /\ pc'[g] = "slot")
      BY <2>3, <3>6 DEF Replay
    <3> QED
      BY <2>4, <2>5, <3>1, <3>2, <3>3, <3>4, <3>5, <3>6 DEF RequestStep
  <2>6. ASSUME NEW t \in Ids, TaskStep(t) PROVE UNCHANGED <<pc, own>>
    BY <2>6 DEF TaskStep, WorkerSubmit, WorkerGivesUp, WorkerHandle,
       WorkerArchive, Stalled, Expired, Confirm
  <2> QED
    BY <2>1, <2>5, <2>6 DEF Next, Tick, vars
<1> QED
  BY <1>1, <1>2, <1>3 DEF Barren, InFlight

(* The parent of a row is that of the request that inserted it.             *)
LEMMA ParentOfRow ==
    ASSUME Inv, [Next]_vars, NEW t \in Ids, Known(t)'
    PROVE  \/ Known(t) /\ rows'[t].parent = rows[t].parent
           \/ \E g \in Gateways : /\ pc[g] # "idle"
                                  /\ rows'[t].parent = req[g].parent
<1>1. CASE RowsStand
  BY <1>1 DEF RowsStand, Grant
<1>2. ASSUME NEW g \in Gateways, NEW s \in Ids, Insert(g, s)
      PROVE  \/ Known(t) /\ rows'[t].parent = rows[t].parent
             \/ pc[g] # "idle" /\ rows'[t].parent = req[g].parent
  BY <1>2 DEF Insert, NewRow, Known, Inv, TypeOK
<1> QED BY <1>1, <1>2, NextMoves DEF OneMove

(* The request is about the next attempt of the task.                       *)
Follows(r, p) == /\ Known(p) /\ r.key = rows[p].key
                 /\ r.attempt = rows[p].attempt + 1
                 /\ r.digest = rows[p].digest

(* The request goes on with what it is about.                               *)
SameReq(g) == /\ req'[g].parent = req[g].parent /\ req'[g].key = req[g].key
              /\ req'[g].attempt = req[g].attempt
              /\ req'[g].digest = req[g].digest

(* A request is about what it was about before, or has no parent, or its    *)
(* parent may be replayed now.                                              *)
LEMMA ParentOfReq ==
    ASSUME Inv, [Next]_vars, NEW g \in Gateways, pc'[g] # "idle"
    PROVE  \/ pc[g] # "idle" /\ SameReq(g)
           \/ req'[g].parent = NoOne
           \/ MayReplay(req'[g].parent) /\ Follows(req'[g], req'[g].parent)
<1> USE DEF Inv, TypeOK
<1> DEFINE Good == \/ pc[g] # "idle" /\ SameReq(g)
                   \/ req'[g].parent = NoOne
                   \/ MayReplay(req'[g].parent) /\ Follows(req'[g], req'[g].parent)
<1>1. CASE UNCHANGED <<pc, req>>
  BY <1>1 DEF SameReq
<1>2. ASSUME NEW h \in Gateways, Ends(h) PROVE Good
  BY <1>2 DEF Ends, SameReq
<1>3. ASSUME NEW h \in Gateways, NEW q, Goto(h, q), pc[h] # "idle", UNCHANGED req
      PROVE  Good
  BY <1>3 DEF Goto, SameReq
<1>4. ASSUME NEW h \in Gateways, InlineStep(h) PROVE Good
  <2>1. CASE InlineClaim(h)
    BY <1>2, <1>3, <2>1 DEF InlineClaim
  <2>2. CASE InlineDenied(h) \/ InlineReply(h)
    BY <1>2, <2>2 DEF InlineDenied, InlineReply
  <2>3. CASE InlineHandle(h) \/ InlineArchive(h)
    BY <1>3, <2>3 DEF InlineHandle, InlineArchive
  <2>4. CASE InlineReload(h) \/ \E n \in Natives : InlineCall(h, n)
    <3>1. /\ pc[h] # "idle" /\ \A i \in Gateways : i # h => pc'[i] = pc[i]
      BY <2>4 DEF InlineReload, InlineCall, Goto
    <3>2. PICK v : req' = [req EXCEPT ![h].seen = v]
                   \/ req' = [req EXCEPT ![h].native = v]
      BY <2>4 DEF InlineReload, InlineCall
    <3>3. /\ \A i \in Gateways : i # h => req'[i] = req[i]
          /\ req[h] \in Req
          /\ req'[h] = [req[h] EXCEPT !.seen = v]
             \/ req'[h] = [req[h] EXCEPT !.native = v]
      BY <3>2
    <3>4. SameReq(h)
      BY <3>3 DEF Req, SameReq
    <3> QED
      BY <3>1, <3>3, <3>4 DEF SameReq
  <2> QED
    BY <1>4, <2>1, <2>2, <2>3, <2>4 DEF InlineStep
<1>5. ASSUME NEW h \in Gateways, RequestStep(h) PROVE Good
  <2>1. CASE Enqueue(h) \/ Repeat(h) \/ Crash(h)
    BY <1>2, <2>1 DEF Enqueue, Repeat, Crash
  <2>2. CASE Find(h)
    BY <1>3, <2>2 DEF Find
  <2>3. ASSUME NEW t \in Ids, Insert(h, t) PROVE Good
    BY <1>3, <2>3 DEF Insert
  <2>4. ASSUME NEW t \in Ids, InsertLost(h, t) PROVE Good
    BY <1>2, <1>3, <2>4 DEF InsertLost
  <2>5. ASSUME NEW o \in Offers, Arrive(h, o) PROVE Good
    BY <2>5 DEF Arrive, Admitted, NewReq, Goto, SameReq
  <2>6. ASSUME NEW t \in Ids, NEW b, Replay(h, t, b) PROVE Good
    BY <2>6 DEF Replay, NewReq, NextAttempt, MayReplay, Goto, SameReq, Follows,
                Known
  <2> QED
    BY <1>4, <1>5, <2>1, <2>2, <2>3, <2>4, <2>5, <2>6 DEF RequestStep
<1>6. ASSUME NEW t \in Ids, TaskStep(t) PROVE UNCHANGED <<pc, req>>
  BY <1>6 DEF TaskStep, WorkerSubmit, WorkerGivesUp, WorkerHandle,
     WorkerArchive, Stalled, Expired, Confirm
<1> QED
  BY <1>1, <1>5, <1>6 DEF Next, Tick, vars

LEMMA ParentsStep ==
    ASSUME ~ConfirmAuto, Inv, Inv', ParentsBarren, [Next]_vars
    PROVE  ParentsBarren'
<1> USE DEF Inv, TypeOK
<1>1. ASSUME NEW t \in Ids, Known(t)', rows'[t].parent # NoOne
      PROVE  \A p : p = rows'[t].parent => Barren(p)'
  <2>1. rows'[t].parent \in Ids
    BY <1>1 DEF Row
  <2>2. \A p \in Ids : p = rows'[t].parent => Barren(p)
    BY <1>1, ParentOfRow DEF ParentsBarren
  <2> QED
    BY <2>1, <2>2, BarrenStays
<1>2. ASSUME NEW g \in Gateways, pc'[g] # "idle", req'[g].parent # NoOne
      PROVE  \A p : p = req'[g].parent => Barren(p)'
  <2>1. req'[g].parent \in Ids
    BY <1>2 DEF Req
  <2>2. \A p \in Ids : p = req'[g].parent => Barren(p)
    BY <1>2, ParentOfReq DEF ParentsBarren, MayReplay, HumanConfirmed, Barren,
                             SameReq
  <2> QED
    BY <2>1, <2>2, BarrenStays
<1> QED
  BY <1>1, <1>2 DEF ParentsBarren, Barren, InFlight

(* Where the template cannot ask the upstream, so that a person has to look *)
(* (X-AG-Human-Confirmed), a replayed task and its replay are never both    *)
(* created: replay_task (admin/app.py:558).                             *)
THEOREM ReplaySafe == ~ConfirmAuto => (Spec => []ReplayCreatesOnce)
<1> SUFFICES ASSUME ~ConfirmAuto PROVE Spec => []ReplayCreatesOnce
  OBVIOUS
<1>1. Init => ParentsBarren
  BY DEF Init, ParentsBarren, NoRow, Known
<1>2. Inv /\ Inv' /\ ParentsBarren /\ [Next]_vars => ParentsBarren'
  BY ParentsStep
<1>3. Inv /\ ParentsBarren => ReplayCreatesOnce
  BY DEF Inv, TaskSound, ParentsBarren, Barren, ReplayCreatesOnce
<1> QED
  BY <1>1, <1>2, <1>3, Invariance, PTL DEF Spec

(* Every replay on its way follows the task it is about.                    *)
ReplaysFollow ==
    \A g \in Gateways : pc[g] # "idle" /\ req[g].parent # NoOne
                          => Follows(req[g], req[g].parent)

LEMMA FollowStep ==
    ASSUME Inv, Inv', ReplaysFollow, [Next]_vars
    PROVE  ReplaysFollow'
<1>1. SUFFICES ASSUME NEW g \in Gateways, pc'[g] # "idle", req'[g].parent # NoOne
               PROVE  \A p : p = req'[g].parent => Follows(req[g], p)'
  BY DEF ReplaysFollow, Follows, Known
<1>2. req'[g].parent \in Ids
  BY <1>1 DEF Inv, TypeOK, Req
<1>3. \A p \in Ids : p = req'[g].parent => Follows(req'[g], p)
  BY <1>1, <1>2, ParentOfReq DEF ReplaysFollow, SameReq, Follows
<1>4. \A p \in Ids : Known(p) => Known(p)' /\ Grant(p)' = Grant(p)
  BY GrantStands
<1> QED BY <1>2, <1>3, <1>4 DEF Follows, Grant

(* An insert takes a key nobody has, for the first attempt or for the next  *)
(* one of a task the upstream does not have.                                *)
LEMMA InsertTakes ==
    ASSUME Inv, Inv', ReplaysFollow, ~ConfirmAuto => ParentsBarren,
           NEW g \in Gateways, NEW t \in Ids, Insert(g, t), [Next]_vars
    PROVE  Promise!Next
<1> DEFINE n == Grant(t)'
<1>0. /\ UNCHANGED <<made, said>> /\ pc[g] = "insert" /\ ~Known(t)
      /\ \A s \in Ids : ~Holds(s, req[g])
      /\ rows' = [rows EXCEPT ![t] = NewRow(req[g])]
  BY DEF Insert
<1>1. /\ rows'[t] = NewRow(req[g]) /\ Known(t)'
      /\ \A s \in Ids : s # t => rows'[s] = rows[s]
  BY <1>0 DEF Inv, TypeOK, NewRow, Known
<1>2. n = [id |-> t, key |-> req[g].key, attempt |-> req[g].attempt,
           bucket |-> req[g].bucket, digest |-> req[g].digest,
           parent |-> req[g].parent]
  BY <1>1 DEF Grant, NewRow
<1> HIDE DEF n
<1>3. Granted' = Granted \cup {n}
  BY <1>0, <1>1 DEF Granted, Known, Grant, n
<1>4. ASSUME NEW h \in Granted PROVE h.id # n.id /\ ~Promise!SameSlot(n, h)
  <2>1. PICK s \in Ids : Known(s) /\ h = Grant(s)
    BY DEF Granted
  <2> QED BY <1>0, <1>2, <2>1 DEF Grant, Holds, Promise!SameSlot
<1>5. IF n.parent = NoOne
      THEN n.attempt = 1
      ELSE \E h \in Granted : /\ Promise!Replays(n, h)
                              /\ ~ConfirmAuto => h.id \notin Created
  <2>1. CASE req[g].parent = NoOne
    BY <1>0, <1>2, <2>1 DEF Inv, ReqSound
  <2>2. CASE req[g].parent # NoOne
    <3>1. PICK p \in Ids : p = req[g].parent
      BY <2>2 DEF Inv, TypeOK, Req
    <3>2. Follows(req[g], p)
      BY <1>0, <2>2, <3>1 DEF ReplaysFollow
    <3>3. ~ConfirmAuto => p \notin Created
      BY <1>0, <2>2, <3>1 DEF ParentsBarren, Barren, Created
    <3>4. Grant(p) \in Granted
      BY <3>2 DEF Granted, Follows
    <3>5. Promise!Replays(n, Grant(p))
      BY <1>2, <3>1, <3>2 DEF Promise!Replays, Grant, Follows
    <3>6. Grant(p).id = p
      BY DEF Grant
    <3> QED BY <1>2, <2>2, <3>3, <3>4, <3>5, <3>6
  <2> QED BY <2>1, <2>2
<1>6. Created' = Created
  BY <1>0 DEF Created
<1>7. Promise!Take(n)
  BY <1>0, <1>3, <1>4, <1>5, <1>6 DEF Promise!Take
<1> QED BY <1>3, <1>7 DEF Promise!Next

LEMMA SameGrants ==
    ASSUME RowsStand
    PROVE  Granted' = Granted
BY DEF RowsStand, Granted

(* An answer names the task that has the caller's key and body.             *)
LEMMA AnswerTells ==
    ASSUME Inv', RowsStand, UNCHANGED made, NEW a, said' = said \cup {a}
    PROVE  Promise!Next
<1>1. SaidSound(a)' /\ a \in said' /\ a.id \in Ids
  BY DEF Inv, SaidSound
<1>2. PICK t \in Ids : t = a.id
  BY <1>1
<1>3. /\ Known(t)' /\ rows'[t].attempt = 1 /\ rows'[t].key = a.key
      /\ rows'[t].bucket = a.bucket /\ rows'[t].digest = a.digest
      /\ a.ok => made'[t] # NoOne
  BY <1>1, <1>2 DEF Inv, SaidSound, RowSound, Known
<1>4. Grant(t)' \in Granted'
  BY <1>3 DEF Granted
<1>5. \E g \in Granted : /\ g.id = a.id /\ g.attempt = 1 /\ g.key = a.key
                         /\ g.bucket = a.bucket /\ g.digest = a.digest
  BY <1>2, <1>3, <1>4, SameGrants DEF Grant
<1>6. Created' = Created /\ (a.ok => a.id \in Created)
  BY <1>2, <1>3 DEF Created
<1>7. Promise!Tell(a)
  BY <1>5, <1>6, SameGrants DEF Promise!Tell
<1> QED BY <1>1, <1>7 DEF Promise!Next

(* What the upstream creates was accepted, and has no replay.               *)
LEMMA CallCreates ==
    ASSUME Inv, Inv', ~ConfirmAuto => ParentsBarren', RowsStand, UNCHANGED said,
           NEW t \in Ids, NEW b \in Body \cup {Empty},
           made' = [made EXCEPT ![t] = b]
    PROVE  Promise!Next
<1>1. made'[t] # NoOne /\ Created' = Created \cup {t}
  BY NamesAssumption DEF Inv, TypeOK, Created
<1>2. Known(t)'
  BY <1>1 DEF Inv, TaskSound
<1>3. Grant(t) \in Granted /\ Grant(t).id = t
  BY <1>2 DEF RowsStand, Granted, Grant
<1>4. ASSUME ~ConfirmAuto, NEW g \in Granted PROVE g.parent # t
  <2>1. PICK s \in Ids : Known(s)' /\ g = Grant(s)'
    BY SameGrants DEF Granted
  <2>2. g.parent = rows'[s].parent
    BY <2>1 DEF Grant
  <2>3. rows'[s].parent = t => Barren(t)'
    BY <1>4, <2>1, NamesAssumption DEF ParentsBarren, Barren, InFlight
  <2> QED BY <1>1, <2>2, <2>3 DEF Barren
<1>5. Promise!Create(t)
  BY <1>1, <1>3, <1>4, SameGrants DEF Promise!Create
<1> QED BY <1>5 DEF Promise!Next

LEMMA PromiseStep ==
    ASSUME Inv, Inv', ReplaysFollow, ~ConfirmAuto => ParentsBarren,
           ~ConfirmAuto => ParentsBarren', [Next]_vars
    PROVE  Promise!Next \/ UNCHANGED Promise!promise
<1>1. ASSUME NEW g \in Gateways, NEW t \in Ids, Insert(g, t)
      PROVE  Promise!Next
  BY <1>1, InsertTakes
<1>2. CASE RowsStand /\ UNCHANGED <<made, said>>
  BY <1>2, SameGrants DEF Promise!promise, Created
<1>3. CASE RowsStand /\ Tells
  BY <1>3, AnswerTells DEF Tells
<1>4. CASE RowsStand /\ HasCreated
  BY <1>4, CallCreates DEF HasCreated
<1> QED BY <1>1, <1>2, <1>3, <1>4, NextMoves DEF OneMove

(* Requests, workers, the inspector and the operator together implement the *)
(* promise of module Idempotency, for every template: accept_create and     *)
(* replay_task take a key once and for all, however they race, and where    *)
(* the template cannot ask the upstream a replay is exclusive.              *)
THEOREM KeepsPromise == Spec => PromiseKept
<1> DEFINE Safe == ~ConfirmAuto => ParentsBarren
<1>1. Init => Promise!Init /\ ReplaysFollow /\ Safe
  BY DEF Init, Promise!Init, Granted, Created, Known, NoRow, ReplaysFollow,
         ParentsBarren
<1>2. Inv /\ Inv' /\ ReplaysFollow /\ [Next]_vars => ReplaysFollow'
  BY FollowStep
<1>3. Inv /\ Inv' /\ Safe /\ [Next]_vars => Safe'
  BY ParentsStep
<1>4. Inv /\ Inv' /\ ReplaysFollow /\ Safe /\ Safe' /\ [Next]_vars =>
         [Promise!Next]_(Promise!promise)
  BY PromiseStep
<1> HIDE DEF Safe
<1> QED BY Invariance, <1>1, <1>2, <1>3, <1>4, PTL
        DEF Spec, PromiseKept, Promise!Spec

=============================================================================
