----------------------------- MODULE Idempotency -----------------------------
(***************************************************************************)
(* What acceptance promises: an idempotency key, in one window, belongs to *)
(* the task that takes it first and to no other, whoever asks again and    *)
(* however requests race.  Callers are told of that task or of none, and   *)
(* nothing they were told is taken back.  A replay is the next attempt of  *)
(* a task under the same key with the same body; where replays are         *)
(* exclusive the upstream gets at most one of the two.                     *)
(*                                                                         *)
(* Keys, attempts and windows are not enumerated: Next speaks of what has  *)
(* just been taken or told.                                                *)
(***************************************************************************)
EXTENDS Naturals

CONSTANTS Tasks, NoOne, Exclusive

VARIABLES
    taken,    \* which task has taken which key, for which body, replaying whom
    created,  \* tasks the upstream was made to create
    told      \* answers to callers

promise == <<taken, created, told>>

Init == taken = {} /\ created = {} /\ told = {}

SameSlot(g, h) ==
    g.key = h.key /\ g.attempt = h.attempt /\ g.bucket = h.bucket

Replays(g, h) ==
    /\ g.parent = h.id
    /\ g.key = h.key /\ g.attempt = h.attempt + 1 /\ g.digest = h.digest

Take(g) ==
    /\ \A h \in taken : h.id # g.id /\ ~SameSlot(g, h)
    /\ IF g.parent = NoOne
       THEN g.attempt = 1
       ELSE \E h \in taken : /\ Replays(g, h)
                             /\ Exclusive => h.id \notin created
    /\ taken' = taken \cup {g}
    /\ UNCHANGED <<created, told>>

Create(t) ==
    /\ \E g \in taken : g.id = t
    /\ Exclusive => \A g \in taken : g.parent # t
    /\ created' = created \cup {t}
    /\ UNCHANGED <<taken, told>>

Tell(a) ==
    /\ \E g \in taken : /\ g.id = a.id /\ g.attempt = 1
                        /\ g.key = a.key /\ g.bucket = a.bucket
                        /\ g.digest = a.digest
    /\ a.ok => a.id \in created
    /\ told' = told \cup {a}
    /\ UNCHANGED <<taken, created>>

Next ==
    \/ \E g \in taken' : Take(g)
    \/ \E t \in Tasks : Create(t)
    \/ \E a \in told' : Tell(a)

Spec == Init /\ [][Next]_promise

=============================================================================
