---------------------------- MODULE TaskContract ----------------------------
(***************************************************************************)
(* What the gateway promises the caller of one accepted create request     *)
(* whose template never re-creates on its own: at most one upstream task,  *)
(* one lasting verdict, success only for the upstream task whose id the    *)
(* caller was given, cancellation only on request.                         *)
(***************************************************************************)
CONSTANTS Uids, NoId

VARIABLES
    made,     \* tasks the upstream created
    won,      \* those of them that succeeded
    id,       \* the upstream id the gateway knows
    asked,    \* the caller asked for cancellation
    verdict   \* "pending" until the gateway has decided

contract == <<made, won, id, asked, verdict>>

Decided == {"succeeded", "cancelled", "timeout", "dead", "review"}

Init ==
    made = {} /\ won = {} /\ id = NoId /\ asked = FALSE /\ verdict = "pending"

Create(u) ==
    /\ made = {} /\ made' = {u}
    /\ UNCHANGED <<won, id, asked, verdict>>

Succeed(u) ==
    /\ u \in made /\ won' = won \cup {u}
    /\ UNCHANGED <<made, id, asked, verdict>>

Learn(u) ==
    /\ u \in made /\ id = NoId /\ id' = u
    /\ UNCHANGED <<made, won, asked, verdict>>

Ask ==
    /\ verdict = "pending" /\ asked' = TRUE
    /\ UNCHANGED <<made, won, id, verdict>>

Decide(v) ==
    /\ verdict = "pending" /\ verdict' = v
    /\ v = "succeeded" => id \in won
    /\ v = "cancelled" => asked
    /\ UNCHANGED <<made, won, id, asked>>

Close ==
    /\ verdict = "review" /\ verdict' = "dead"
    /\ UNCHANGED <<made, won, id, asked>>

Next ==
    \/ \E u \in Uids : Create(u) \/ Succeed(u) \/ Learn(u)
    \/ Ask \/ (\E v \in Decided : Decide(v)) \/ Close

Spec == Init /\ [][Next]_contract

=============================================================================
