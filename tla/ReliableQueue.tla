---------------------------- MODULE ReliableQueue ----------------------------
(***************************************************************************)
(* What a queue promises those who enqueue: a message is kept until some   *)
(* handler has returned from it, may be handled more than once, and does   *)
(* not come back once it has been taken off.                               *)
(***************************************************************************)
CONSTANT Messages

VARIABLES
    put,      \* messages that were put into the queue
    kept,     \* those that are to be handled, or handled again
    done      \* those a handler has returned from

queue == <<put, kept, done>>

Init == put = {} /\ kept = {} /\ done = {}

Put(m) ==
    /\ m \notin put
    /\ put' = put \cup {m} /\ kept' = kept \cup {m}
    /\ UNCHANGED done

Handle(m) ==
    /\ m \in put
    /\ done' = done \cup {m}
    /\ UNCHANGED <<put, kept>>

TakeOff(m) ==
    /\ m \in done
    /\ kept' = kept \ {m}
    /\ UNCHANGED <<put, done>>

Next == \E m \in Messages : Put(m) \/ Handle(m) \/ TakeOff(m)

Spec == Init /\ [][Next]_queue

=============================================================================
