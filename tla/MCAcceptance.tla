---------------------------- MODULE MCAcceptance ----------------------------
(* Model checking of Acceptance on small instances: task ids, and requests  *)
(* in progress, are interchangeable.                                        *)
EXTENDS Acceptance, TLC

(* One key with two different bodies.                                       *)
Sent(key, content) ==
    [explicit |-> key, cred |-> CHOOSE c \in Creds : TRUE,
     body |-> <<content, CHOOSE w \in Spellings : TRUE>>]
CONSTANTS k1, x, y
MCOffers == {Sent(k1, x), Sent(k1, y)}

Symmetry == Permutations(Ids) \cup Permutations(Gateways)
            \cup Permutations(Contents)

=============================================================================
