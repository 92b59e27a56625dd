---------------------------- MODULE MCGovernance ----------------------------
(* Model checking of Governance: one alias from a file and one new one, and *)
(* a change of each kind.                                                   *)
EXTENDS Governance, TLC

CONSTANTS old, new

Plain == [judge |-> 0, shape |-> 0, nested |-> 0, success |-> {"done"},
          failure |-> {"error"}, expired |-> {}, located |-> TRUE,
          matching |-> FALSE, attempts |-> 1, window |-> 1, callback |-> FALSE,
          source |-> "poll", mode |-> "store", permanent |-> FALSE]
MCFiles == [a \in Aliases |-> IF a = old THEN <<Plain>> ELSE <<>>]
MCDrafts == {[Plain EXCEPT !.judge = 1],
             [Plain EXCEPT !.shape = 1],
             [Plain EXCEPT !.nested = 1],
             [Plain EXCEPT !.failure = {"done"}]}

Symmetry == Permutations(Actors) \cup Permutations(TicketIds)

=============================================================================
