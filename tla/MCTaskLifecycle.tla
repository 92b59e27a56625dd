--------------------------- MODULE MCTaskLifecycle ---------------------------
(* Model checking of TaskLifecycle on small instances: workers, and the     *)
(* upstream's tasks, are interchangeable.                                   *)
EXTENDS TaskLifecycle, TLC

Symmetry == Permutations(Workers) \cup Permutations(Uids)

=============================================================================
