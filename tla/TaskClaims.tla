----------------------------- MODULE TaskClaims -----------------------------
(***************************************************************************)
(* What the repository's documents say of the life of a task, in the terms *)
(* of module TaskLifecycle, and the code does not do: a run refutes it.    *)
(***************************************************************************)
EXTENDS TaskLifecycle

(* A failed task is resubmitted by submit_upstream until its attempts are   *)
(* used up, and then dead: it does not stay failed.  (mark_submit_intent    *)
(* only takes accepted rows.)                                               *)
FailedIsResolved == (row.status = "failed") ~> (row.status # "failed")

=============================================================================
