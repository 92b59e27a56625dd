---------------------------- MODULE StateMachine ----------------------------
(***************************************************************************)
(* The task status state machine of the gateway (domain/state_machine.py,  *)
(* domain/enums.py) and the status tables of the data-access layer         *)
(* (db/dao.py).  Every process that moves a task - gateway, workers,       *)
(* scheduler, inspector, admin console - goes through these tables.        *)
(***************************************************************************)

TaskStatus ==
    {"accepted", "upstream_submitted", "in_progress", "submit_unknown",
     "poll_unrecognized", "failed", "succeeded", "cancelled", "timeout",
     "dead", "dead_awaiting_confirm"}

InternalTerminal == {"timeout", "dead", "dead_awaiting_confirm"}

BusinessTerminal == InternalTerminal \cup {"succeeded", "cancelled"}

(* ALLOWED_TRANSITIONS: the whitelist of moves between statuses.            *)
AllowedTargets(src) ==
    CASE src = "accepted" ->
            {"upstream_submitted", "cancelled", "submit_unknown", "dead",
             "dead_awaiting_confirm", "timeout"}
      [] src = "upstream_submitted" ->
            {"in_progress", "succeeded", "failed", "cancelled", "timeout",
             "dead", "dead_awaiting_confirm", "submit_unknown",
             "poll_unrecognized"}
      [] src = "in_progress" ->
            {"succeeded", "failed", "cancelled", "timeout", "dead",
             "dead_awaiting_confirm", "poll_unrecognized", "submit_unknown"}
      [] src = "submit_unknown" ->
            {"upstream_submitted", "dead_awaiting_confirm", "accepted"}
      [] src = "poll_unrecognized" ->
            {"in_progress", "dead_awaiting_confirm", "timeout", "succeeded",
             "failed"}
      [] src = "failed" ->
            {"upstream_submitted", "submit_unknown", "dead",
             "dead_awaiting_confirm", "cancelled"}
      [] src = "dead_awaiting_confirm" -> {"dead"}
      [] OTHER -> {}

CanTransition(src, dst) == dst \in AllowedTargets(src)

(* The statuses a task can still be rescheduled in.                         *)
ActiveStatuses ==
    {"accepted", "upstream_submitted", "in_progress", "submit_unknown",
     "poll_unrecognized", "failed"}

(* The statuses in which a caller's cancel request is still taken.          *)
CancelPreconditions ==
    {"accepted", "upstream_submitted", "in_progress", "submit_unknown"}

(* The handler the scheduler dispatches for a due task.                     *)
DispatchByStatus(status) ==
    CASE status \in {"upstream_submitted", "in_progress", "poll_unrecognized"}
            -> "poll_upstream"
      [] status = "submit_unknown" -> "compensate_orphan"
      [] status \in {"failed", "accepted"} -> "submit_upstream"

=============================================================================
