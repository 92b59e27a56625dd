\* A template that confirms and re-creates on its own, an unreliable upstream,
\* a caller who queries, an operator who closes, crashes.
SPECIFICATION Spec

CONSTANTS
    Workers = {w1}
    Gateways = {g1}
    Uids = {u1, u2}
    NoId = NoId
    MaxAttempts = 2
    MaxExt = 0
    Poll404Threshold = 2
    ConfirmAuto = TRUE
    CanCancel = TRUE
    Inline = FALSE
    Source = "callback"
    Requests = {"query", "close"}
    Faulty = {"crash"}
    Outcomes = {"succeeded", "failed"}
    Noise = {"missing"}
    AttemptsCap = 2

SYMMETRY Symmetry

INVARIANT PolledTaskExists
INVARIANT UnknownStaysDue
PROPERTY VerdictStands
