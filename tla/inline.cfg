\* Inline submission against the queue, no upstream cancel, every fault.
SPECIFICATION Spec

CONSTANTS
    Workers = {w1}
    Gateways = {g1}
    Uids = {u1, u2}
    NoId = NoId
    MaxAttempts = 1
    MaxExt = 1
    Poll404Threshold = 2
    ConfirmAuto = FALSE
    CanCancel = FALSE
    Inline = TRUE
    Source = "callback"
    Requests = {"cancel"}
    Faulty = {"crash", "lose", "redeliver", "expire"}
    Outcomes = {"expired", "succeeded"}
    Noise = {"conflict", "garbled", "throttled", "channel_fault", "ssrf"}
    AttemptsCap = 3

SYMMETRY Symmetry

INVARIANT IntentCoversCreate
INVARIANT OneCreation
INVARIANT SuccessIsReal
PROPERTY IdIsStable
