\* Two workers, a caller who cancels, crashes anywhere.
SPECIFICATION Spec

CONSTANTS
    Workers = {w1, w2}
    Gateways = {g1}
    Uids = {u1, u2}
    NoId = NoId
    MaxAttempts = 1
    MaxExt = 0
    Poll404Threshold = 2
    ConfirmAuto = FALSE
    CanCancel = TRUE
    Inline = FALSE
    Source = "none"
    Requests = {"cancel"}
    Faulty = {"crash"}
    Outcomes = {"succeeded"}
    Noise = {}
    AttemptsCap = 2

SYMMETRY Symmetry

INVARIANT TypeOK
INVARIANT OneCreation
INVARIANT CancelledWasAsked
PROPERTY ContractKept
