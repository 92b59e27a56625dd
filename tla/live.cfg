\* Every task settles once faults have ended.
SPECIFICATION FairSpec

CONSTANTS
    Workers = {w1}
    Gateways = {g1}
    Uids = {u1}
    NoId = NoId
    MaxAttempts = 1
    MaxExt = 0
    Poll404Threshold = 2
    ConfirmAuto = FALSE
    CanCancel = TRUE
    Inline = FALSE
    Source = "poll"
    Requests = {}
    Faulty = {"crash", "lose"}
    Outcomes = {"succeeded", "failed"}
    Noise = {"broken"}
    AttemptsCap = 3

PROPERTY EventuallySettled
