\* A failed task with attempts left.
SPECIFICATION FairSpec

CONSTANTS
    Workers = {w1}
    Gateways = {}
    Uids = {u1}
    NoId = NoId
    MaxAttempts = 2
    MaxExt = 0
    Poll404Threshold = 2
    ConfirmAuto = FALSE
    CanCancel = TRUE
    Inline = FALSE
    Source = "none"
    Requests = {}
    Faulty = {}
    Outcomes = {"failed"}
    Noise = {}
    AttemptsCap = 3

PROPERTY FailedIsResolved
