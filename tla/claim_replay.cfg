\* A dead task is replayed under a template that could ask the upstream.
SPECIFICATION Spec

CONSTANTS
    Gateways = {g1, g2}
    Ids = {t1, t2}
    Creds = {c1}
    Explicit = {k1}
    NoKey = NoKey
    Contents = {x, y}
    Spellings = {plain}
    Empty = Empty
    Offers <- MCOffers
    k1 = k1
    x = x
    y = y
    NoOne = NoOne
    Window = 2
    Modes = {"queued"}
    ConfirmAuto = TRUE
    Start = 1
    Horizon = 2
    MaxRequests = 3

CHECK_DEADLOCK FALSE

INVARIANT ReplayCreatesOnce
