\* Two requests race for one key across two windows; a dead task is replayed.
SPECIFICATION Spec

CONSTANTS
    Gateways = {g1, g2}
    Ids = {t1, t2}
    Creds = {c1}
    Explicit = {k1}
    NoKey = NoKey
    Contents = {x, y}
    Spellings = {plain}
    Empty = Empty
    Offers <- MCOffers
    k1 = k1
    x = x
    y = y
    NoOne = NoOne
    Window = 2
    Modes = {"queued", "inline"}
    ConfirmAuto = FALSE
    Start = 1
    Horizon = 2
    MaxRequests = 3

SYMMETRY Symmetry
CHECK_DEADLOCK FALSE

INVARIANT TypeOK
INVARIANT SameTask
INVARIANT AnswerIsOwn
INVARIANT SplitOnlyAtEdge
INVARIANT ReplayCreatesOnce
PROPERTY PromiseKept
