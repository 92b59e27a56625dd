\* Two callbacks and two transfer workers, for both kinds of template.
SPECIFICATION FairSpec

CONSTANTS
    Callbacks = {c1, c2}
    Movers = {w1, w2}
    Sources = {"poll", "callback"}
    MaxTransfer = 2
    Progress = 0
    MaxDoubts = 1

CHECK_DEADLOCK FALSE

INVARIANT TypeOK
INVARIANT ShownIsVerdict
INVARIANT RefHasObject
INVARIANT TransferNotForgotten
PROPERTY ShownStands
PROPERTY VerdictArrives
