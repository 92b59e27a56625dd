\* Two producers race for the last place, two workers crash, raise and
\* claim, and the first message is poison.
SPECIFICATION FairSpec

CONSTANTS
    Producers = {p1, p2}
    Workers = {w1, w2}
    NoOne = NoOne
    MaxDepth = 2
    Batch = 2
    Total = 4
    Poison = {1}

INVARIANT TypeOK
INVARIANT NothingLost
INVARIANT DepthBounded
PROPERTY HealthyAcked
PROPERTY QueueKept
