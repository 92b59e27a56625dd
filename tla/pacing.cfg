\* Two workers, pushback that ends, and a reset by an operator.
SPECIFICATION FairSpec

CONSTANTS
    Workers = {w1, w2}
    Unit = 4
    Base = 3
    Minimum = 2
    Maximum = 6
    Initial = 3
    HotStart = 2
    Bucket = 3
    Durations = {2, 7}
    Elapsed = {0, 5, 10}
    MaxPushback = 2
    MaxSamples = 2

INVARIANT TypeOK
INVARIANT CadenceSound
INVARIANT PercentileClose
PROPERTY PenaltyEnds
