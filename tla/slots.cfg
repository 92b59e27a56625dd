\* Three workers, two tenants, crashes, and a calibration at any time.
SPECIFICATION FairSpec

CONSTANTS
    t1 = t1
    t2 = t2
    alice = alice
    bob = bob
    Workers = {w1, w2, w3}
    Tasks = {t1, t2}
    NoTask = NoTask
    Tenants = {alice, bob}
    TenantOf <- MCTenantOf
    ChannelLimit = 2
    TenantLimit = 1
    NoCount = NoCount
    MaxCrashes = 2

INVARIANT TypeOK
INVARIANT TenantBounded
PROPERTY UndercountIsCalibration
PROPERTY LeakedSlotsComeBack
