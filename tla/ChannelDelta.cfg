CONSTANTS
    Tile = {t1, t2}
    Storage = {s1, s2, s3}
    NoStorage = none
    Pixel = {p1}
    Value = {0, 1}
    ClearValue = 0
    MaxRevision = 2
    MaxEpoch = 2
    MaxGeneration = 2
    Token = {k1, k2}
    PinBudget = 2
    ForgetsOnDisable = TRUE
SYMMETRY Symmetry
VIEW View
CONSTRAINT FewOwners
SPECIFICATION DeltaSpec
INVARIANTS DeltaComplete SnapshotsExact MirrorShowsCursor PoolExact
