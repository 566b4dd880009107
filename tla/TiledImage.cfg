CONSTANTS
    Tile = {t1, t2}
    Storage = {s1, s2, s3}
    NoStorage = none
    Pixel = {p1, p2}
    Value = {0, 1}
    ClearValue = 0
    MaxRevision = 3
    MaxEpoch = 2
    MaxGeneration = 3
SYMMETRY Symmetry
SPECIFICATION ImageSpec
INVARIANTS TypeOK BookkeepingExact BackingExact
PROPERTIES HeldStorageImmutable NoSilentChange VersionsAdvance
